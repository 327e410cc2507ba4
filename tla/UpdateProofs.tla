---------------------------- MODULE UpdateProofs ----------------------------
(***************************************************************************)
(* What comes back of an update, for every manifest the CRD admits and     *)
(* every resource the API can have.  The request is followed through the   *)
(* API, which fills in defaults and merges it into the resource, and       *)
(* through the observation: what the status then shows where the manifest  *)
(* asks for something is what the manifest says there, or what the status  *)
(* showed before (Explained).  So where both agreed nothing changes.       *)
(***************************************************************************)
EXTENDS ConversionProofs

\* The request with its defaults, and the resource with the request merged into it.
New(w, ex)        == Filled(w, ex)
Merged(x, w, ex)  == Patch(x, New(w, ex), Deep)
Full(x, w, ex)    == Completed(Merged(x, w, ex))
Updated(x, w, ex) == Stored(Merged(x, w, ex))

LEMMA CompletedSame ==
    ASSUME NEW r, Valid(r), IsMap(r), NEW k,
           kind = "environment" => k # "config", kind = "credential" => k # "auth"
    PROVE  Below(Completed(r), {k}) = Below(r, {k})
<1>1. CASE kind = "environment"
    <2> DEFINE c == IF "config" \in Keys(r) THEN At(r, "config") ELSE NoField
               f == Field("config", StoredConfig(c))
    <2>1. Completed(r) = f ++ r
        BY <1>1 DEF Completed, StoredEnvironment
    <2>2. Valid(StoredConfig(c))
        BY ValidAt, ValidNone, ConfigComplete
    <2>3. Keys(f) \subseteq {"config"}
        BY <2>2, FieldTree DEF Valid
    <2> HIDE DEF f
    <2>4. k \notin Keys(f)
        BY <1>1, <2>3
    <2>5. Below(f ++ r, {k}) = Below(r, {k})
        BY <2>4, BelowBoth
    <2> QED
        BY <2>1, <2>5
<1>2. CASE kind = "credential"
    <2>1. Completed(r) = Sub(r, "auth", StoredAuth) ++ r
        BY <1>2 DEF Completed, StoredCredential
    <2>2. IsTree(StoredAuth(At(r, "auth")))
        BY ValidAt, AuthValid DEF Valid
    <2>3. k \notin Keys(Sub(r, "auth", StoredAuth))
        BY <1>2, <2>2, FieldTree, KeysNone DEF Sub
    <2> QED
        BY <2>1, <2>3, BelowBoth
<1>3. CASE kind \notin {"environment", "credential"}
    BY <1>3 DEF Completed
<1> QED
    BY <1>1, <1>2, <1>3

\* How the resource comes about after an update.
LEMMA AfterUpdate ==
    ASSUME NEW x, Valid(x), IsMap(x), NEW w, Valid(w), IsMap(w), NEW ex
    PROVE  /\ Valid(New(w, ex)) /\ IsMap(New(w, ex)) /\ Keys(New(w, ex)) = Keys(w)
           /\ Valid(Merged(x, w, ex)) /\ IsMap(Merged(x, w, ex))
           /\ New(w, ex) \subseteq Merged(x, w, ex) /\ Merged(x, w, ex) \subseteq x \cup New(w, ex)
           /\ Updated(x, w, ex) = Without(Full(x, w, ex), EmptyLists(Full(x, w, ex)))
           /\ Valid(Full(x, w, ex)) /\ Kept(kind, Updated(x, w, ex))
<1>1. Valid(New(w, ex)) /\ IsMap(New(w, ex)) /\ Keys(New(w, ex)) = Keys(w)
    BY FilledValid DEF New
<1>2. Valid(Merged(x, w, ex)) /\ IsMap(Merged(x, w, ex))
    BY <1>1, PatchValid DEF Merged
<1>3. New(w, ex) \subseteq Merged(x, w, ex) /\ Merged(x, w, ex) \subseteq x \cup New(w, ex)
    BY DEF Patch, Merged
<1>4. Kept(kind, Updated(x, w, ex))
    BY <1>2, StoredKept DEF Updated
<1>5. Valid(Full(x, w, ex))
    BY <1>2, CompletedValid DEF Full
<1> QED
    BY <1>1, <1>2, <1>3, <1>4, <1>5 DEF Stored, Full, Updated

\* That is what the API does with the request, to a resource or to none.
LEMMA AfterIs ==
    ASSUME NEW w, Valid(w), IsMap(w), NEW ex
    PROVE  /\ \A x : IsMap(x) => After(w, x, ex) = Updated(x, w, ex)
           /\ After(w, Nothing, ex) = Updated(NoField, w, ex)
<1>1. ASSUME NEW x, IsMap(x) PROVE After(w, x, ex) = Updated(x, w, ex)
    BY <1>1, NotNothing DEF After, Updated, Merged, New
<1>2. IsMap(New(w, ex))
    BY FilledValid DEF New
<1>3. Patch(NoField, New(w, ex), Deep) = New(w, ex)
    BY <1>2 DEF Patch, IsMap, NoField, Leaf
<1>4. After(w, Nothing, ex) = Stored(New(w, ex))
    BY DEF After, New
<1> QED
    BY <1>1, <1>3, <1>4 DEF Updated, Merged

\* What is not sent stays as it is, there or not there.
LEMMA AfterSame ==
    ASSUME NEW x, Kept(kind, x), NEW w, Valid(w), IsMap(w), NEW ex, NEW k, k \notin Keys(w)
    PROVE  At(Updated(x, w, ex), k) = At(x, k)
<1>1. CASE k \in Keys(x)
    BY <1>1, AfterUntouched, AfterIs DEF Kept
<1>2. CASE k \notin Keys(x)
    <2> DEFINE C == Full(x, w, ex)
    <2>1. /\ Keys(New(w, ex)) = Keys(w) /\ Valid(Merged(x, w, ex)) /\ IsMap(Merged(x, w, ex))
          /\ Merged(x, w, ex) \subseteq x \cup New(w, ex)
          /\ Updated(x, w, ex) = Without(C, EmptyLists(C))
        BY AfterUpdate DEF Kept
    <2>2. k \notin Keys(Merged(x, w, ex))
        BY <1>2, <2>1 DEF Keys
    <2>3. k \notin Keys(C)
        <3>1. CASE kind = "credential" /\ k = "auth"
            <4>1. C = NoField ++ Merged(x, w, ex)
                BY <2>2, <3>1 DEF Full, Completed, StoredCredential, Sub
            <4> QED
                BY <2>2, <4>1, KeysBoth, KeysNone
        <3>2. CASE ~(kind = "credential" /\ k = "auth")
            <4>1. kind = "environment" => k # "config"
                BY <1>2 DEF Kept
            <4> QED
                BY <2>1, <2>2, <3>2, <4>1, CompletedSame, AtBelow DEF Full
        <3> QED
            BY <3>1, <3>2
    <2> HIDE DEF C
    <2>4. k \notin Keys(Updated(x, w, ex))
        BY <2>1, <2>3, KeysOnly
    <2>5. At(Updated(x, w, ex), k) = {} /\ At(x, k) = {}
        BY <1>2, <2>4, AtNone
    <2> QED
        BY <2>5
<1> QED
    BY <1>1, <1>2

\* What is below a key that is neither completed nor dropped as an empty list.
LEMMA AfterBelow ==
    ASSUME NEW x, Valid(x), IsMap(x), NEW w, Valid(w), IsMap(w), NEW ex, NEW k, k \notin {"config", "auth"}
    PROVE  \/ Below(Updated(x, w, ex), {k}) = Below(Merged(x, w, ex), {k})
           \/ /\ At(Updated(x, w, ex), k) = {}
              /\ \A n \in At(New(w, ex), k) : n[1] = <<>> /\ n[2] = "[]"
<1> DEFINE C == Full(x, w, ex)
           E == EmptyLists(C)
<1>1. /\ Valid(Merged(x, w, ex)) /\ IsMap(Merged(x, w, ex)) /\ New(w, ex) \subseteq Merged(x, w, ex)
      /\ Updated(x, w, ex) = Without(C, E) /\ Valid(New(w, ex)) /\ Valid(C)
    BY AfterUpdate
<1>2. Below(C, {k}) = Below(Merged(x, w, ex), {k})
    BY <1>1, CompletedSame DEF Full
<1> HIDE DEF C
<1>3. CASE k \notin E
    <2>1. Below(Without(C, E), {k}) = Below(C, {k})
        BY <1>3, BelowWithout
    <2> QED
        BY <1>1, <1>2, <2>1
<1>4. CASE k \in E
    <2>1. At(Updated(x, w, ex), k) = {}
        BY <1>1, <1>4, AtOnly
    <2>2. PICK m \in C : Len(m[1]) = 1 /\ m[2] = "[]" /\ m[1][1] = k /\ Below(C, {k}) = {m}
        BY <1>4 DEF EmptyLists
    <2>3. Below(New(w, ex), {k}) \subseteq {m}
        BY <1>1, <1>2, <2>2 DEF Below
    <2>4. Tail(m[1]) = <<>>
        BY <1>1, <2>2 DEF Valid, IsTree, IsPath
    <2>5. \A n \in At(New(w, ex), k) : n = <<(<<>>), "[]">>
        BY <2>2, <2>3, <2>4 DEF At
    <2>6. <<(<<>>), "[]">>[1] = <<>> /\ <<(<<>>), "[]">>[2] = "[]"
        OBVIOUS
    <2>7. \A n \in At(New(w, ex), k) : n[1] = <<>> /\ n[2] = "[]"
        BY <2>5, <2>6
    <2> QED
        BY <2>1, <2>7
<1> QED
    BY <1>3, <1>4

\* What is sent and not merged is as it was sent, unless it is an empty list.
LEMMA AfterSent ==
    ASSUME NEW x, Valid(x), IsMap(x), NEW w, Valid(w), IsMap(w), NEW ex, NEW k, k \notin Deep,
           <<k>> \in Paths(New(w, ex))
    PROVE  \/ At(Updated(x, w, ex), k) = At(New(w, ex), k)
           \/ At(Updated(x, w, ex), k) = {} /\ ~IsMap(At(New(w, ex), k))
<1>1. IsTree(x)
    BY DEF Kept, Valid
<1>2. Below(Merged(x, w, ex), {k}) = Below(New(w, ex), {k})
    BY <1>1, PatchReplaced DEF Merged
<1>3. k \notin {"config", "auth"}
    BY DEF Deep
<1>4. (\A n \in At(New(w, ex), k) : n[2] # "{}") => ~IsMap(At(New(w, ex), k))
    <2> DEFINE root == <<(<<>>), "{}">>
    <2>1. root[2] = "{}"
        OBVIOUS
    <2> QED
        BY <2>1 DEF IsMap
<1>5. \/ Below(Updated(x, w, ex), {k}) = Below(Merged(x, w, ex), {k})
      \/ At(Updated(x, w, ex), k) = {} /\ \A n \in At(New(w, ex), k) : n[2] # "{}"
    BY <1>3, AfterBelow
<1>6. CASE Below(Updated(x, w, ex), {k}) = Below(Merged(x, w, ex), {k})
    BY <1>2, <1>6, AtBelow
<1> QED
    BY <1>4, <1>5, <1>6

\* The fields that are sent as they are in the manifest, or not at all.
LEMMA PlainBack ==
    ASSUME NEW x, Kept(kind, x), NEW p, Manifest(p), NEW w, Valid(w), IsMap(w), NEW ex,
           NEW R, NEW O, \A k \in R \cup O : k \notin {"config", "auth"},
           \A k \in R \cup O : k \in Keys(w) => Below(New(w, ex), {k}) = Below(p, {k}),
           NEW s, Fields(x, R, O) \subseteq s
    PROVE  Explained(Fields(Updated(x, w, ex), R, O), p, s)
<1> DEFINE y == Updated(x, w, ex)
<1>1. /\ Valid(y) /\ IsMap(y) /\ Keys(New(w, ex)) = Keys(w)
      /\ New(w, ex) \subseteq Merged(x, w, ex) /\ Merged(x, w, ex) \subseteq x \cup New(w, ex)
    BY AfterUpdate DEF Kept
<1>2. IsTree(p) /\ IsMap(p)
    BY ManifestMap
<1>3. ASSUME NEW k \in R \cup O
      PROVE  \/ Below(y, {k}) = Below(Merged(x, w, ex), {k})
             \/ At(y, k) = {} /\ \A n \in At(New(w, ex), k) : n[1] = <<>> /\ n[2] = "[]"
    BY <1>3, AfterBelow DEF Kept
<1>4. ASSUME NEW k \in R \cup O, k \notin Keys(w) PROVE At(y, k) = At(x, k)
    BY <1>4, AfterSame
<1>5. IsTree(Fields(y, R, O))
    BY <1>1, FieldsTree DEF Valid
<1> HIDE DEF y
<1>6. ASSUME NEW n \in y, n[1] = <<>> PROVE n \in p
    <2> DEFINE root == <<(<<>>), "{}">>
    <2>1. root \in y /\ root \in p /\ root[1] = <<>>
        BY <1>1, <1>2 DEF IsMap
    <2> HIDE DEF root
    <2> QED
        BY <1>1, <1>6, <2>1 DEF Valid, IsTree, Single
<1>7. ASSUME NEW k \in R \cup O, NEW n \in Below(y, {k}) PROVE n \in p \cup s
    <2>1. k \in Keys(y)
        BY <1>7 DEF Below, Keys
    <2>2. n \in Below(Merged(x, w, ex), {k})
        BY <1>3, <2>1, AtNone
    <2>3. CASE n \in x
        <3>1. n \in Only(x, R \cup O)
            BY <2>2, <2>3 DEF Only, Below
        <3> QED
            BY <3>1 DEF Fields
    <2>4. CASE n \in New(w, ex)
        <3>1. n \in Below(New(w, ex), {k}) /\ k \in Keys(w)
            BY <1>1, <2>2, <2>4 DEF Below, Keys
        <3> QED
            BY <3>1 DEF Below
    <2> QED
        BY <1>1, <2>2, <2>3, <2>4 DEF Below
<1>8. ASSUME NEW k \in R \ Keys(y), <<k>> \in Paths(p) PROVE <<(<<k>>), "">> \in s
    <2>1. k \in Keys(p)
        BY <1>2, <1>8, TextPath
    <2>2. CASE k \in Keys(w)
        <3>1. Below(New(w, ex), {k}) = Below(p, {k})
            BY <2>2
        <3>2. Below(p, {k}) # {} /\ Below(y, {k}) = {}
            BY <1>8, <2>1 DEF Below, Keys
        <3>3. Below(y, {k}) # Below(Merged(x, w, ex), {k})
            BY <1>1, <3>1, <3>2 DEF Below
        <3>4. \A n \in At(p, k) : n[1] = <<>> /\ n[2] = "[]"
            BY <1>3, <3>1, <3>3, AtBelow
        <3>5. At(p, k) # {} /\ NoEmptyList(At(p, k))
            BY <2>1, AtNone DEF Manifest, Admitted
        <3> QED
            BY <3>4, <3>5 DEF NoEmptyList
    <2>3. CASE k \notin Keys(w)
        <3>1. k \in R \ Keys(x)
            BY <1>4, <1>8, <2>3, AtNone
        <3> QED
            BY <3>1 DEF Fields
    <2> QED
        BY <2>2, <2>3
<1>9. ASSUME NEW n \in Fields(y, R, O), n[1] \in Paths(p) PROVE n \in p \cup s
    <2>1. CASE n \in Only(y, R \cup O)
        BY <2>1, <1>6, <1>7 DEF Only, Root, Below
    <2>2. CASE n \in {<<(<<k>>), "">> : k \in R \ Keys(y)}
        <3>1. PICK k \in R \ Keys(y) : n = <<(<<k>>), "">>
            BY <2>2
        <3>2. n[1] = <<k>>
            BY <3>1
        <3> QED
            BY <1>8, <1>9, <3>1, <3>2
    <2> QED
        BY <2>1, <2>2 DEF Fields
<1> QED
    BY <1>5, <1>9 DEF Explained, y

---------------------------------------------------------------------------
(* The parts of an agent, as they come back. *)

LEMMA EchoSkill ==
    ASSUME NEW e, IsTree(e), IsMap(e), OneOf(e, "type", {"anthropic", "custom"})
    PROVE  Echoes(agentSkillFromObservation(agentSkillToParam(e)), e)
<1>1. Echoes(agentSkillToParam(e), e)
    BY EchoVariant DEF agentSkillToParam, OneOf
<1> QED
    BY <1>1, EchoPart DEF agentSkillFromObservation

LEMMA EchoMcpServer ==
    ASSUME NEW e, IsTree(e), IsMap(e), "type" \notin Keys(e)
    PROVE  Echoes(agentMcpServerFromObservation(agentMcpServerToParam(e)), e)
<1>1. Echoes(agentMcpServerToParam(e), e)
    BY EchoVariant DEF agentMcpServerToParam
<1> QED
    BY <1>1, EchoPart DEF agentMcpServerFromObservation

\* What the manifest says about a tool the API does not fill in.
Configured(a, c) ==
    /\ Echoes(a, c) /\ IsMap(a) /\ Keys(c) \cap {"enabled", "permissionPolicy"} \subseteq Keys(a)

LEMMA EchoEnabled ==
    ASSUME NEW c, IsTree(c), IsMap(c), NEW a, Configured(a, c)
    PROVE  Echoes(Enabled(a), c) /\ IsMap(Enabled(a))
<1> DEFINE b == a ++ Field("enabled", Leaf("true"))
<1>1. IsTree(Leaf("true")) /\ IsTree(Leaf("always_allow"))
    BY LeafTree
<1>2. Echoes(b, c)
    BY <1>1, EchoDefault DEF Configured
<1>3. "permissionPolicy" \in Keys(c) => "permissionPolicy" \in Keys(b)
    BY KeysBoth DEF Configured
<1> HIDE DEF b
<1>4. Echoes(b ++ Field("permissionPolicy", Leaf("always_allow")), c)
    BY <1>1, <1>2, <1>3, EchoDefault
<1>5. IsMap(b ++ Field("permissionPolicy", Leaf("always_allow")))
    BY MapBoth DEF Configured, b
<1> QED
    BY <1>4, <1>5 DEF Enabled, b

LEMMA ConfiguredDefault ==
    ASSUME NEW c, IsTree(c), IsMap(c), OneOf(c, "permissionPolicy", Policies)
    PROVE  Configured(toolDefaultConfig(c), c)
<1>1. /\ Echoes(Only(c, {"enabled"}), c) /\ Echoes(Only(c, {"permissionPolicy"}), c)
      /\ Echoes(NoField, c)
    BY EchoOnly, EchoNone
<1>2. Echoes(toolDefaultConfig(c), c)
    BY <1>1, EchoBoth DEF toolDefaultConfig, toolPermissionPolicy
<1>3. IsMap(toolDefaultConfig(c))
    BY MapOnly, MapBoth DEF toolDefaultConfig
<1>4. "permissionPolicy" \in Keys(c) => toolPermissionPolicy(c) = Only(c, {"permissionPolicy"})
    BY DEF toolPermissionPolicy, OneOf
<1>5. Keys(toolDefaultConfig(c)) = (Keys(c) \cap {"enabled"}) \cup Keys(toolPermissionPolicy(c))
    BY KeysBoth, KeysOnly DEF toolDefaultConfig
<1>6. "permissionPolicy" \in Keys(c) => "permissionPolicy" \in Keys(toolPermissionPolicy(c))
    BY <1>4, KeysOnly
<1> QED
    BY <1>2, <1>3, <1>5, <1>6 DEF Configured

\* A default behind what is configured.
LEMMA ConfiguredBoth ==
    ASSUME NEW c, IsTree(c), IsMap(c), NEW a, Configured(a, c), NEW b, Echoes(b, c)
    PROVE  Configured(a ++ b, c)
<1>1. IsMap(a ++ b) /\ Keys(a) \subseteq Keys(a ++ b)
    BY KeysBoth, MapBoth DEF Configured
<1> QED
    BY <1>1, EchoBoth DEF Configured

LEMMA ConfiguredOverride ==
    ASSUME NEW c, IsTree(c), IsMap(c), OneOf(c, "permissionPolicy", Policies),
           agentToolOverrideParam(c) # Nothing
    PROVE  Configured(agentToolOverrideParam(c), c)
<1> DEFINE name   == Field("name", Leaf(Text(c, "name")))
           common == name ++ toolDefaultConfig(c)
<1>1. Echoes(name, c)
    <2>1. \/ Text(c, "name") \in {"bash", "edit", "read", "write", "glob", "grep"}
          \/ Text(c, "name") = "web_fetch" \/ Text(c, "name") = "web_search"
        BY DEF agentToolOverrideParam
    <2>2. Text(c, "name") \notin {"{}", "[]"}
        BY <2>1
    <2> QED
        BY <2>2, EchoText
<1>2. Configured(toolDefaultConfig(c), c)
    BY ConfiguredDefault
<1>3. Configured(common, c)
    <2>1. Echoes(common, c) /\ Keys(common) = Keys(name) \cup Keys(toolDefaultConfig(c))
        BY <1>1, <1>2, EchoBoth, KeysBoth DEF Configured
    <2>2. IsMap(common)
        BY FieldTree, LeafTree, MapBoth
    <2> QED
        BY <1>2, <2>1, <2>2 DEF Configured
<1>4. \A K : Echoes(Only(c, K), c)
    BY EchoOnly
<1> HIDE DEF common
<1>5. \A K : Configured(common ++ Only(c, K), c)
    BY <1>3, <1>4, ConfiguredBoth
<1> QED
    BY <1>3, <1>5 DEF agentToolOverrideParam, common

LEMMA ConfiguredMcpTool ==
    ASSUME NEW c, IsTree(c), IsMap(c), OneOf(c, "permissionPolicy", Policies)
    PROVE  Configured(mcpToolConfig(c), c)
<1>1. Echoes(Fields(c, {"name"}, {}), c) /\ IsMap(Fields(c, {"name"}, {}))
    BY EchoFields, MapOnly
<1>2. Configured(toolDefaultConfig(c), c)
    BY ConfiguredDefault
<1>3. Echoes(mcpToolConfig(c), c) /\ IsMap(mcpToolConfig(c))
    BY <1>1, <1>2, EchoBoth, MapBoth DEF mcpToolConfig, Configured
<1>4. Keys(toolDefaultConfig(c)) \subseteq Keys(mcpToolConfig(c))
    BY KeysBoth DEF mcpToolConfig
<1> QED
    BY <1>2, <1>3, <1>4 DEF Configured

LEMMA EchoRosterEntry ==
    ASSUME NEW e, IsTree(e), IsMap(e), OneOf(e, "type", {"agent", "self", "advisor"}),
           ~(Text(e, "type") = "agent" /\ Text(e, "id") = OwnId),
           Text(e, "type") = "self" => OneOf(e, "id", {OwnId}) /\ "version" \notin Keys(e)
    PROVE  Echoes(rosterEntryFromObservation(StoredRosterEntry(agentRosterEntryToParam(e))), e)
<1> DEFINE a  == agentRosterEntryToParam(e)
           r  == StoredRosterEntry(a)
           latest == Field("version", Leaf("latest"))
<1>1. \A k, v : IsTree(Field(k, Leaf(v))) /\ Keys(Field(k, Leaf(v))) = {k} /\ Text(Field(k, Leaf(v)), k) = v
    <2> SUFFICES ASSUME NEW k, NEW v
                 PROVE  /\ IsTree(Field(k, Leaf(v))) /\ Keys(Field(k, Leaf(v))) = {k}
                        /\ Text(Field(k, Leaf(v)), k) = v
        OBVIOUS
    <2>1. IsTree(Field(k, Leaf(v))) /\ <<(<<k>>), v>> \in Field(k, Leaf(v))
        BY LeafField
    <2>2. Leaf(v) # {} /\ IsTree(Leaf(v))
        BY LeafTree DEF Leaf
    <2> QED
        BY <2>1, <2>2, FieldHas, TextPath
<1>2. \A t, R, O : Text(Variant(t, e, R, O), "type") = t
    BY <1>1, TextBoth DEF Variant
<1>3. \A v : IsTree(v) => \A K : Only(v, K) \subseteq v
    BY OnlyTree
<1>4. CASE Text(e, "type") = "self"
    <2> DEFINE own == Field("id", Leaf(OwnId)) ++ Field("type", Leaf("agent"))
    <2>1. a = Variant("self", e, {}, {})
        BY <1>4 DEF agentRosterEntryToParam
    <2>2. r = own ++ latest
        BY <1>2, <2>1 DEF StoredRosterEntry
    <2>3. Text(own, "id") = OwnId /\ Text(own, "type") = "agent" /\ Keys(own) = {"id", "type"}
        BY <1>1, TextBoth, KeysBoth
    <2>4. Text(r, "id") = OwnId /\ Text(r, "type") = "agent"
        BY <2>2, <2>3, TextBoth
    <2>5. rosterEntryFromObservation(r) = Field("type", Leaf("self")) ++ Only(r, {"id", "version"})
        BY <2>4 DEF rosterEntryFromObservation
    <2>6. Echoes(Field("type", Leaf("self")), e)
        BY <1>4, EchoText
    <2>7. Echoes(Only(r, {"id", "version"}), e)
        <3>1. Echoes(Field("id", Leaf(OwnId)), e)
            BY <1>4, TextAssumption, EchoText DEF OneOf
        <3>2. Echoes(latest, e)
            BY <1>4, LeafTree, EchoNew
        <3>3. Echoes(Field("id", Leaf(OwnId)) ++ latest, e)
            BY <3>1, <3>2, EchoBoth
        <3>4. Only(r, {"id", "version"}) \subseteq Field("id", Leaf(OwnId)) ++ latest
            <4>1. Keys(Field("id", Leaf(OwnId))) = {"id"} /\ Keys(Field("type", Leaf("agent"))) = {"type"}
                  /\ Keys(latest) = {"version"}
                BY <1>1
            <4>2. Keys(own) = {"id", "type"}
                BY <2>3
            <4>3. \A n : n \in r => n \in Field("id", Leaf(OwnId)) \/ n \in latest
                                        \/ (n[1] # <<>> /\ Head(n[1]) = "type")
                BY <2>2, <4>1 DEF ++, Below, Keys
            <4>4. \A n \in latest : n[1] = <<>> => n \in NoField
                BY LeafTree, FieldTree DEF Root
            <4>5. NoField \subseteq Field("id", Leaf(OwnId))
                BY DEF Field
            <4>6. \A n \in latest : n[1] # <<>> => n \in Field("id", Leaf(OwnId)) ++ latest
                BY <4>1, BothRight DEF Keys
            <4>7. Field("id", Leaf(OwnId)) \subseteq Field("id", Leaf(OwnId)) ++ latest
                BY DEF ++
            <4>8. \A n \in Only(r, {"id", "version"}) : n \in r /\ (n[1] # <<>> => Head(n[1]) # "type")
                BY DEF Only, Root, Below
            <4> QED
                BY <4>3, <4>4, <4>5, <4>6, <4>7, <4>8
        <3>5. IsSubsetEqual(e, Only(r, {"id", "version"}))
            <4>1. /\ IsTree(own) /\ IsTree(latest) /\ IsMap(own)
                  /\ At(Field("id", Leaf(OwnId)), "id") = Leaf(OwnId) /\ Keys(latest) = {"version"}
                BY <1>1, LeafNodes, BothTree, MapBoth
            <4>2. IsTree(r) /\ IsMap(r)
                BY <2>2, <4>1, BothTree, MapBoth
            <4>3. At(r, "id") = At(own, "id")
                BY <2>2, <4>1, AtLeft
            <4>4. At(own, "id") = Leaf(OwnId)
                <5>1. "id" \notin Keys(Field("type", Leaf("agent")))
                    BY <1>1
                <5> QED
                    BY <4>1, <5>1, AtLeft
            <4>5. "id" \in Keys(e) => IsSubsetEqual(At(e, "id"), Leaf(OwnId))
                BY <1>4, TextAssumption, TextSubset DEF OneOf
            <4> HIDE DEF r, own, latest
            <4>6. /\ IsTree(Only(r, {"id", "version"})) /\ IsMap(Only(r, {"id", "version"}))
                  /\ Keys(Only(r, {"id", "version"})) = Keys(r) \cap {"id", "version"}
                  /\ At(Only(r, {"id", "version"}), "id") = At(r, "id")
                <5>1. IsTree(Only(r, {"id", "version"})) /\ IsMap(Only(r, {"id", "version"}))
                    BY <4>2, OnlyTree, MapOnly
                <5>2. Keys(Only(r, {"id", "version"})) = Keys(r) \cap {"id", "version"}
                    BY KeysOnly
                <5>3. At(Only(r, {"id", "version"}), "id") = At(r, "id")
                    BY AtOnly
                <5> QED
                    BY <5>1, <5>2, <5>3
            <4>7. "version" \notin Keys(e)
                BY <1>4
            <4> QED
                BY <4>3, <4>4, <4>5, <4>6, <4>7, SubsetMap
        <3> QED
            BY <3>3, <3>4, <3>5, Subtree DEF Echoes
    <2> QED
        BY <2>5, <2>6, <2>7, EchoBoth
<1>5. CASE Text(e, "type") = "advisor"
    <2>1. a = Variant("advisor", e, {"model"}, {})
        BY <1>5 DEF agentRosterEntryToParam
    <2>2. Echoes(a, e) /\ Text(a, "type") = "advisor"
        <3>1. Echoes(a, e)
            BY <1>5, <2>1, EchoVariant
        <3> QED
            BY <1>2, <2>1, <3>1
    <2>3. r = a /\ rosterEntryFromObservation(r) = Only(a, {"type", "model"})
        BY <2>2 DEF StoredRosterEntry, rosterEntryFromObservation
    <2> QED
        BY <2>2, <2>3, EchoPart
<1>6. CASE Text(e, "type") \notin {"self", "advisor"}
    <2>1. a = Variant("agent", e, {"id"}, {"version"})
        BY <1>6 DEF agentRosterEntryToParam
    <2>2. Echoes(a, e) /\ Text(a, "type") = "agent"
        <3>1. "type" \in Keys(e) => Text(e, "type") = "agent"
            BY <1>6 DEF OneOf
        <3>2. Echoes(a, e)
            BY <2>1, <3>1, EchoVariant
        <3> QED
            BY <1>2, <2>1, <3>2
    <2>3. r = a ++ latest
        BY <2>2 DEF StoredRosterEntry
    <2>4. Keys(a) = {"type"} \cup ({"id"} \cup (Keys(e) \cap {"version"}))
        <3>1. a = Field("type", Leaf("agent")) ++ Fields(e, {"id"}, {"version"})
            BY <2>1 DEF Variant
        <3>2. Keys(Field("type", Leaf("agent"))) = {"type"}
            BY <1>1
        <3>3. Keys(Fields(e, {"id"}, {"version"})) = {"id"} \cup (Keys(e) \cap {"version"})
            BY FieldsFull
        <3> QED
            BY <3>1, <3>2, <3>3, KeysBoth
    <2>5. Echoes(r, e)
        BY <2>2, <2>3, <2>4, LeafTree, EchoDefault
    <2>6. Text(r, "type") = "agent"
        BY <2>2, <2>3, <2>4, TextBoth
    <2> HIDE DEF a, r, latest
    <2>7. CASE Text(r, "id") # OwnId
        <3>1. rosterEntryFromObservation(r) = Only(r, {"type", "id", "version"})
            BY <2>6, <2>7 DEF rosterEntryFromObservation
        <3> QED
            BY <2>5, <3>1, EchoPart DEF a, r
    <2>8. CASE Text(r, "id") = OwnId
        <3>1. rosterEntryFromObservation(r) = Field("type", Leaf("self")) ++ Only(r, {"id", "version"})
            BY <2>6, <2>8 DEF rosterEntryFromObservation
        <3>2. Text(a, "id") = OwnId
            BY <2>3, <2>4, <2>8, TextBoth
        <3>3. "type" \notin Keys(e)
            <4>1. Text(a, "id") = Text(Fields(e, {"id"}, {"version"}), "id")
                BY <1>1, <2>1, TextBoth DEF Variant
            <4>2. Text(e, "id") = OwnId
                <5>1. <<(<<"id">>), OwnId>> \in Fields(e, {"id"}, {"version"})
                    <6>1. IsTree(Fields(e, {"id"}, {"version"})) /\ OwnId # ""
                        BY FieldsTree, TextAssumption
                    <6> QED
                        BY <3>2, <4>1, <6>1, TextNode
                <5>2. <<(<<"id">>), OwnId>>[2] # ""
                    BY TextAssumption
                <5>3. \A n \in Fields(e, {"id"}, {"version"}) :
                        n \in Only(e, {"id"} \cup {"version"}) \/ n[2] = ""
                    BY FieldsTree
                <5>4. Only(e, {"id"} \cup {"version"}) \subseteq e
                    BY <1>3
                <5>5. <<(<<"id">>), OwnId>> \in e
                    BY <5>1, <5>2, <5>3, <5>4
                <5> QED
                    BY <5>5, TextPath
            <4> QED
                BY <1>6, <4>2 DEF OneOf
        <3>4. Echoes(Field("type", Leaf("self")), e)
            BY <3>3, LeafTree, EchoNew
        <3>5. Echoes(Only(r, {"id", "version"}), e)
            BY <2>5, EchoPart
        <3> QED
            BY <3>1, <3>4, <3>5, EchoBoth DEF a, r
    <2> QED
        BY <2>7, <2>8
<1> QED
    BY <1>4, <1>5, <1>6

LEMMA MappedSome ==
    ASSUME NEW v, IsTree(v), v # {}, NEW f, \A i \in Keys(v) : IsTree(f[i]) /\ f[i] # {}
    PROVE  Mapped(v, f) # {}
<1>1. PICK n \in v : TRUE
    OBVIOUS
<1>2. CASE n[1] = <<>>
    <2>1. n \in Root(v)
        BY <1>2 DEF Root
    <2> QED
        BY <2>1 DEF Mapped
<1>3. CASE n[1] # <<>>
    <2>1. Head(n[1]) \in Keys(v)
        BY <1>3 DEF Keys
    <2>2. Keys(Mapped(v, f)) # {}
        BY <2>1, MappedAt
    <2> QED
        BY <2>2 DEF Keys
<1> QED
    BY <1>2, <1>3

\* The API stores a list of configs one by one, each as the manifest has it.
ConfigsStored(w, v) ==
    \E g : /\ \A i \in Keys(v) : Echoes(g[i], At(v, i)) /\ IsMap(g[i])
          /\ w = Mapped(v, g)

\* What the API makes of a toolset.
LEMMA EchoToolset ==
    ASSUME NEW ex, NEW t, IsTree(t), IsMap(t),
           \A c \in ToolConfigs(t) : IsMap(c) /\ OneOf(c, "permissionPolicy", Policies),
           NEW T, Echoes(T, t), "defaultConfig" \notin Keys(T), "configs" \notin Keys(T),
           NEW h, \A i \in Keys(At(t, "configs")) : Configured(h[i], At(At(t, "configs"), i)),
           NEW E, E = IF "configs" \notin Keys(t) THEN NoField ELSE Field("configs", Mapped(At(t, "configs"), h)),
           NEW a, a = (T ++ Given(t, "defaultConfig", toolDefaultConfig)) ++ E
    PROVE  /\ Echoes(StoredTool(a, ex), t)
           /\ "configs" \in Keys(t) => ConfigsStored(At(StoredTool(a, ex), "configs"), At(t, "configs"))
<1> DEFINE d    == At(t, "defaultConfig")
           list == At(t, "configs")
           G    == Given(t, "defaultConfig", toolDefaultConfig)
           D    == Sub(a, "defaultConfig", Enabled)
           C    == Each(a, "configs", Enabled)
<1>1. IsTree(d) /\ IsTree(list) /\ Echoes(NoField, t)
    BY AtTree, EchoNone
<1>2. "defaultConfig" \in Keys(t) => IsMap(d) /\ Configured(toolDefaultConfig(d), d)
    BY <1>1, ConfiguredDefault DEF ToolConfigs, Parts
<1>3. G = NoField \/ ("defaultConfig" \in Keys(t) /\ G = Field("defaultConfig", toolDefaultConfig(d)))
    BY DEF Given, NonEmpty
<1>4. Echoes(G, t) /\ Keys(G) \subseteq {"defaultConfig"}
    <2> DEFINE F == Field("defaultConfig", toolDefaultConfig(d))
    <2>1. "defaultConfig" \in Keys(t) => Echoes(F, t)
        BY <1>2, EchoField DEF Configured
    <2>2. "defaultConfig" \in Keys(t) => Keys(F) \subseteq {"defaultConfig"}
        BY <1>2, FieldTree DEF Configured, Echoes
    <2> HIDE DEF F
    <2>3. G = NoField \/ ("defaultConfig" \in Keys(t) /\ G = F)
        BY <1>3 DEF F
    <2> HIDE DEF G
    <2> QED
        BY <1>1, <2>1, <2>2, <2>3, KeysNone
<1>5. \A i \in Keys(list) : /\ IsTree(At(list, i)) /\ IsMap(At(list, i))
                            /\ IsTree(h[i]) /\ IsMap(h[i]) /\ h[i] # {} /\ Echoes(h[i], At(list, i))
    BY <1>1, AtTree DEF ToolConfigs, Elements, Configured, Echoes, IsMap
<1>6. Echoes(Mapped(list, h), list) /\ IsTree(Mapped(list, h))
    BY <1>1, <1>5, EchoMapped DEF Echoes
<1>7. Echoes(E, t) /\ Keys(E) \subseteq {"configs"}
    BY <1>1, <1>6, EchoField, FieldTree, KeysNone
<1> HIDE DEF G
<1>8. Echoes(a, t)
    BY <1>4, <1>7, EchoBoth DEF G
<1>9. /\ "defaultConfig" \in Keys(a) <=> "defaultConfig" \in Keys(G)
      /\ At(a, "defaultConfig") = At(G, "defaultConfig")
    <2>1. At(a, "defaultConfig") = At(T ++ G, "defaultConfig")
                /\ ("defaultConfig" \in Keys(a) <=> "defaultConfig" \in Keys(T ++ G))
        BY <1>7, AtLeft DEF G
    <2> QED
        BY <2>1, AtRight
<1>10. /\ "configs" \in Keys(a) <=> "configs" \in Keys(E)
       /\ At(a, "configs") = At(E, "configs")
    <2>1. "configs" \notin Keys(T ++ G)
        BY <1>4, KeysBoth
    <2> QED
        BY <2>1, AtRight DEF G
<1>11. Echoes(D, t)
    <2>1. CASE "defaultConfig" \notin Keys(a)
        BY <1>1, <2>1 DEF Sub
    <2>2. CASE "defaultConfig" \in Keys(a)
        <3>1. "defaultConfig" \in Keys(t) /\ G = Field("defaultConfig", toolDefaultConfig(d))
            BY <1>3, <1>9, <2>2, KeysNone
        <3>2. At(a, "defaultConfig") = toolDefaultConfig(d)
            BY <1>2, <1>9, <3>1, AtField DEF Configured, Echoes
        <3>3. Echoes(Enabled(toolDefaultConfig(d)), d)
            BY <1>1, <1>2, <3>1, EchoEnabled
        <3>4. D = Field("defaultConfig", Enabled(toolDefaultConfig(d)))
            BY <2>2, <3>2 DEF Sub
        <3> QED
            BY <3>3, <3>4, EchoField
    <2> QED
        BY <2>1, <2>2
<1>12. Echoes(C, t)
    <2>1. CASE "configs" \notin Keys(a)
        BY <1>1, <2>1 DEF Each
    <2>2. CASE "configs" \in Keys(a)
        <3> DEFINE L == Mapped(list, h)
                   g == [i \in Keys(L) |-> Enabled(At(L, i))]
        <3>1. At(a, "configs") = L
            BY <1>6, <1>10, <2>2, KeysNone, AtField
        <3>2. Keys(L) = Keys(list) /\ \A i \in Keys(list) : At(L, i) = h[i]
            BY <1>1, <1>5, MappedAt
        <3>3. \A i \in Keys(list) : g[i] = Enabled(h[i])
            BY <3>2
        <3>4. \A i \in Keys(list) : Echoes(g[i], At(list, i)) /\ IsMap(g[i])
            BY <1>5, <3>3, EchoEnabled
        <3>5. C = Field("configs", Mapped(At(a, "configs"),
                        [i \in Keys(At(a, "configs")) |-> Enabled(At(At(a, "configs"), i))]))
            BY <2>2 DEF Each
        <3>6. C = Field("configs", Mapped(L, g))
            BY <3>1, <3>5
        <3> HIDE DEF g
        <3>7. Echoes(Mapped(L, g), list)
            BY <1>1, <1>5, <3>4, EchoAgain
        <3> QED
            BY <3>6, <3>7, EchoField
    <2> QED
        BY <2>1, <2>2
<1>13. "configs" \in Keys(t) =>
            /\ ConfigsStored(At(a, "configs"), list)
            /\ ConfigsStored(At(C, "configs"), list) /\ "configs" \in Keys(C)
    <2> SUFFICES ASSUME "configs" \in Keys(t)
                 PROVE  /\ ConfigsStored(At(a, "configs"), list)
                        /\ ConfigsStored(At(C, "configs"), list) /\ "configs" \in Keys(C)
        OBVIOUS
    <2> DEFINE L == Mapped(list, h)
               g == [i \in Keys(L) |-> Enabled(At(L, i))]
    <2>1. IsTree(L) /\ L # {} /\ list # {}
        BY <1>1, <1>5, <1>6, AtNone, MappedSome
    <2>2. "configs" \in Keys(a) /\ At(a, "configs") = L
        BY <1>10, <2>1, FieldHas, AtField
    <2>3. Keys(L) = Keys(list) /\ \A i \in Keys(list) : At(L, i) = h[i]
        BY <1>1, <1>5, MappedAt
    <2>4. \A i \in Keys(list) : Echoes(g[i], At(list, i)) /\ IsMap(g[i]) /\ IsTree(g[i]) /\ g[i] # {}
        <3> SUFFICES ASSUME NEW i \in Keys(list)
                     PROVE  /\ Echoes(Enabled(h[i]), At(list, i)) /\ IsMap(Enabled(h[i]))
                            /\ IsTree(Enabled(h[i])) /\ Enabled(h[i]) # {}
            BY <2>3
        <3>1. Echoes(Enabled(h[i]), At(list, i)) /\ IsMap(Enabled(h[i]))
            BY <1>5, EchoEnabled
        <3> QED
            BY <3>1 DEF Echoes, IsMap
    <2>5. C = Field("configs", Mapped(At(a, "configs"),
                    [i \in Keys(At(a, "configs")) |-> Enabled(At(At(a, "configs"), i))]))
        BY <2>2 DEF Each
    <2>6. C = Field("configs", Mapped(L, g))
        BY <2>2, <2>5
    <2>7. Mapped(L, g) = Mapped(list, g)
        BY <1>1, <1>5, MappedAgain
    <2> HIDE DEF g
    <2>8. IsTree(Mapped(list, g)) /\ Mapped(list, g) # {}
        BY <1>1, <2>1, <2>4, MappedTree, MappedSome
    <2>9. ConfigsStored(L, list)
        BY <1>5 DEF ConfigsStored
    <2>10. ConfigsStored(Mapped(list, g), list)
        BY <2>4 DEF ConfigsStored
    <2> HIDE DEF L, C
    <2>11. At(C, "configs") = Mapped(list, g) /\ "configs" \in Keys(C)
        BY <2>6, <2>7, <2>8, AtField, FieldHas
    <2> QED
        BY <2>2, <2>9, <2>10, <2>11
<1>14. Keys(D) \subseteq {"defaultConfig"}
    <2>1. IsTree(Enabled(At(a, "defaultConfig")))
        BY <1>8, AtTree, FieldTree, LeafTree, BothTree DEF Enabled, Echoes
    <2> QED
        BY <2>1, FieldTree, KeysNone DEF Sub
<1> DEFINE X == Field("defaultConfig", Enabled(NoField))
           A == (D ++ C) ++ a
<1>15. IsTree(Enabled(NoField)) /\ Keys(X) \subseteq {"defaultConfig"}
    <2>1. IsTree(Enabled(NoField))
        <3>1. \A k, b : IsTree(Field(k, Leaf(b))) /\ IsTree(NoField)
            BY LeafTree, FieldTree DEF NoField
        <3> QED
            BY <3>1, BothTree DEF Enabled
    <2> QED
        BY <2>1, FieldTree
<1>16. "defaultConfig" \in Keys(a) \/ Echoes(X, t)
    <2> SUFFICES ASSUME "defaultConfig" \notin Keys(a) PROVE Echoes(X, t)
        OBVIOUS
    <2>1. CASE "defaultConfig" \notin Keys(t)
        BY <1>15, <2>1, EchoNew
    <2>2. CASE "defaultConfig" \in Keys(t)
        <3>1. IsMap(toolDefaultConfig(d)) /\ IsTree(toolDefaultConfig(d)) /\ toolDefaultConfig(d) # {}
            BY <1>2, <2>2 DEF Configured, Echoes, IsMap
        <3>2. G # Field("defaultConfig", toolDefaultConfig(d))
            <4>1. Keys(Field("defaultConfig", toolDefaultConfig(d))) = {"defaultConfig"}
                BY <3>1, FieldHas
            <4> QED
                BY <1>9, <4>1
        <3>3. toolDefaultConfig(d) \in {Empty, NoField, Nothing}
            BY <2>2, <3>2 DEF G, Given, NonEmpty
        <3>4. ~IsMap(Empty) /\ ~IsMap(Nothing)
            BY DEF IsMap, Empty, Nothing, Leaf
        <3>5. toolDefaultConfig(d) = NoField
            BY <3>1, <3>3, <3>4
        <3>6. Echoes(Enabled(NoField), d)
            BY <1>1, <1>2, <2>2, <3>5, EchoEnabled
        <3> QED
            BY <3>6, EchoField
    <2> QED
        BY <2>1, <2>2
<1> HIDE DEF D, C, X
<1>17. Echoes(A, t) /\ Echoes(A ++ NoField, t)
    BY <1>1, <1>8, <1>11, <1>12, EchoBoth
<1>18. Echoes(A ++ X, t)
    <2>1. "defaultConfig" \in Keys(a) => "defaultConfig" \in Keys(A)
        BY KeysBoth
    <2> HIDE DEF A
    <2>2. CASE "defaultConfig" \in Keys(a)
        BY <1>15, <1>17, <2>1, <2>2, EchoDefault DEF X
    <2>3. CASE "defaultConfig" \notin Keys(a)
        BY <1>16, <1>17, <2>3, EchoBoth
    <2> QED
        BY <2>2, <2>3
<1>19. StoredTool(a, ex) \in {a, A ++ NoField, A ++ X}
    BY DEF StoredTool, D, C, X
<1>20. "configs" \in Keys(t) => ConfigsStored(At(A, "configs"), list) /\ "configs" \in Keys(A)
    BY <1>13, <1>14, AtBoth, KeysBoth
<1> HIDE DEF A
<1>21. "configs" \in Keys(t) => At(A ++ NoField, "configs") = At(A, "configs") /\ At(A ++ X, "configs") = At(A, "configs")
    BY <1>20, AtBoth
<1> QED
    BY <1>8, <1>13, <1>17, <1>18, <1>19, <1>20, <1>21

\* Of a field of a map.
LEMMA EchoAt ==
    ASSUME NEW v, IsTree(v), IsMap(v), NEW w, Echoes(w, v), NEW k \in Keys(v) \cap Keys(w)
    PROVE  Echoes(At(w, k), At(v, k))
<1>1. IsTree(w) /\ IsTree(At(w, k)) /\ IsTree(At(v, k)) /\ IsSubsetEqual(v, w)
    BY AtTree DEF Echoes
<1>2. IsSubsetEqual(At(v, k), At(w, k))
    BY <1>1, SubsetMap
<1>3. ASSUME NEW n \in At(w, k), n[1] \in Paths(At(v, k)) PROVE n \in At(v, k)
    <2>1. IsNode(n)
        BY <1>1, <1>3, Nodes
    <2>2. Into(k, n) \in w /\ Into(k, n)[1] = <<k>> \o n[1]
        BY <1>1, <1>3, <2>1, AtTree, IntoNode
    <2>3. <<k>> \o n[1] \in Paths(v)
        BY <1>3, <2>1, PathAt DEF IsNode
    <2>4. Into(k, n) \in v
        BY <2>2, <2>3 DEF Echoes
    <2> QED
        BY <2>1, <2>4, AtTree
<1> QED
    BY <1>1, <1>2, <1>3 DEF Echoes

LEMMA EchoTool ==
    ASSUME NEW ex, NEW t, IsTree(t), IsMap(t), OneOf(t, "type", {"agent_toolset_20260401", "mcp_toolset", "custom"}),
           \A c \in ToolConfigs(t) : IsMap(c) /\ OneOf(c, "permissionPolicy", Policies),
           Valid(agentToolToParam(t))
    PROVE  Echoes(agentToolFromObservation(StoredTool(agentToolToParam(t), ex)), t)
<1> DEFINE list == At(t, "configs")
           G    == Given(t, "defaultConfig", toolDefaultConfig)
           a    == agentToolToParam(t)
<1>1. IsTree(list) /\ \A i \in Keys(list) : /\ IsTree(At(list, i)) /\ IsMap(At(list, i))
                                            /\ OneOf(At(list, i), "permissionPolicy", Policies)
    BY AtTree DEF ToolConfigs, Elements
<1>2. /\ Echoes(StoredTool(a, ex), t)
      /\ Text(t, "type") # "custom" /\ "configs" \in Keys(t) =>
            ConfigsStored(At(StoredTool(a, ex), "configs"), list)
    <2>1. CASE Text(t, "type") = "mcp_toolset"
        <3> DEFINE h == [i \in Keys(list) |-> mcpToolConfig(At(list, i))]
                   T == Variant("mcp_toolset", t, {"mcpServerName"}, {})
                   E == Each(t, "configs", mcpToolConfig)
        <3>1. \A i \in Keys(list) : Configured(h[i], At(list, i))
            BY <1>1, ConfiguredMcpTool
        <3>2. Echoes(T, t)
            BY <2>1, EchoVariant
        <3>3. Keys(T) \subseteq {"type", "mcpServerName"}
            <4>1. Keys(Field("type", Leaf("mcp_toolset"))) \subseteq {"type"}
                BY LeafTree, FieldTree
            <4>2. Keys(Fields(t, {"mcpServerName"}, {})) \subseteq {"mcpServerName"} \cup {}
                BY FieldsTree
            <4> QED
                BY <4>1, <4>2, KeysBoth DEF Variant
        <3>4. E = IF "configs" \notin Keys(t) THEN NoField ELSE Field("configs", Mapped(list, h))
            BY DEF Each
        <3>5. a = (T ++ G) ++ E
            BY <2>1 DEF agentToolToParam, mcpToolsetParam
        <3> HIDE DEF h, T, E, a
        <3> QED
            BY <3>1, <3>2, <3>3, <3>4, <3>5, EchoToolset
    <2>2. CASE Text(t, "type") = "custom"
        <3>1. a = Variant("custom", t, {"name", "description", "inputSchema"}, {})
            BY <2>2 DEF agentToolToParam, customToolParam
        <3>2. Echoes(a, t)
            BY <2>2, <3>1, EchoVariant
        <3>3. Text(a, "type") = "custom"
            <4>1. <<(<<"type">>), "custom">> \in a
                BY <3>1, LeafField DEF Variant, ++
            <4> QED
                BY <3>2, <4>1, TextPath DEF Echoes
        <3> QED
            BY <2>2, <3>2, <3>3 DEF StoredTool
    <2>3. CASE Text(t, "type") \notin {"mcp_toolset", "custom"}
        <3> DEFINE h == [i \in Keys(list) |-> agentToolOverrideParam(At(list, i))]
                   T == Field("type", Leaf("agent_toolset_20260401"))
                   E == Each(t, "configs", agentToolOverrideParam)
                   L == Mapped(list, h)
        <3>1. \A i \in Keys(list) : h[i] = Nothing \/ Configured(h[i], At(list, i))
            BY <1>1, ConfiguredOverride
        <3>2. Echoes(T, t)
            BY <2>3, EchoText DEF OneOf
        <3>3. Keys(T) \subseteq {"type"}
            BY LeafTree, FieldTree
        <3>4. E = IF "configs" \notin Keys(t) THEN NoField ELSE Field("configs", L)
            BY DEF Each
        <3>5. a = (T ++ G) ++ E
            BY <2>3 DEF agentToolToParam, agentToolsetParam
        <3>6. IsTree(Nothing) /\ Nothing # {} /\ ~Valid(Nothing)
            <4> DEFINE n == <<(<<>>), "nothing">>
            <4>1. n \in Nothing /\ n[2] = "nothing"
                BY DEF Nothing, Leaf
            <4> HIDE DEF n
            <4> QED
                BY <4>1, LeafTree DEF Nothing, Valid, Rejected
        <3>7. \A i \in Keys(list) : IsTree(h[i]) /\ h[i] # {}
            BY <3>1, <3>6 DEF Configured, Echoes, IsMap
        <3>8. IsTree(L) /\ \A i \in Keys(list) : At(L, i) = h[i]
            BY <1>1, <3>7, MappedTree, MappedAt
        <3> HIDE DEF h, T, E, L, a
        <3>9. "configs" \in Keys(t) => At(a, "configs") = L
            <4>1. "configs" \notin Keys(T ++ G)
                <5>1. IsTree(toolDefaultConfig(At(t, "defaultConfig")))
                    BY AtTree, OnlyTree, BothTree, LeafTree DEF toolDefaultConfig, toolPermissionPolicy, NoField
                <5>2. Keys(G) \subseteq {"defaultConfig"}
                    BY <5>1, FieldKeys, KeysNone DEF Given
                <5> QED
                    BY <3>3, <5>2, KeysBoth
            <4>2. At(a, "configs") = At(E, "configs")
                BY <3>5, <4>1, AtRight
            <4> QED
                BY <3>4, <3>8, <4>2, AtField
        <3>10. \A i \in Keys(list) : h[i] # Nothing
            <4> SUFFICES ASSUME NEW i \in Keys(list) PROVE Valid(h[i])
                BY <3>6
            <4>1. "configs" \in Keys(t)
                BY DEF At, Below, Keys
            <4>2. Valid(L)
                BY <3>9, <4>1, ValidAt DEF a
            <4>3. Valid(At(L, i))
                BY <4>2, ValidAt
            <4> QED
                BY <3>8, <4>3
        <3>11. E = IF "configs" \notin Keys(t) THEN NoField ELSE Field("configs", Mapped(list, h))
            BY <3>4 DEF L
        <3> QED
            BY <3>1, <3>2, <3>3, <3>5, <3>10, <3>11, EchoToolset
    <2> QED
        BY <2>1, <2>2, <2>3
<1> DEFINE S == StoredTool(a, ex)
           D == Sub(S, "defaultConfig", toolsetDefaultFromObservation)
           C == Each(S, "configs", agentToolOverrideFromObservation)
<1> HIDE DEF a, S
<1>3. IsTree(S) /\ Echoes(S, t) /\ Echoes(NoField, t)
    BY <1>2, EchoNone DEF Echoes, S
<1>4. \A K : Echoes(Only(S, K), t)
    BY <1>3, EchoPart
<1>5. Echoes(D, t)
    <2> DEFINE d == At(S, "defaultConfig")
    <2>1. CASE "defaultConfig" \notin Keys(S)
        BY <1>3, <2>1 DEF Sub
    <2>2. CASE "defaultConfig" \in Keys(S)
        <3>1. D = Field("defaultConfig", Only(d, {"enabled", "permissionPolicy"}))
            BY <2>2 DEF Sub, toolsetDefaultFromObservation
        <3>2. IsTree(d) /\ IsTree(Only(d, {"enabled", "permissionPolicy"}))
            BY <1>3, AtTree, OnlyTree
        <3>3. CASE "defaultConfig" \notin Keys(t)
            BY <3>1, <3>2, <3>3, EchoNew
        <3>4. CASE "defaultConfig" \in Keys(t)
            <4>1. IsTree(At(t, "defaultConfig")) /\ IsMap(At(t, "defaultConfig"))
                BY <3>4, AtTree DEF ToolConfigs, Parts
            <4>2. Echoes(d, At(t, "defaultConfig"))
                BY <1>3, <2>2, <3>4, EchoAt
            <4>3. Echoes(Only(d, {"enabled", "permissionPolicy"}), At(t, "defaultConfig"))
                BY <4>1, <4>2, EchoPart
            <4> QED
                BY <3>1, <4>3, EchoField
        <3> QED
            BY <3>3, <3>4
    <2> QED
        BY <2>1, <2>2
<1>6. Text(t, "type") # "custom" => Echoes(C, t)
    <2> SUFFICES ASSUME Text(t, "type") # "custom" PROVE Echoes(C, t)
        OBVIOUS
    <2> DEFINE l == At(S, "configs")
               f == [i \in Keys(l) |-> agentToolOverrideFromObservation(At(l, i))]
    <2>1. CASE "configs" \notin Keys(S)
        BY <1>3, <2>1 DEF Each
    <2>2. CASE "configs" \in Keys(S)
        <3>1. C = Field("configs", Mapped(l, f))
            BY <2>2 DEF Each
        <3>2. IsTree(l) /\ IsTree(Mapped(l, f))
            BY <1>3, AtTree, OnlyTree, MappedTree DEF agentToolOverrideFromObservation
        <3>3. CASE "configs" \notin Keys(t)
            BY <3>1, <3>2, <3>3, EchoNew
        <3>4. CASE "configs" \in Keys(t)
            <4>1. PICK g : (\A i \in Keys(list) : Echoes(g[i], At(list, i)) /\ IsMap(g[i])) /\ l = Mapped(list, g)
                BY <1>2, <3>4 DEF ConfigsStored, S
            <4>2. \A i \in Keys(list) : IsTree(g[i]) /\ g[i] # {}
                BY <4>1 DEF Echoes, IsMap
            <4>3. Keys(l) = Keys(list) /\ \A i \in Keys(list) : At(l, i) = g[i]
                BY <1>1, <4>1, <4>2, MappedAt
            <4>4. \A i \in Keys(list) : Echoes(f[i], At(list, i)) /\ IsMap(f[i])
                <5> SUFFICES ASSUME NEW i \in Keys(list), NEW K
                             PROVE  Echoes(Only(g[i], K), At(list, i)) /\ IsMap(Only(g[i], K))
                    BY <4>3 DEF agentToolOverrideFromObservation
                <5> QED
                    BY <1>1, <4>1, EchoPart, MapOnly
            <4> HIDE DEF f
            <4>5. Echoes(Mapped(l, f), list)
                BY <1>1, <4>1, <4>2, <4>4, EchoAgain
            <4> QED
                BY <3>1, <4>5, EchoField
        <3> QED
            BY <3>3, <3>4
    <2> QED
        BY <2>1, <2>2
<1> HIDE DEF D, C
<1>7. /\ Echoes(Only(S, {"type"}) ++ (Only(S, {"mcpServerName", "configs"}) ++ D), t)
      /\ Echoes(Only(S, {"type"}) ++ Only(S, {"name", "description", "inputSchema"}), t)
      /\ Echoes(C, t) => Echoes(Only(S, {"type"}) ++ (D ++ C), t)
    BY <1>4, <1>5, EchoBoth
<1>8. CASE Text(S, "type") = "agent_toolset_20260401"
    <2>1. Text(t, "type") # "custom"
        <3> SUFFICES ASSUME Text(t, "type") = "custom" PROVE FALSE
            OBVIOUS
        <3>1. a = Variant("custom", t, {"name", "description", "inputSchema"}, {})
            BY DEF agentToolToParam, customToolParam, a
        <3>2. <<(<<"type">>), "custom">> \in a
            BY <3>1, LeafField DEF Variant, ++
        <3>3. Text(a, "type") = "custom"
            BY <3>2, TextPath DEF a, Valid
        <3> QED
            BY <1>8, <3>3 DEF StoredTool, S
    <2>2. agentToolFromObservation(S) = Only(S, {"type"}) ++ (D ++ C)
        BY <1>8 DEF agentToolFromObservation, D, C
    <2> QED
        BY <1>6, <1>7, <2>1, <2>2 DEF S, a
<1>9. CASE Text(S, "type") = "mcp_toolset"
    <2>1. agentToolFromObservation(S) = Only(S, {"type"}) ++ (Only(S, {"mcpServerName", "configs"}) ++ D)
        BY <1>9 DEF agentToolFromObservation, D
    <2> QED
        BY <1>7, <2>1 DEF S, a
<1>10. CASE Text(S, "type") \notin {"agent_toolset_20260401", "mcp_toolset"}
    <2>1. agentToolFromObservation(S) = Only(S, {"type"}) ++ Only(S, {"name", "description", "inputSchema"})
        BY <1>10 DEF agentToolFromObservation
    <2> QED
        BY <1>7, <2>1 DEF S, a
<1> QED
    BY <1>8, <1>9, <1>10

\* A part that is sent and not merged.
LEMMA AfterPart ==
    ASSUME NEW x, Valid(x), IsMap(x), NEW w, Valid(w), IsMap(w), NEW ex, NEW k, k \notin Deep,
           Root(At(New(w, ex), k)) # {}
    PROVE  \/ At(Updated(x, w, ex), k) = At(New(w, ex), k)
           \/ At(Updated(x, w, ex), k) = {} /\ ~IsMap(At(New(w, ex), k))
<1>1. IsTree(New(w, ex))
    BY AfterUpdate DEF Valid
<1>2. <<>> \in Paths(At(New(w, ex), k))
    BY DEF Root, Paths
<1>3. <<k>> \in Paths(New(w, ex))
    BY <1>1, <1>2, PathAt, PathOne
<1> QED
    BY <1>3, AfterSent

\* A list comes back whose elements come back, one by one.
LEMMA ListBack ==
    ASSUME NEW p, IsTree(p), IsMap(p), NEW k, NEW v, v = At(p, k),
           NEW f, \A i \in Keys(v) : IsTree(f[i]) /\ f[i] # {}, NEW y, At(y, k) \in {Mapped(v, f), {}},
           NEW g, \A i \in Keys(v) : Echoes(g[i], At(v, i)) /\ IsMap(g[i]) /\ IsMap(At(v, i)),
           NEW C, C = IF k \notin Keys(y) THEN NoField ELSE Field(k, Mapped(Mapped(v, f), g))
    PROVE  Echoes(C, p)
<1>1. IsTree(v)
    BY AtTree
<1>2. CASE k \notin Keys(y)
    BY <1>2, EchoNone
<1>3. CASE k \in Keys(y)
    <2>1. Echoes(Mapped(Mapped(v, f), g), v)
        BY <1>1, EchoAgain
    <2> QED
        BY <1>3, <2>1, EchoField
<1> QED
    BY <1>2, <1>3

SeenServers(r) == Each(r, "mcpServers", agentMcpServerFromObservation)
SeenSkills(r)  == Each(r, "skills", agentSkillFromObservation)
SeenTools(r)   == Each(r, "tools", agentToolFromObservation)
SeenTeam(r)    == Sub(r, "multiagent", agentMultiagentFromObservation)

LEMMA ServersBack ==
    ASSUME NEW x, Valid(x), IsMap(x), NEW p, Manifest(p), "mcpServers" \in Keys(p),
           NEW w, Valid(w), IsMap(w), NEW ex, NEW v, v = At(p, "mcpServers"),
           At(New(w, ex), "mcpServers") = Mapped(v, [i \in Keys(v) |-> agentMcpServerToParam(At(v, i))])
    PROVE  Echoes(SeenServers(Updated(x, w, ex)), p)
<1> DEFINE y == Updated(x, w, ex)
           f == [i \in Keys(v) |-> agentMcpServerToParam(At(v, i))]
           L == Mapped(v, f)
           g == [i \in Keys(L) |-> agentMcpServerFromObservation(At(L, i))]
<1>1. IsTree(p) /\ IsMap(p) /\ IsTree(v) /\ Admitted("mcpServers", v)
    BY ManifestMap, AtTree DEF Manifest
<1>2. \A i \in Keys(v) : IsTree(At(v, i)) /\ IsMap(At(v, i)) /\ "type" \notin Keys(At(v, i))
    BY <1>1, AtTree DEF Admitted, Structs, Elements
<1>3. \A i \in Keys(v) : IsTree(f[i]) /\ f[i] # {}
    <2> SUFFICES ASSUME NEW i \in Keys(v)
                 PROVE  IsTree(agentMcpServerToParam(At(v, i))) /\ agentMcpServerToParam(At(v, i)) # {}
        OBVIOUS
    <2>1. IsTree(agentMcpServerToParam(At(v, i)))
        BY <1>2, EchoVariant DEF agentMcpServerToParam, Echoes
    <2>2. IsMap(agentMcpServerToParam(At(v, i)))
        BY LeafTree, FieldTree, MapBoth DEF agentMcpServerToParam, Variant
    <2> QED
        BY <2>1, <2>2 DEF IsMap
<1>4. Keys(L) = Keys(v) /\ Root(L) = Root(v) /\ \A i \in Keys(v) : At(L, i) = f[i]
    BY <1>1, <1>3, MappedAt
<1>5. \A i \in Keys(v) : Echoes(g[i], At(v, i)) /\ IsMap(g[i]) /\ IsMap(At(v, i))
    <2> SUFFICES ASSUME NEW i \in Keys(v)
                 PROVE  /\ Echoes(agentMcpServerFromObservation(agentMcpServerToParam(At(v, i))), At(v, i))
                        /\ IsMap(agentMcpServerFromObservation(agentMcpServerToParam(At(v, i))))
        BY <1>2, <1>4
    <2>1. IsMap(agentMcpServerToParam(At(v, i)))
        BY LeafTree, FieldTree, MapBoth DEF agentMcpServerToParam, Variant
    <2>2. IsMap(agentMcpServerFromObservation(agentMcpServerToParam(At(v, i))))
        BY <2>1, MapOnly DEF agentMcpServerFromObservation
    <2> QED
        BY <1>2, <2>2, EchoMcpServer
<1>6. At(New(w, ex), "mcpServers") = L /\ Root(L) # {} /\ "mcpServers" \notin Deep
    BY <1>1, <1>4 DEF Admitted, Deep
<1> HIDE DEF L
<1>7. At(y, "mcpServers") \in {L, {}}
    BY <1>6, AfterPart
<1>8. SeenServers(y) = IF "mcpServers" \notin Keys(y) THEN NoField ELSE Field("mcpServers", Mapped(L, g))
    <2>1. "mcpServers" \in Keys(y) => At(y, "mcpServers") = L
        BY <1>7, AtNone
    <2> QED
        BY <2>1 DEF SeenServers, Each
<1> HIDE DEF f, g, y
<1> QED
    BY <1>1, <1>3, <1>5, <1>7, <1>8, ListBack DEF L, y

LEMMA SkillsBack ==
    ASSUME NEW x, Valid(x), IsMap(x), NEW p, Manifest(p), "skills" \in Keys(p),
           NEW w, Valid(w), IsMap(w), NEW ex, NEW v, v = At(p, "skills"),
           At(New(w, ex), "skills") = Mapped(v, [i \in Keys(v) |-> agentSkillToParam(At(v, i))])
    PROVE  Echoes(SeenSkills(Updated(x, w, ex)), p)
<1> DEFINE y == Updated(x, w, ex)
           f == [i \in Keys(v) |-> agentSkillToParam(At(v, i))]
           L == Mapped(v, f)
           g == [i \in Keys(L) |-> agentSkillFromObservation(At(L, i))]
<1>1. IsTree(p) /\ IsMap(p) /\ IsTree(v) /\ Admitted("skills", v)
    BY ManifestMap, AtTree DEF Manifest
<1>2. \A i \in Keys(v) : /\ IsTree(At(v, i)) /\ IsMap(At(v, i))
                         /\ OneOf(At(v, i), "type", {"anthropic", "custom"})
    BY <1>1, AtTree DEF Admitted, Structs, Elements
<1>3. \A i \in Keys(v) : IsTree(f[i]) /\ f[i] # {}
    <2> SUFFICES ASSUME NEW i \in Keys(v)
                 PROVE  IsTree(agentSkillToParam(At(v, i))) /\ agentSkillToParam(At(v, i)) # {}
        OBVIOUS
    <2>1. IsTree(agentSkillToParam(At(v, i)))
        BY <1>2, EchoVariant DEF agentSkillToParam, Echoes, OneOf
    <2>2. IsMap(agentSkillToParam(At(v, i)))
        BY LeafTree, FieldTree, MapBoth DEF agentSkillToParam, Variant
    <2> QED
        BY <2>1, <2>2 DEF IsMap
<1>4. Keys(L) = Keys(v) /\ Root(L) = Root(v) /\ \A i \in Keys(v) : At(L, i) = f[i]
    BY <1>1, <1>3, MappedAt
<1>5. \A i \in Keys(v) : Echoes(g[i], At(v, i)) /\ IsMap(g[i]) /\ IsMap(At(v, i))
    <2> SUFFICES ASSUME NEW i \in Keys(v)
                 PROVE  /\ Echoes(agentSkillFromObservation(agentSkillToParam(At(v, i))), At(v, i))
                        /\ IsMap(agentSkillFromObservation(agentSkillToParam(At(v, i))))
        BY <1>2, <1>4
    <2>1. IsMap(agentSkillToParam(At(v, i)))
        BY LeafTree, FieldTree, MapBoth DEF agentSkillToParam, Variant
    <2>2. IsMap(agentSkillFromObservation(agentSkillToParam(At(v, i))))
        BY <2>1, MapOnly DEF agentSkillFromObservation
    <2> QED
        BY <1>2, <2>2, EchoSkill
<1>6. At(New(w, ex), "skills") = L /\ Root(L) # {} /\ "skills" \notin Deep
    BY <1>1, <1>4 DEF Admitted, Deep
<1> HIDE DEF L
<1>7. At(y, "skills") \in {L, {}}
    BY <1>6, AfterPart
<1>8. SeenSkills(y) = IF "skills" \notin Keys(y) THEN NoField ELSE Field("skills", Mapped(L, g))
    <2>1. "skills" \in Keys(y) => At(y, "skills") = L
        BY <1>7, AtNone
    <2> QED
        BY <2>1 DEF SeenSkills, Each
<1> HIDE DEF f, g, y
<1> QED
    BY <1>1, <1>3, <1>5, <1>7, <1>8, ListBack DEF L, y

LEMMA ToolsBack ==
    ASSUME NEW x, Valid(x), IsMap(x), NEW p, Manifest(p), "tools" \in Keys(p),
           NEW w, Valid(w), IsMap(w), NEW ex, NEW v, v = At(p, "tools"), NEW made, made = At(w, "tools"),
           made = Mapped(v, [i \in Keys(v) |-> agentToolToParam(At(v, i))]),
           At(New(w, ex), "tools") = Mapped(made, [i \in Keys(made) |-> StoredTool(At(made, i), ex)])
    PROVE  Echoes(SeenTools(Updated(x, w, ex)), p)
<1> DEFINE y == Updated(x, w, ex)
           h == [i \in Keys(v) |-> agentToolToParam(At(v, i))]
           f == [i \in Keys(made) |-> StoredTool(At(made, i), ex)]
           L == Mapped(v, f)
           g == [i \in Keys(L) |-> agentToolFromObservation(At(L, i))]
<1>1. IsTree(p) /\ IsMap(p) /\ IsTree(v) /\ Admitted("tools", v)
    BY ManifestMap, AtTree DEF Manifest
<1>2. \A i \in Keys(v) : /\ IsTree(At(v, i)) /\ IsMap(At(v, i))
                         /\ OneOf(At(v, i), "type", {"agent_toolset_20260401", "mcp_toolset", "custom"})
                         /\ \A c \in ToolConfigs(At(v, i)) : IsMap(c) /\ OneOf(c, "permissionPolicy", Policies)
    BY <1>1, AtTree DEF Admitted, Structs, Elements
<1>3. \A i \in Keys(v) : IsTree(h[i]) /\ IsMap(h[i])
    <2> SUFFICES ASSUME NEW i \in Keys(v)
                 PROVE  IsTree(agentToolToParam(At(v, i))) /\ IsMap(agentToolToParam(At(v, i)))
        OBVIOUS
    <2>1. {} \in SUBSET Purpose
        OBVIOUS
    <2>2. Made(agentToolToParam(At(v, i)), At(v, i), secrets, {})
        BY <1>2, <2>1, MadeTool
    <2>3. IsMap(agentToolToParam(At(v, i)))
        BY FieldTree, LeafTree, MapBoth
           DEF agentToolToParam, mcpToolsetParam, customToolParam, agentToolsetParam, Variant
    <2> QED
        BY <2>2, <2>3 DEF Made
<1>4. /\ Keys(made) = Keys(v) /\ Root(made) = Root(v)
      /\ \A i \in Keys(v) : At(made, i) = h[i] /\ Valid(h[i])
    <2>1. \A i \in Keys(v) : IsTree(h[i]) /\ h[i] # {}
        BY <1>3 DEF IsMap
    <2>2. Keys(made) = Keys(v) /\ Root(made) = Root(v) /\ \A i \in Keys(v) : At(made, i) = h[i]
        BY <1>1, <2>1, MappedAt
    <2>3. Valid(made)
        BY ValidAt
    <2> QED
        BY <2>2, <2>3, ValidAt
<1>5. \A i \in Keys(v) : f[i] = StoredTool(agentToolToParam(At(v, i)), ex) /\ Valid(agentToolToParam(At(v, i)))
    BY <1>4
<1>6. \A i \in Keys(v) : IsTree(f[i]) /\ f[i] # {} /\ IsMap(f[i])
    <2> SUFFICES ASSUME NEW i \in Keys(v), NEW a, a = agentToolToParam(At(v, i))
                 PROVE  /\ IsTree(StoredTool(a, ex)) /\ StoredTool(a, ex) # {}
                        /\ IsMap(StoredTool(a, ex))
        BY <1>5
    <2>1. Valid(a) /\ IsMap(a)
        BY <1>3, <1>5
    <2>2. IsMap(Sub(a, "defaultConfig", Enabled))
        BY ValidNone DEF Sub, IsMap, Field
    <2>3. IsMap(StoredTool(a, ex))
        BY <2>1, <2>2, MapBoth DEF StoredTool
    <2> QED
        BY <2>1, <2>3, ValidTool DEF Valid, IsMap
<1> HIDE DEF f
<1>7. Keys(L) = Keys(v) /\ Root(L) = Root(v) /\ \A i \in Keys(v) : At(L, i) = f[i]
    BY <1>1, <1>6, MappedAt
<1>8. \A i \in Keys(v) : Echoes(g[i], At(v, i)) /\ IsMap(g[i]) /\ IsMap(At(v, i))
    <2> SUFFICES ASSUME NEW i \in Keys(v)
                 PROVE  Echoes(agentToolFromObservation(f[i]), At(v, i)) /\ IsMap(agentToolFromObservation(f[i]))
        BY <1>2, <1>7
    <2>1. IsMap(agentToolFromObservation(f[i]))
        BY <1>6, MapOnly, MapBoth DEF agentToolFromObservation
    <2> QED
        BY <1>2, <1>5, <2>1, EchoTool
<1>9. At(New(w, ex), "tools") = L /\ Root(L) # {} /\ "tools" \notin Deep
    <2>1. Mapped(made, f) = Mapped(v, f)
        BY <1>4 DEF Mapped
    <2> QED
        BY <1>1, <1>7, <2>1 DEF Admitted, Deep, f
<1> HIDE DEF L
<1>10. At(y, "tools") \in {L, {}}
    BY <1>9, AfterPart
<1>11. SeenTools(y) = IF "tools" \notin Keys(y) THEN NoField ELSE Field("tools", Mapped(L, g))
    <2>1. "tools" \in Keys(y) => At(y, "tools") = L
        BY <1>10, AtNone
    <2> QED
        BY <2>1 DEF SeenTools, Each
<1> HIDE DEF g, y
<1>12. \A i \in Keys(v) : IsTree(f[i]) /\ f[i] # {}
    BY <1>6
<1>13. At(y, "tools") \in {Mapped(v, f), {}}
    BY <1>10 DEF L
<1>14. SeenTools(y) = IF "tools" \notin Keys(y) THEN NoField ELSE Field("tools", Mapped(Mapped(v, f), g))
    BY <1>11 DEF L
<1> QED
    <2>1. Echoes(SeenTools(y), p)
        BY <1>1, <1>8, <1>12, <1>13, <1>14, ListBack
    <2> QED
        BY <2>1 DEF y

\* An entry of a roster that an update can bring about.
Settled(e) ==
    /\ ~(Text(e, "type") = "agent" /\ Text(e, "id") = OwnId)
    /\ Text(e, "type") = "self" => OneOf(e, "id", {OwnId}) /\ "version" \notin Keys(e)

LEMMA RosterStored ==
    ASSUME NEW e, IsTree(e), NEW a, a = agentRosterEntryToParam(e), Valid(a)
    PROVE  /\ IsTree(a) /\ a # {} /\ IsTree(StoredRosterEntry(a)) /\ StoredRosterEntry(a) # {}
           /\ IsMap(rosterEntryFromObservation(StoredRosterEntry(a)))
<1>1. IsMap(a)
    BY LeafTree, FieldTree, MapBoth DEF agentRosterEntryToParam, Variant
<1>2. IsMap(StoredRosterEntry(a))
    BY <1>1, LeafTree, FieldTree, MapBoth DEF StoredRosterEntry
<1>3. \A v : IsMap(v) => IsMap(rosterEntryFromObservation(v))
    BY LeafTree, FieldTree, MapBoth, MapOnly DEF rosterEntryFromObservation
<1>4. \A v : IsMap(v) => v # {}
    BY DEF IsMap
<1> QED
    BY <1>1, <1>2, <1>3, <1>4, ValidRosterEntry DEF Valid

LEMMA SeenEntryTree ==
    ASSUME NEW e, IsTree(e)
    PROVE  IsTree(rosterEntryFromObservation(e))
<1>1. \A K : IsTree(Only(e, K))
    BY OnlyTree
<1>2. IsTree(Field("type", Leaf("self")))
    BY LeafField
<1> QED
    BY <1>1, <1>2, BothTree DEF rosterEntryFromObservation

\* The roster as it is mirrored: each entry of the manifest's, sent, stored and seen.
TeamSeen(t, v, list) ==
    \E g : /\ \A i \in Keys(list) :
                /\ g[i] = rosterEntryFromObservation(StoredRosterEntry(agentRosterEntryToParam(At(list, i))))
                /\ IsTree(g[i]) /\ IsMap(g[i])
          /\ t = Field("multiagent",
                       IF "agents" \in Keys(v) THEN Field("agents", Mapped(list, g)) ELSE NoField)

LEMMA TeamStored ==
    ASSUME NEW x, Valid(x), IsMap(x), NEW p, Manifest(p), "multiagent" \in Keys(p),
           NEW w, Valid(w), IsMap(w), NEW ex, NEW v, v = At(p, "multiagent"),
           NEW list, list = At(v, "agents"),
           NEW made, made = At(w, "multiagent"), made = agentMultiagentToParam(v),
           At(New(w, ex), "multiagent") = Each(made, "agents", StoredRosterEntry) ++ made
    PROVE  TeamSeen(SeenTeam(Updated(x, w, ex)), v, list)
<1> DEFINE y    == Updated(x, w, ex)
           h    == [i \in Keys(list) |-> agentRosterEntryToParam(At(list, i))]
           L    == Mapped(list, h)
           t    == Field("type", Leaf("coordinator"))
           s    == [i \in Keys(L) |-> StoredRosterEntry(At(L, i))]
           new  == At(New(w, ex), "multiagent")
<1> SUFFICES \E g :
            /\ \A i \in Keys(list) :
                /\ g[i] = rosterEntryFromObservation(StoredRosterEntry(agentRosterEntryToParam(At(list, i))))
                /\ IsTree(g[i]) /\ IsMap(g[i])
            /\ SeenTeam(y) =
                    Field("multiagent",
                          IF "agents" \in Keys(v) THEN Field("agents", Mapped(list, g)) ELSE NoField)
    BY DEF TeamSeen
<1>1. /\ IsTree(p) /\ IsMap(p) /\ IsTree(v) /\ IsMap(v) /\ IsTree(list)
      /\ Admitted("multiagent", v) /\ Valid(made)
    BY ManifestMap, AtTree, ValidAt DEF Manifest, Admitted, Structs
<1>2. \A i \in Keys(list) : /\ IsTree(At(list, i)) /\ IsMap(At(list, i))
                            /\ OneOf(At(list, i), "type", {"agent", "self", "advisor"})
    BY <1>1, AtTree DEF Admitted, Structs, Elements, RosterEntry
<1>3. made = t ++ (IF "agents" \notin Keys(v) THEN NoField ELSE Field("agents", L))
    BY DEF agentMultiagentToParam, Each
<1>4. Keys(t) \subseteq {"type"} /\ IsMap(t) /\ IsTree(t)
    BY LeafTree, FieldTree
<1>5. IsMap(made) /\ IsMap(new)
    <2>1. IsMap(made)
        BY <1>3, <1>4, MapBoth
    <2>2. IsMap(Each(made, "agents", StoredRosterEntry))
        BY ValidNone DEF Each, IsMap, Field
    <2> QED
        BY <2>1, <2>2, MapBoth
<1>6. At(y, "multiagent") = new
    <2>1. Root(new) # {} /\ "multiagent" \notin Deep
        <3> DEFINE root == <<(<<>>), "{}">>
        <3>1. root \in new /\ root[1] = <<>>
            BY <1>5 DEF IsMap
        <3> HIDE DEF root
        <3>2. root \in Root(new)
            BY <3>1 DEF Root
        <3> QED
            BY <3>2 DEF Deep
    <2> QED
        BY <1>5, <2>1, AfterPart
<1> DEFINE e(i) == rosterEntryFromObservation(StoredRosterEntry(agentRosterEntryToParam(At(list, i))))
           g    == [i \in Keys(list) |-> e(i)]
<1>7. SeenTeam(y) = Field("multiagent", agentMultiagentFromObservation(new))
    <2>1. "multiagent" \in Keys(y)
        BY <1>5, <1>6, AtNone DEF IsMap
    <2> QED
        BY <1>6, <2>1 DEF SeenTeam, Sub
<1>8. CASE "agents" \notin Keys(v)
    <2>1. made = t ++ NoField
        BY <1>3, <1>8
    <2>2. "agents" \notin Keys(made)
        BY <1>4, <2>1, KeysBoth, KeysNone
    <2>3. new = NoField ++ made
        BY <2>2 DEF Each
    <2>4. "agents" \notin Keys(new)
        BY <2>2, <2>3, KeysBoth, KeysNone
    <2>5. agentMultiagentFromObservation(new) = NoField
        BY <2>4 DEF agentMultiagentFromObservation, Each
    <2>6. Keys(list) = {}
        BY <1>8, AtNone DEF Keys
    <2> QED
        BY <1>7, <1>8, <2>5, <2>6
<1>9. CASE "agents" \in Keys(v)
    <2> DEFINE f == [i \in Keys(list) |-> StoredRosterEntry(agentRosterEntryToParam(At(list, i)))]
               M == Mapped(list, f)
               k == [i \in Keys(M) |-> rosterEntryFromObservation(At(M, i))]
    <2>1. \A i \in Keys(list) : IsTree(h[i])
        <3> SUFFICES ASSUME NEW i \in Keys(list) PROVE IsTree(agentRosterEntryToParam(At(list, i)))
            OBVIOUS
        <3>1. Made(agentRosterEntryToParam(At(list, i)), At(list, i), secrets, {})
            BY <1>2, MadeRosterEntry
        <3> QED
            BY <3>1 DEF Made
    <2>2. \A i \in Keys(list) : h[i] # {}
        <3> SUFFICES ASSUME NEW i \in Keys(list) PROVE agentRosterEntryToParam(At(list, i)) # {}
            OBVIOUS
        <3>1. IsMap(agentRosterEntryToParam(At(list, i)))
            BY LeafTree, FieldTree, MapBoth DEF agentRosterEntryToParam, Variant
        <3> QED
            BY <3>1 DEF IsMap
    <2> HIDE DEF h
    <2>3. Keys(L) = Keys(list) /\ IsTree(L) /\ \A i \in Keys(list) : At(L, i) = h[i]
        BY <1>1, <2>1, <2>2, MappedAt, MappedTree
    <2>4. made = t ++ Field("agents", L)
        BY <1>3, <1>9
    <2>5. At(made, "agents") = L
        BY <1>4, <2>3, <2>4, AtRight, AtField
    <2> HIDE DEF L
    <2>6. L # {}
        BY <1>1, <1>9, <2>1, <2>2, AtNone, MappedSome DEF L
    <2>7. "agents" \in Keys(made)
        BY <2>5, <2>6, AtNone
    <2>8. \A i \in Keys(list) : /\ f[i] = StoredRosterEntry(h[i]) /\ Valid(h[i])
                                /\ h[i] = agentRosterEntryToParam(At(list, i))
        BY <1>1, <2>3, <2>5, ValidAt DEF h
    <2>9. \A i \in Keys(list) : IsTree(f[i]) /\ f[i] # {}
        BY <1>2, <2>8, RosterStored
    <2>10. \A i \in Keys(list) : s[i] = f[i]
        BY <2>3, <2>8
    <2> HIDE DEF f
    <2>11. Mapped(L, s) = M /\ IsTree(M)
        <3>1. Mapped(L, s) = Mapped(list, s)
            <4>1. Root(L) = Root(list)
                BY <1>1, <2>1, MappedTree DEF L
            <4> QED
                BY <2>3, <4>1 DEF Mapped
        <3>2. Mapped(list, s) = M
            BY <2>10, MappedSame
        <3> QED
            BY <1>1, <2>9, <3>1, <3>2, MappedTree
    <2>12. Keys(M) = Keys(list) /\ \A i \in Keys(list) : At(M, i) = f[i]
        BY <1>1, <2>9, MappedAt
    <2>13. Each(made, "agents", StoredRosterEntry) = Field("agents", M)
        BY <2>5, <2>7, <2>11 DEF Each
    <2>14. M # {}
        BY <1>1, <1>9, <2>9, AtNone, MappedSome
    <2> HIDE DEF M
    <2>15. At(new, "agents") = M /\ "agents" \in Keys(new)
        BY <2>11, <2>13, <2>14, AtFirst
    <2>16. \A i \in Keys(list) : /\ k[i] = g[i] /\ g[i] = e(i)
                                 /\ IsTree(e(i)) /\ IsMap(e(i))
        <3> SUFFICES ASSUME NEW i \in Keys(list)
                     PROVE  /\ rosterEntryFromObservation(At(M, i)) = e(i)
                            /\ IsTree(e(i)) /\ IsMap(e(i))
            BY <2>12
        <3>1. At(M, i) = StoredRosterEntry(agentRosterEntryToParam(At(list, i)))
            BY <2>12 DEF f
        <3>2. IsMap(e(i)) /\ IsTree(StoredRosterEntry(agentRosterEntryToParam(At(list, i))))
            BY <1>2, <2>8, RosterStored
        <3> QED
            BY <3>1, <3>2, SeenEntryTree
    <2>17. agentMultiagentFromObservation(new) = Field("agents", Mapped(M, k))
        BY <2>15 DEF agentMultiagentFromObservation, Each
    <2> HIDE DEF k, g
    <2>18. Mapped(M, k) = Mapped(list, g)
        <3>1. Mapped(M, k) = Mapped(list, k)
            BY <1>1, <2>9, MappedAgain DEF M
        <3>2. Mapped(list, k) = Mapped(list, g)
            BY <2>16, MappedSame
        <3> QED
            BY <3>1, <3>2
    <2>19. SeenTeam(y) = Field("multiagent", Field("agents", Mapped(list, g)))
        BY <1>7, <2>17, <2>18
    <2> QED
        BY <1>9, <2>16, <2>19
<1> QED
    BY <1>8, <1>9

LEMMA TeamBack ==
    ASSUME NEW x, Valid(x), IsMap(x), NEW p, Manifest(p), "multiagent" \in Keys(p),
           NEW w, Valid(w), IsMap(w), NEW ex, NEW v, v = At(p, "multiagent"),
           \A e \in Elements(At(v, "agents")) : Settled(e),
           NEW made, made = At(w, "multiagent"), made = agentMultiagentToParam(v),
           At(New(w, ex), "multiagent") = Each(made, "agents", StoredRosterEntry) ++ made
    PROVE  Echoes(SeenTeam(Updated(x, w, ex)), p)
<1> DEFINE list == At(v, "agents")
<1>1. /\ IsTree(p) /\ IsMap(p) /\ IsTree(v) /\ IsMap(v) /\ IsTree(list)
      /\ Admitted("multiagent", v)
    BY ManifestMap, AtTree DEF Manifest, Admitted, Structs
<1>2. \A i \in Keys(list) : /\ IsTree(At(list, i)) /\ IsMap(At(list, i)) /\ Settled(At(list, i))
                            /\ OneOf(At(list, i), "type", {"agent", "self", "advisor"})
    BY <1>1, AtTree DEF Admitted, Structs, Elements, RosterEntry
<1>0. list = At(v, "agents")
    OBVIOUS
<1> HIDE DEF list
<1>2a. TeamSeen(SeenTeam(Updated(x, w, ex)), v, list)
    BY <1>0, TeamStored
<1>3. PICK g :
        /\ \A i \in Keys(list) :
            /\ g[i] = rosterEntryFromObservation(StoredRosterEntry(agentRosterEntryToParam(At(list, i))))
            /\ IsTree(g[i]) /\ IsMap(g[i])
        /\ SeenTeam(Updated(x, w, ex)) =
                Field("multiagent",
                      IF "agents" \in Keys(v) THEN Field("agents", Mapped(list, g)) ELSE NoField)
    BY <1>2a DEF TeamSeen
<1>4. \A i \in Keys(list) : Echoes(g[i], At(list, i)) /\ IsMap(g[i]) /\ IsMap(At(list, i))
    BY <1>2, <1>3, EchoRosterEntry DEF Settled
<1>5. Echoes(Mapped(list, g), list)
    BY <1>1, <1>4, EchoMapped
<1>6. Echoes(Field("agents", Mapped(list, g)), v) /\ Echoes(NoField, v)
    BY <1>1, <1>5, EchoField, EchoNone DEF list
<1> QED
    BY <1>1, <1>3, <1>6, EchoField

\* Where a part comes from, when one side does not have it.
LEMMA BelowLeft ==
    ASSUME NEW v, NEW w, NEW k, k \notin Keys(w)
    PROVE  Below(v ++ w, {k}) = Below(v, {k}) /\ (k \in Keys(v ++ w) <=> k \in Keys(v))
<1>1. Below(w, {k}) = {} /\ (k \notin Keys(v) => Below(v, {k}) = {})
    BY BelowBoth
<1>2. Below(v ++ w, {k}) = IF k \in Keys(v) THEN Below(v, {k}) ELSE Below(w, {k})
    BY BelowBoth
<1> QED
    BY <1>1, <1>2, KeysBoth

LEMMA AgentSent ==
    ASSUME NEW p, Manifest(p), NEW keys, NEW w, w = agentToAnthropicUpdate(p, System(p, keys))
    PROVE  /\ \A k \in {"name", "description", "metadata"} :
                Below(w, {k}) = Below(p, {k})
           /\ At(w, "model") = At(agentModelConfigToParam(p), "model")
           /\ "model" \in Keys(w) => Keys(p) \cap {"model", "modelEffort", "modelInferenceGeo"} # {}
           /\ At(w, "system") = At(NonEmpty("system", Leaf(System(p, keys))), "system")
           /\ "multiagent" \in Keys(p) => At(w, "multiagent") = agentMultiagentToParam(At(p, "multiagent"))
           /\ \A k \in {"multiagent", "mcpServers", "skills", "tools"} : k \in Keys(w) => k \in Keys(p)
           /\ "mcpServers" \in Keys(p) =>
                LET v == At(p, "mcpServers")
                IN  At(w, "mcpServers") = Mapped(v, [i \in Keys(v) |-> agentMcpServerToParam(At(v, i))])
           /\ "skills" \in Keys(p) =>
                LET v == At(p, "skills")
                IN  At(w, "skills") = Mapped(v, [i \in Keys(v) |-> agentSkillToParam(At(v, i))])
           /\ "tools" \in Keys(p) =>
                LET v == At(p, "tools")
                IN  At(w, "tools") = Mapped(v, [i \in Keys(v) |-> agentToolToParam(At(v, i))])
<1> DEFINE P == Only(p, {"name", "description", "metadata"})
           M == agentModelConfigToParam(p)
           S == NonEmpty("system", Leaf(System(p, keys)))
           A == Sub(p, "multiagent", agentMultiagentToParam)
           B == Each(p, "mcpServers", agentMcpServerToParam)
           C == Each(p, "skills", agentSkillToParam)
           D == Each(p, "tools", agentToolToParam)
           T == A ++ B ++ C ++ D
<1>1. w = P ++ M ++ S ++ T
    BY DEF agentToAnthropicUpdate, agentTopology
<1>2. /\ Keys(P) \subseteq {"name", "description", "metadata"}
      /\ Keys(M) \subseteq {"model"} /\ Keys(S) \subseteq {"system"}
      /\ (Keys(M) # {} => Keys(p) \cap {"model", "modelEffort", "modelInferenceGeo"} # {})
    BY KeysOnly, ModelKeys, SystemKeys
<1>3. /\ Keys(A) \subseteq Keys(p) \cap {"multiagent"} /\ Keys(B) \subseteq Keys(p) \cap {"mcpServers"}
      /\ Keys(C) \subseteq Keys(p) \cap {"skills"} /\ Keys(D) \subseteq Keys(p) \cap {"tools"}
      /\ IsTree(A) /\ IsTree(B) /\ IsTree(C) /\ IsTree(D)
    <2>1. {} \in SUBSET Purpose
        OBVIOUS
    <2> QED
        BY <2>1, MadeParts DEF Made
<1>4. /\ "multiagent" \in Keys(p) => A = Field("multiagent", agentMultiagentToParam(At(p, "multiagent")))
      /\ "mcpServers" \in Keys(p) =>
            LET v == At(p, "mcpServers")
            IN  B = Field("mcpServers", Mapped(v, [i \in Keys(v) |-> agentMcpServerToParam(At(v, i))]))
      /\ "skills" \in Keys(p) =>
            LET v == At(p, "skills")
            IN  C = Field("skills", Mapped(v, [i \in Keys(v) |-> agentSkillToParam(At(v, i))]))
      /\ "tools" \in Keys(p) =>
            LET v == At(p, "tools")
            IN  D = Field("tools", Mapped(v, [i \in Keys(v) |-> agentToolToParam(At(v, i))]))
    BY DEF Sub, Each
<1> HIDE DEF A, B, C, D, P, M, S
<1>5. Keys(T) \subseteq {"multiagent", "mcpServers", "skills", "tools"} \cap Keys(p)
    <2>1. Keys(T) = Keys(A) \cup Keys(B) \cup Keys(C) \cup Keys(D)
        BY KeysBoth
    <2> QED
        BY <1>3, <2>1
<1>6. /\ At(T, "multiagent") = At(A, "multiagent") /\ At(T, "mcpServers") = At(B, "mcpServers")
      /\ At(T, "skills") = At(C, "skills") /\ At(T, "tools") = At(D, "tools")
    <2>1. /\ At(A ++ B ++ C ++ D, "multiagent") = At(A ++ B ++ C, "multiagent")
          /\ At(A ++ B ++ C, "multiagent") = At(A ++ B, "multiagent")
          /\ At(A ++ B, "multiagent") = At(A, "multiagent")
        BY <1>3, AtLeft
    <2>2. /\ At(A ++ B ++ C ++ D, "mcpServers") = At(A ++ B ++ C, "mcpServers")
          /\ At(A ++ B ++ C, "mcpServers") = At(A ++ B, "mcpServers")
          /\ At(A ++ B, "mcpServers") = At(B, "mcpServers")
        BY <1>3, AtLeft, AtRight
    <2>3. Keys(A ++ B) \cap {"skills", "tools"} = {} /\ "tools" \notin Keys(A ++ B ++ C)
        BY <1>3, KeysBoth
    <2>4. /\ At(A ++ B ++ C ++ D, "skills") = At(A ++ B ++ C, "skills")
          /\ At(A ++ B ++ C, "skills") = At(C, "skills")
        BY <1>3, <2>3, AtLeft, AtRight
    <2>5. At(A ++ B ++ C ++ D, "tools") = At(D, "tools")
        BY <1>3, <2>3, AtRight
    <2> QED
        BY <2>1, <2>2, <2>4, <2>5
<1> HIDE DEF T
<1>7. \A k \in {"multiagent", "mcpServers", "skills", "tools"} : At(w, k) = At(T, k) /\ (k \in Keys(w) <=> k \in Keys(T))
    <2>1. Keys(P ++ M ++ S) \cap {"multiagent", "mcpServers", "skills", "tools"} = {}
        BY <1>2, KeysBoth
    <2> QED
        BY <1>1, <2>1, AtRight
<1>8. At(w, "model") = At(M, "model") /\ ("model" \in Keys(w) <=> "model" \in Keys(M))
    <2>1. /\ At(P ++ M ++ S ++ T, "model") = At(P ++ M ++ S, "model")
          /\ At(P ++ M ++ S, "model") = At(P ++ M, "model")
          /\ At(P ++ M, "model") = At(M, "model")
        BY <1>2, <1>5, AtLeft, AtRight
    <2> QED
        BY <1>1, <2>1, AtNone
<1>9. At(w, "system") = At(S, "system")
    <2>1. At(P ++ M ++ S ++ T, "system") = At(P ++ M ++ S, "system")
        BY <1>5, AtLeft
    <2>2. "system" \notin Keys(P ++ M)
        BY <1>2, KeysBoth
    <2>3. At(P ++ M ++ S, "system") = At(S, "system")
        BY <2>2, AtRight
    <2> QED
        BY <1>1, <2>1, <2>3
<1>10. ASSUME NEW k \in {"name", "description", "metadata"}
       PROVE  Below(w, {k}) = Below(p, {k})
    <2>1. k \notin Keys(T) /\ k \notin Keys(S) /\ k \notin Keys(M)
        BY <1>2, <1>5
    <2>2. /\ Below(P ++ M ++ S ++ T, {k}) = Below(P ++ M ++ S, {k})
          /\ Below(P ++ M ++ S, {k}) = Below(P ++ M, {k})
          /\ Below(P ++ M, {k}) = Below(P, {k})
        BY <2>1, BelowLeft
    <2>3. Below(P, {k}) = Below(p, {k})
        BY DEF P, Only, Below, Root
    <2> QED
        BY <1>1, <2>2, <2>3
<1>11. IsTree(p) /\ (\A k : IsTree(At(p, k))) /\ {} \in SUBSET Purpose
    BY ManifestMap, AtTree
<1>12. "multiagent" \in Keys(p) => At(A, "multiagent") = agentMultiagentToParam(At(p, "multiagent"))
    <2> SUFFICES ASSUME "multiagent" \in Keys(p), NEW v, v = At(p, "multiagent")
                 PROVE  At(A, "multiagent") = agentMultiagentToParam(v)
        OBVIOUS
    <2>1. Admitted("multiagent", v)
        BY DEF Manifest
    <2>2. Made(agentMultiagentToParam(v), v, keys, {})
        BY <2>1, <1>11, MadeMultiagent DEF Admitted, RosterEntry
    <2> QED
        BY <1>4, <2>2, AtField DEF Made
<1>13. "mcpServers" \in Keys(p) =>
            LET v == At(p, "mcpServers")
            IN  At(B, "mcpServers") = Mapped(v, [i \in Keys(v) |-> agentMcpServerToParam(At(v, i))])
    <2> SUFFICES ASSUME "mcpServers" \in Keys(p), NEW v, v = At(p, "mcpServers"),
                        NEW f, f = [i \in Keys(v) |-> agentMcpServerToParam(At(v, i))]
                 PROVE  At(B, "mcpServers") = Mapped(v, f)
        OBVIOUS
    <2>1. \A e \in Elements(v) : "type" \notin Keys(e)
        BY DEF Manifest, Admitted
    <2>2. \A i \in Keys(v) : Made(f[i], At(v, i), keys, {})
        BY <2>1, <1>11, AtTree, MadeMcpServer DEF Elements
    <2>3. IsTree(Mapped(v, f))
        BY <1>11, <2>2, MappedTree DEF Made
    <2> QED
        BY <1>4, <2>3, AtField
<1>14. "skills" \in Keys(p) =>
            LET v == At(p, "skills")
            IN  At(C, "skills") = Mapped(v, [i \in Keys(v) |-> agentSkillToParam(At(v, i))])
    <2> SUFFICES ASSUME "skills" \in Keys(p), NEW v, v = At(p, "skills"),
                        NEW f, f = [i \in Keys(v) |-> agentSkillToParam(At(v, i))]
                 PROVE  At(C, "skills") = Mapped(v, f)
        OBVIOUS
    <2>1. \A e \in Elements(v) : OneOf(e, "type", {"anthropic", "custom"})
        BY DEF Manifest, Admitted
    <2>2. \A i \in Keys(v) : Made(f[i], At(v, i), keys, {})
        BY <2>1, <1>11, AtTree, MadeSkill DEF Elements
    <2>3. IsTree(Mapped(v, f))
        BY <1>11, <2>2, MappedTree DEF Made
    <2> QED
        BY <1>4, <2>3, AtField
<1>15. "tools" \in Keys(p) =>
            LET v == At(p, "tools")
            IN  At(D, "tools") = Mapped(v, [i \in Keys(v) |-> agentToolToParam(At(v, i))])
    <2> SUFFICES ASSUME "tools" \in Keys(p), NEW v, v = At(p, "tools"),
                        NEW f, f = [i \in Keys(v) |-> agentToolToParam(At(v, i))]
                 PROVE  At(D, "tools") = Mapped(v, f)
        OBVIOUS
    <2>1. \A e \in Elements(v) : OneOf(e, "type", {"agent_toolset_20260401", "mcp_toolset", "custom"})
        BY DEF Manifest, Admitted
    <2>2. \A i \in Keys(v) : Made(f[i], At(v, i), keys, {})
        BY <2>1, <1>11, AtTree, MadeTool DEF Elements
    <2>3. IsTree(Mapped(v, f))
        BY <1>11, <2>2, MappedTree DEF Made
    <2> QED
        BY <1>4, <2>3, AtField
<1>16. \A k \in {"multiagent", "mcpServers", "skills", "tools"} : k \in Keys(w) => k \in Keys(p)
    BY <1>5, <1>7
<1>17. "model" \in Keys(w) => Keys(p) \cap {"model", "modelEffort", "modelInferenceGeo"} # {}
    BY <1>2, <1>8
<1>18. "multiagent" \in Keys(p) => At(w, "multiagent") = agentMultiagentToParam(At(p, "multiagent"))
    BY <1>6, <1>7, <1>12
<1>19. "mcpServers" \in Keys(p) =>
            LET v == At(p, "mcpServers")
            IN  At(w, "mcpServers") = Mapped(v, [i \in Keys(v) |-> agentMcpServerToParam(At(v, i))])
    BY <1>6, <1>7, <1>13
<1>20. "skills" \in Keys(p) =>
            LET v == At(p, "skills")
            IN  At(w, "skills") = Mapped(v, [i \in Keys(v) |-> agentSkillToParam(At(v, i))])
    BY <1>6, <1>7, <1>14
<1>21. "tools" \in Keys(p) =>
            LET v == At(p, "tools")
            IN  At(w, "tools") = Mapped(v, [i \in Keys(v) |-> agentToolToParam(At(v, i))])
    BY <1>6, <1>7, <1>15
<1> QED
    BY <1>8, <1>9, <1>10, <1>16, <1>17, <1>18, <1>19, <1>20, <1>21 DEF M, S

LEMMA BelowRight ==
    ASSUME NEW v, NEW w, NEW k, k \notin Keys(v)
    PROVE  Below(v ++ w, {k}) = Below(w, {k})
BY BelowBoth

\* What the API fills in of an agent is in its tools and its roster.
LEMMA AgentFilled ==
    ASSUME kind = "agent", NEW w, Valid(w), IsMap(w), NEW ex
    PROVE  /\ \A k : k \notin {"tools", "multiagent"} => Below(New(w, ex), {k}) = Below(w, {k})
           /\ "multiagent" \in Keys(w) =>
                LET m == At(w, "multiagent")
                IN  At(New(w, ex), "multiagent") = Each(m, "agents", StoredRosterEntry) ++ m
           /\ "tools" \in Keys(w) =>
                LET v == At(w, "tools")
                IN  At(New(w, ex), "tools") = Mapped(v, [i \in Keys(v) |-> StoredTool(At(v, i), ex)])
<1> DEFINE list  == At(w, "tools")
           f     == [i \in Keys(list) |-> StoredTool(At(list, i), ex)]
           m     == At(w, "multiagent")
           new   == Each(m, "agents", StoredRosterEntry) ++ m
           agents == At(m, "agents")
           g     == [i \in Keys(agents) |-> StoredRosterEntry(At(agents, i))]
           tools == IF "tools" \notin Keys(w) THEN NoField ELSE Field("tools", Mapped(list, f))
           multi == IF "multiagent" \in Keys(w) THEN Field("multiagent", new) ELSE NoField
<1>1. New(w, ex) = tools ++ multi ++ w
    <2>1. New(w, ex) = StoredAgent(w, ex)
        BY DEF New, Filled
    <2> QED
        BY <2>1 DEF StoredAgent, Each, Sub
<1>2. IsTree(Mapped(list, f))
    <2>1. Valid(list)
        BY ValidAt
    <2>2. \A i \in Keys(list) : Valid(f[i])
        BY <2>1, ValidAt, ValidTool
    <2> QED
        BY <2>1, <2>2, MappedTree DEF Valid
<1>3. IsTree(new)
    <2>1. Valid(m)
        BY ValidAt
    <2>2. \A i \in Keys(agents) : Valid(g[i])
        BY <2>1, ValidAt, ValidRosterEntry
    <2>3. Valid(Field("agents", Mapped(agents, g)))
        BY <2>1, <2>2, ValidEach
    <2>4. Valid(Each(m, "agents", StoredRosterEntry))
        BY <2>3, ValidNone DEF Each
    <2> QED
        BY <2>1, <2>4, ValidBoth DEF Valid
<1>4. Keys(tools) \subseteq {"tools"} /\ Keys(multi) \subseteq {"multiagent"}
    <2>1. Keys(Field("tools", Mapped(list, f))) \subseteq {"tools"}
        BY <1>2, FieldTree
    <2>2. Keys(Field("multiagent", new)) \subseteq {"multiagent"}
        BY <1>3, FieldTree
    <2> QED
        BY <2>1, <2>2, KeysNone
<1>5. "tools" \in Keys(w) => At(tools, "tools") = Mapped(list, f)
    BY <1>2, AtField
<1>6. "multiagent" \in Keys(w) => At(multi, "multiagent") = new
    BY <1>3, AtField
<1>7. "tools" \in Keys(w) => At(New(w, ex), "tools") = Mapped(list, f)
    <2> SUFFICES ASSUME "tools" \in Keys(w) PROVE At(New(w, ex), "tools") = Mapped(list, f)
        OBVIOUS
    <2>1. IsTree(list) /\ list # {} /\ \A i \in Keys(list) : IsTree(f[i]) /\ f[i] # {}
        <3>1. Valid(list)
            BY ValidAt
        <3>2. \A i \in Keys(list) : Valid(At(list, i)) /\ At(list, i) # {}
            BY <3>1, ValidAt, AtNone
        <3>3. \A t : t # {} => StoredTool(t, ex) # {}
            BY DEF StoredTool, ++, Sub, Field, NoField, Leaf
        <3>4. \A i \in Keys(list) : Valid(f[i])
            BY <3>1, ValidAt, ValidTool
        <3> QED
            BY <3>1, <3>2, <3>3, <3>4, AtNone DEF Valid
    <2> HIDE DEF f
    <2>2. Mapped(list, f) # {}
        BY <2>1, MappedSome
    <2>3. "tools" \in Keys(tools)
        BY <1>2, <2>2, FieldHas
    <2>4. "tools" \in Keys(tools ++ multi)
        BY <2>3, KeysBoth
    <2> HIDE DEF tools, multi
    <2> QED
        BY <1>1, <1>5, <2>3, <2>4, AtBoth
<1>8. "multiagent" \in Keys(w) => At(New(w, ex), "multiagent") = new
    <2> SUFFICES ASSUME "multiagent" \in Keys(w) PROVE At(New(w, ex), "multiagent") = new
        OBVIOUS
    <2>1. new # {}
        BY AtNone DEF ++, Each, Field, NoField, Leaf
    <2>2. "multiagent" \in Keys(multi)
        BY <1>3, <2>1, FieldHas
    <2>3. "multiagent" \in Keys(tools ++ multi)
        BY <2>2, KeysBoth
    <2> HIDE DEF tools, multi, new
    <2> QED
        BY <1>1, <1>4, <1>6, <2>2, <2>3, AtBoth
<1>9. ASSUME NEW k, k \notin {"tools", "multiagent"} PROVE Below(New(w, ex), {k}) = Below(w, {k})
    <2> HIDE DEF tools, multi
    <2>1. k \notin Keys(tools ++ multi)
        BY <1>4, <1>9, KeysBoth
    <2> QED
        BY <1>1, <2>1, BelowRight
<1> HIDE DEF f, new
<1> QED
    BY <1>7, <1>8, <1>9 DEF f, new

\* Every other field of an agent is created as it was sent.
LEMMA AgentPlain ==
    ASSUME kind = "agent", NEW w, Valid(w), IsMap(w), NEW ex, NEW k, k \notin {"tools", "multiagent"}
    PROVE  Below(New(w, ex), {k}) = Below(w, {k})
BY AgentFilled

LEMMA AgentAt ==
    ASSUME kind = "agent", NEW w, Valid(w), IsMap(w), NEW ex, NEW k, k \notin {"tools", "multiagent"}
    PROVE  At(New(w, ex), k) = At(w, k) /\ (k \in Keys(New(w, ex)) <=> k \in Keys(w))
<1>1. Below(New(w, ex), {k}) = Below(w, {k})
    BY AgentPlain
<1> QED
    BY <1>1, AtBelow

\* What is observed is a tree.
LEMMA EachTree ==
    ASSUME NEW v, IsTree(v), NEW k, NEW f, \A i \in Keys(At(v, k)) : IsTree(f[i]),
           NEW w, w = IF k \notin Keys(v) THEN NoField ELSE Field(k, Mapped(At(v, k), f))
    PROVE  IsTree(w) /\ Keys(w) \subseteq {k}
<1>1. IsTree(At(v, k))
    BY AtTree
<1>2. IsTree(Mapped(At(v, k), f))
    BY <1>1, MappedTree
<1>3. IsTree(Field(k, Mapped(At(v, k), f))) /\ Keys(Field(k, Mapped(At(v, k), f))) \subseteq {k}
    BY <1>2, FieldTree
<1>4. IsTree(NoField) /\ Keys(NoField) = {}
    BY LeafTree, KeysNone DEF NoField
<1> QED
    BY <1>3, <1>4

LEMMA PartTree ==
    ASSUME NEW k, NEW u, IsTree(u), NEW c \in BOOLEAN, NEW w, w = IF c THEN Field(k, u) ELSE NoField
    PROVE  IsTree(w) /\ Keys(w) \subseteq {k}
BY FieldTree, LeafTree, KeysNone DEF NoField

LEMMA SeenToolTree ==
    ASSUME NEW t, IsTree(t)
    PROVE  IsTree(agentToolFromObservation(t))
<1>1. \A K : IsTree(Only(t, K))
    BY OnlyTree
<1>2. IsTree(Sub(t, "defaultConfig", toolsetDefaultFromObservation))
    <2>1. IsTree(toolsetDefaultFromObservation(At(t, "defaultConfig")))
        BY AtTree, OnlyTree DEF toolsetDefaultFromObservation
    <2> QED
        BY <2>1, FieldTree, LeafTree DEF Sub, NoField
<1>3. IsTree(Each(t, "configs", agentToolOverrideFromObservation))
    <2> DEFINE list == At(t, "configs")
               f    == [i \in Keys(list) |-> agentToolOverrideFromObservation(At(list, i))]
    <2>1. \A i \in Keys(list) : IsTree(f[i])
        BY AtTree, OnlyTree DEF agentToolOverrideFromObservation
    <2>2. Each(t, "configs", agentToolOverrideFromObservation) =
            IF "configs" \notin Keys(t) THEN NoField ELSE Field("configs", Mapped(list, f))
        BY DEF Each
    <2> HIDE DEF f
    <2> QED
        BY <2>1, <2>2, EachTree
<1>4. \A a, b : IsTree(a) /\ IsTree(b) => IsTree(a ++ b)
    BY BothTree
<1>5. CASE Text(t, "type") = "agent_toolset_20260401"
    BY <1>1, <1>2, <1>3, <1>4, <1>5 DEF agentToolFromObservation
<1>6. CASE Text(t, "type") = "mcp_toolset"
    BY <1>1, <1>2, <1>4, <1>6 DEF agentToolFromObservation
<1>7. CASE Text(t, "type") \notin {"agent_toolset_20260401", "mcp_toolset"}
    BY <1>1, <1>4, <1>7 DEF agentToolFromObservation
<1> QED
    BY <1>5, <1>6, <1>7

LEMMA SeenParts ==
    ASSUME NEW r, IsTree(r)
    PROVE  /\ IsTree(SeenServers(r)) /\ Keys(SeenServers(r)) \subseteq {"mcpServers"}
           /\ IsTree(SeenSkills(r)) /\ Keys(SeenSkills(r)) \subseteq {"skills"}
           /\ IsTree(SeenTools(r)) /\ Keys(SeenTools(r)) \subseteq {"tools"}
           /\ IsTree(SeenTeam(r)) /\ Keys(SeenTeam(r)) \subseteq {"multiagent"}
<1>1. \A k : IsTree(At(r, k)) /\ \A i : IsTree(At(At(r, k), i))
    BY AtTree
<1>2. IsTree(SeenServers(r)) /\ Keys(SeenServers(r)) \subseteq {"mcpServers"}
    <2> DEFINE list == At(r, "mcpServers")
               f    == [i \in Keys(list) |-> agentMcpServerFromObservation(At(list, i))]
    <2>1. \A i \in Keys(list) : IsTree(f[i])
        BY <1>1, OnlyTree DEF agentMcpServerFromObservation
    <2>2. SeenServers(r) = IF "mcpServers" \notin Keys(r) THEN NoField ELSE Field("mcpServers", Mapped(list, f))
        BY DEF SeenServers, Each
    <2> HIDE DEF f
    <2> QED
        BY <2>1, <2>2, EachTree
<1>3. IsTree(SeenSkills(r)) /\ Keys(SeenSkills(r)) \subseteq {"skills"}
    <2> DEFINE list == At(r, "skills")
               f    == [i \in Keys(list) |-> agentSkillFromObservation(At(list, i))]
    <2>1. \A i \in Keys(list) : IsTree(f[i])
        BY <1>1, OnlyTree DEF agentSkillFromObservation
    <2>2. SeenSkills(r) = IF "skills" \notin Keys(r) THEN NoField ELSE Field("skills", Mapped(list, f))
        BY DEF SeenSkills, Each
    <2> HIDE DEF f
    <2> QED
        BY <2>1, <2>2, EachTree
<1>4. IsTree(SeenTools(r)) /\ Keys(SeenTools(r)) \subseteq {"tools"}
    <2> DEFINE list == At(r, "tools")
               f    == [i \in Keys(list) |-> agentToolFromObservation(At(list, i))]
    <2>1. \A i \in Keys(list) : IsTree(f[i])
        BY <1>1, SeenToolTree
    <2>2. SeenTools(r) = IF "tools" \notin Keys(r) THEN NoField ELSE Field("tools", Mapped(list, f))
        BY DEF SeenTools, Each
    <2> HIDE DEF f
    <2> QED
        BY <2>1, <2>2, EachTree
<1>5. IsTree(SeenTeam(r)) /\ Keys(SeenTeam(r)) \subseteq {"multiagent"}
    <2> DEFINE m    == At(r, "multiagent")
               list == At(m, "agents")
               f    == [i \in Keys(list) |-> rosterEntryFromObservation(At(list, i))]
               c    == "multiagent" \in Keys(r)
    <2>1. \A i \in Keys(list) : IsTree(f[i])
        BY <1>1, AtTree, SeenEntryTree
    <2>2. agentMultiagentFromObservation(m) =
            IF "agents" \notin Keys(m) THEN NoField ELSE Field("agents", Mapped(list, f))
        BY DEF agentMultiagentFromObservation, Each
    <2> HIDE DEF f
    <2>3. IsTree(agentMultiagentFromObservation(m))
        BY <1>1, <2>1, <2>2, EachTree
    <2>4. SeenTeam(r) = IF c THEN Field("multiagent", agentMultiagentFromObservation(m)) ELSE NoField
        BY DEF SeenTeam, Sub
    <2>5. c \in BOOLEAN
        OBVIOUS
    <2> HIDE DEF m, c
    <2> QED
        BY <2>3, <2>4, <2>5, PartTree
<1> QED
    BY <1>2, <1>3, <1>4, <1>5

SeenPlain(r)    == Fields(r, {"name", "description"}, {"metadata"})
SeenModel(r)    == Field("model", NoField ++ Only(At(r, "model"), {"id"}))
SeenSettings(r) == Only(At(r, "model"), {"modelEffort", "modelInferenceGeo"})
SeenPrompt(r)   == NonEmpty("systemSha256", Leaf(Text(r, "system")))
SeenTopology(r) == {SeenServers(r), SeenSkills(r), SeenTools(r), SeenTeam(r)}

\* The parts of the status of an agent do not hide each other.
LEMMA AgentSeen ==
    ASSUME NEW r, IsTree(r), IsMap(r), NEW s, s = agentFromAnthropicObservation(r)
    PROVE  /\ s = Field("id", Leaf(OwnId)) ++ SeenPlain(r) ++ SeenModel(r) ++ SeenSettings(r)
                    ++ SeenPrompt(r) ++ SeenServers(r) ++ SeenSkills(r) ++ SeenTools(r) ++ SeenTeam(r)
           /\ IsTree(s) /\ Field("id", Leaf(OwnId)) \subseteq s /\ SeenPlain(r) \subseteq s
           /\ \A n \in SeenModel(r) \cup SeenSettings(r) \cup SeenPrompt(r) : n[1] # <<>> => n \in s
           /\ \A n \in s : n[1] # <<>> /\ Head(n[1]) = "model" => n \in SeenModel(r)
           /\ \A n \in s : n[1] # <<>> /\ Head(n[1]) = "systemSha256" => n \in SeenPrompt(r)
           /\ IsTree(SeenModel(r)) /\ IsTree(SeenSettings(r)) /\ IsTree(SeenPrompt(r)) /\ IsTree(SeenPlain(r))
<1> DEFINE I  == Field("id", Leaf(OwnId))
           F  == SeenPlain(r)
           M  == SeenModel(r)
           G  == SeenSettings(r)
           P  == SeenPrompt(r)
           c1 == I ++ F
           c2 == c1 ++ M
           c3 == c2 ++ G
           c4 == c3 ++ P
           c5 == c4 ++ SeenServers(r)
           c6 == c5 ++ SeenSkills(r)
           c7 == c6 ++ SeenTools(r)
           c8 == c7 ++ SeenTeam(r)
<1>1. s = c8
    BY DEF agentFromAnthropicObservation, SeenPlain, SeenModel, SeenSettings, SeenPrompt,
           SeenServers, SeenSkills, SeenTools, SeenTeam
<1>2. IsTree(I) /\ Keys(I) \subseteq {"id"} /\ IsMap(I)
    BY LeafTree, FieldTree
<1>3. IsTree(F) /\ Keys(F) \subseteq {"name", "description", "metadata"} /\ Root(F) = NoField
    <2>1. IsTree(F) /\ Keys(F) \subseteq {"name", "description"} \cup {"metadata"} /\ IsMap(F)
        BY FieldsTree, MapOnly DEF SeenPlain
    <2>2. Root(F) \subseteq NoField
        <3> DEFINE root == <<(<<>>), "{}">>
        <3>1. root \in F /\ root[1] = <<>> /\ NoField = {root}
            BY <2>1 DEF IsMap, NoField, Leaf
        <3> HIDE DEF root
        <3>2. \A n \in F : n[1] = <<>> => n = root
            BY <2>1, <3>1 DEF IsTree, Single
        <3> QED
            BY <3>1, <3>2 DEF Root
    <2>3. NoField \subseteq F /\ \A n \in NoField : n[1] = <<>>
        BY <2>1, MapRoot, LeafTree DEF NoField
    <2> QED
        BY <2>1, <2>2, <2>3 DEF Root
<1>4. IsTree(M) /\ Keys(M) \subseteq {"model"}
    <2>1. IsTree(NoField ++ Only(At(r, "model"), {"id"}))
        BY AtTree, OnlyTree, LeafTree, BothTree DEF NoField
    <2> QED
        BY <2>1, FieldTree DEF SeenModel
<1>5. IsTree(G) /\ Keys(G) \subseteq {"modelEffort", "modelInferenceGeo"}
    BY AtTree, OnlyTree, KeysOnly DEF SeenSettings
<1>6. IsTree(P) /\ Keys(P) \subseteq {"systemSha256"}
    <2>1. IsTree(Leaf(Text(r, "system"))) /\ IsTree(NoField)
        BY LeafTree DEF NoField
    <2>2. \A v : IsTree(v) => IsTree(NonEmpty("systemSha256", v))
        BY <2>1, FieldTree DEF NonEmpty
    <2>3. Keys(P) \subseteq {"systemSha256"}
        BY <2>1, FieldKeys DEF SeenPrompt
    <2> QED
        BY <2>1, <2>2, <2>3 DEF SeenPrompt
<1>7. /\ IsTree(SeenServers(r)) /\ Keys(SeenServers(r)) \subseteq {"mcpServers"}
      /\ IsTree(SeenSkills(r)) /\ Keys(SeenSkills(r)) \subseteq {"skills"}
      /\ IsTree(SeenTools(r)) /\ Keys(SeenTools(r)) \subseteq {"tools"}
      /\ IsTree(SeenTeam(r)) /\ Keys(SeenTeam(r)) \subseteq {"multiagent"}
    BY SeenParts
<1> HIDE DEF I, F, M, G, P
<1>8. IsTree(c1) /\ Keys(c1) \subseteq {"id", "name", "description", "metadata"} /\ I \subseteq c1 /\ F \subseteq c1
    BY <1>2, <1>3, KeysBoth, BothTree, RightInside
<1> HIDE DEF c1
<1>9. IsTree(c2) /\ Keys(c2) = Keys(c1) \cup Keys(M) /\ c1 \subseteq c2 /\ c2 \subseteq c1 \cup M
    BY <1>4, <1>8, KeysBoth, BothTree
<1>10. IsTree(c3) /\ Keys(c3) = Keys(c2) \cup Keys(G) /\ c2 \subseteq c2 ++ G /\ c3 \subseteq c2 \cup G
    BY <1>5, <1>9, KeysBoth, BothTree
<1>11. \A n \in M : n[1] # <<>> => n \in c2
    BY <1>4, <1>8, BothRight DEF Keys
<1> HIDE DEF c2
<1>12. \A n \in G : n[1] # <<>> => n \in c3
    BY <1>4, <1>5, <1>8, <1>9, BothRight DEF Keys
<1> HIDE DEF c3
<1>13. IsTree(c4) /\ Keys(c4) = Keys(c3) \cup Keys(P) /\ c3 \subseteq c3 ++ P /\ c4 \subseteq c3 \cup P
    BY <1>6, <1>10, KeysBoth, BothTree
<1>14. \A n \in P : n[1] # <<>> => n \in c4
    BY <1>4, <1>5, <1>6, <1>8, <1>9, <1>10, BothRight DEF Keys
<1>15. c2 \subseteq c3 /\ c3 \subseteq c4
    BY <1>10, <1>13 DEF c3
<1> HIDE DEF c4
<1>16. IsTree(c5) /\ c4 \subseteq c5 /\ c5 \subseteq c4 \cup SeenServers(r)
    BY <1>7, <1>13, BothTree
<1> HIDE DEF c5
<1>17. IsTree(c6) /\ c5 \subseteq c6 /\ c6 \subseteq c5 \cup SeenSkills(r)
    BY <1>7, <1>16, BothTree
<1> HIDE DEF c6
<1>18. IsTree(c7) /\ c6 \subseteq c7 /\ c7 \subseteq c6 \cup SeenTools(r)
    BY <1>7, <1>17, BothTree
<1> HIDE DEF c7
<1>19. IsTree(c8) /\ c7 \subseteq c8 /\ c8 \subseteq c7 \cup SeenTeam(r)
    BY <1>7, <1>18, BothTree
<1> HIDE DEF c8
<1>20. /\ IsTree(s) /\ I \subseteq s /\ F \subseteq s
       /\ \A n \in M \cup G \cup P : n[1] # <<>> => n \in s
    BY <1>1, <1>8, <1>9, <1>11, <1>12, <1>14, <1>15, <1>16, <1>17, <1>18, <1>19
<1>21. s \subseteq c1 \cup M \cup G \cup P \cup SeenServers(r) \cup SeenSkills(r) \cup SeenTools(r) \cup SeenTeam(r)
    BY <1>1, <1>9, <1>10, <1>13, <1>16, <1>17, <1>18, <1>19
<1>22. \A n, v : n \in v /\ n[1] # <<>> => Head(n[1]) \in Keys(v)
    BY DEF Keys
<1>23. ASSUME NEW n \in s, n[1] # <<>>, Head(n[1]) = "model" PROVE n \in M
    <2>1. "model" \notin Keys(c1) \cup Keys(G) \cup Keys(P) \cup Keys(SeenServers(r))
            \cup Keys(SeenSkills(r)) \cup Keys(SeenTools(r)) \cup Keys(SeenTeam(r))
        BY <1>5, <1>6, <1>7, <1>8
    <2> QED
        BY <1>21, <1>22, <1>23, <2>1
<1>24. ASSUME NEW n \in s, n[1] # <<>>, Head(n[1]) = "systemSha256" PROVE n \in P
    <2>1. "systemSha256" \notin Keys(c1) \cup Keys(M) \cup Keys(G) \cup Keys(SeenServers(r))
            \cup Keys(SeenSkills(r)) \cup Keys(SeenTools(r)) \cup Keys(SeenTeam(r))
        BY <1>4, <1>5, <1>7, <1>8
    <2> QED
        BY <1>21, <1>22, <1>24, <2>1
<1> QED
    BY <1>1, <1>3, <1>4, <1>5, <1>6, <1>20, <1>23, <1>24 DEF I, F, M, G, P, c1, c2, c3, c4, c5, c6, c7, c8

\* The model that is observed after an update is the one that was observed before.
LEMMA ModelBack ==
    ASSUME kind = "agent", NEW x, Kept(kind, x), NEW p, Manifest(p), NEW keys,
           NEW w, w = agentToAnthropicUpdate(p, System(p, keys)), Valid(w), IsMap(w), NEW ex,
           NEW s, s = agentFromAnthropicObservation(x), IsSubsetEqual(p, s),
           NEW y, y = Updated(x, w, ex)
    PROVE  /\ \A n \in SeenModel(y) : n[1] # <<>> => n \in s
           /\ \A n \in SeenSettings(y) : n[1] # <<>> => n \in p \cup s
<1> DEFINE fields == {"modelEffort", "modelInferenceGeo"}
           t      == Text(p, "model")
           I      == Field("id", Leaf(t))
           V      == I ++ Only(p, fields)
<1>1. /\ IsTree(x) /\ IsMap(x) /\ IsTree(p) /\ IsMap(p)
      /\ At(w, "model") = At(agentModelConfigToParam(p), "model")
    BY ManifestMap, AgentSent DEF Kept, Valid
<1>2. /\ \A n \in SeenModel(x) : n[1] # <<>> => n \in s
      /\ \A n \in SeenSettings(x) : n[1] # <<>> => n \in s
    BY <1>1, AgentSeen
<1>3. CASE "model" \notin Keys(w)
    <2>1. At(y, "model") = At(x, "model")
        BY <1>3, AfterSame
    <2> QED
        BY <1>2, <2>1 DEF SeenModel, SeenSettings
<1>4. CASE "model" \in Keys(w)
    <2>1. Keys(p) \cap {"model", "modelEffort", "modelInferenceGeo"} # {}
        BY <1>4, AgentSent
    <2>2. /\ IsTree(I) /\ IsMap(I) /\ Keys(I) \subseteq {"id"} /\ <<(<<"id">>), t>> \in I
          /\ \A n \in I : n[2] = "{}" \/ n = <<(<<"id">>), t>>
        BY LeafTree, LeafField, FieldTree
    <2>3. IsTree(Only(p, fields)) /\ Keys(Only(p, fields)) \subseteq fields /\ Only(p, fields) \subseteq p
        BY <1>1, OnlyTree, KeysOnly
    <2> HIDE DEF I
    <2>4. IsTree(V) /\ IsMap(V) /\ I \subseteq V /\ V \subseteq I \cup Only(p, fields)
        BY <2>2, <2>3, BothTree, MapBoth
    <2>5. At(w, "model") = V
        <3>1. agentModelConfigToParam(p) = Field("model", V)
            BY <2>1 DEF agentModelConfigToParam, I
        <3> QED
            BY <1>1, <2>4, <3>1, AtField
    <2> HIDE DEF V
    <2>6. At(New(w, ex), "model") = V
        BY <2>5, AgentAt
    <2>7. At(y, "model") = V
        <3>1. Root(V) # {} /\ "model" \notin Deep
            <4> DEFINE root == <<(<<>>), "{}">>
            <4>1. root \in V /\ root[1] = <<>>
                BY <2>4 DEF IsMap
            <4> HIDE DEF root
            <4>2. root \in Root(V)
                BY <4>1 DEF Root
            <4> QED
                BY <4>2 DEF Deep
        <3> QED
            BY <2>4, <2>6, <3>1, AfterPart DEF Kept
    <2>8. t \notin {"", "nothing"}
        <3>1. Valid(V)
            BY <2>5, ValidAt
        <3>2. <<(<<"id">>), t>> \in V /\ <<(<<"id">>), t>>[2] = t
            BY <2>2, <2>4
        <3> QED
            BY <3>1, <3>2 DEF Valid, Rejected
    <2>9. <<(<<"model">>), t>> \in p
        BY <1>1, <2>8, TextNode
    <2>10. t \notin {"{}", "[]"}
        <3>1. "model" \in Keys(p)
            BY <2>8, <1>1, TextNode
        <3>2. Scalar(At(p, "model"))
            BY <3>1 DEF Manifest, Admitted
        <3>3. <<(<<>>), t>> \in At(p, "model")
            <4> DEFINE root == <<(<<>>), t>>
            <4>1. IsNode(root) /\ Into("model", root) = <<(<<"model">>), t>>
                BY PathOne DEF IsNode, Into
            <4> QED
                BY <1>1, <2>9, <4>1, AtTree
        <3>4. <<(<<>>), t>>[2] = t
            OBVIOUS
        <3> QED
            BY <3>2, <3>3, <3>4 DEF Scalar
    <2>11. <<(<<"model">>), "{}">> \in s
        <3> DEFINE root == <<(<<>>), "{}">>
                   node == <<(<<"model">>), "{}">>
        <3>1. IsNode(root) /\ Into("model", root) = node /\ node[1] # <<>>
            BY PathOne DEF IsNode, Into
        <3>2. root \in NoField ++ Only(At(x, "model"), {"id"})
            BY DEF NoField, Leaf, ++
        <3>3. IsTree(NoField ++ Only(At(x, "model"), {"id"}))
            BY <1>1, AtTree, OnlyTree, LeafTree, BothTree DEF NoField
        <3> HIDE DEF root
        <3>4. Into("model", root) \in SeenModel(x)
            BY <3>1, <3>2, <3>3, FieldTree DEF SeenModel
        <3> QED
            BY <1>2, <3>1, <3>4
    <2>12. <<(<<"model", "id">>), t>> \in s
        <3> DEFINE q == <<(<<"model">>), t>>
        <3>1. q[1] = <<"model">> /\ q[2] = t /\ Append(<<"model">>, "id") = <<"model", "id">>
            <4>1. Append(<<"model">>, "id") = <<"model", "id">>
                <5>1. Append(<<"model">> \o <<>>, "id") = <<"model">> \o Append(<<>>, "id")
                    BY PathOne, PathAppend
                <5>2. <<"model">> \o <<>> = <<"model">> /\ Append(<<>>, "id") = <<"id">>
                    BY PathOne
                <5>3. <<"model">> \o <<"id">> = <<"model", "id">>
                    BY TwoKeys
                <5> QED
                    BY <5>1, <5>2, <5>3
            <4>2. q[1] = <<"model">> /\ q[2] = t
                OBVIOUS
            <4> QED
                BY <4>1, <4>2
        <3>2. <<"model">> \in Paths(s)
            <4>1. <<(<<"model">>), "{}">>[1] = <<"model">>
                OBVIOUS
            <4> QED
                BY <2>11, <4>1 DEF Paths
        <3>3. <<"model">> \in Paths(p)
            BY <2>9 DEF Paths
        <3> HIDE DEF q
        <3>4. SameNode(q, p, s)
            BY <2>9, <3>1, <3>2, <3>3 DEF IsSubsetEqual, q
        <3>5. SameText(q, s)
            BY <2>10, <3>1, <3>4 DEF SameNode
        <3> QED
            BY <2>8, <2>11, <3>1, <3>5 DEF SameText
    <2>13. ASSUME NEW n \in SeenModel(y), n[1] # <<>> PROVE n \in s
        <3> DEFINE C == NoField ++ Only(V, {"id"})
        <3>1. SeenModel(y) = Field("model", C)
            BY <2>7 DEF SeenModel
        <3>2. IsTree(C) /\ C \subseteq NoField \cup Only(V, {"id"})
            BY <2>4, OnlyTree, LeafTree, BothTree DEF NoField
        <3> HIDE DEF C
        <3>3. \A m \in NoField : m[1] = <<>> /\ m = <<(<<>>), "{}">>
            BY LeafTree DEF NoField, Leaf
        <3>4. n \notin NoField
            BY <2>13, <3>3
        <3>5. PICK m \in C : n = Into("model", m)
            BY <3>1, <3>2, <3>4, FieldTree
        <3>6. CASE m \in NoField
            <4>1. m[1] = <<>> /\ m[2] = "{}"
                BY <3>6, LeafTree DEF NoField
            <4>2. n = <<(<<"model">>), "{}">>
                BY <3>5, <4>1, PathOne DEF Into
            <4> QED
                BY <2>11, <4>2
        <3>7. CASE m \in Only(V, {"id"})
            <4>1. CASE m[1] = <<>>
                <5>1. m \in V
                    BY <3>7 DEF Only, Root, Below
                <5>2. IsNode(m)
                    BY <2>4, <5>1, Nodes
                <5>3. <<(<<>>), "{}">> \in V
                    BY <2>4 DEF IsMap
                <5>4. \A a, b \in V : a[1] = b[1] => a = b
                    BY <2>4 DEF IsTree, Single
                <5>5. m = <<(<<>>), "{}">>
                    <6> DEFINE root == <<(<<>>), "{}">>
                    <6>1. root \in V /\ root[1] = <<>>
                        BY <5>3
                    <6> HIDE DEF root
                    <6> QED
                        BY <4>1, <5>1, <5>4, <6>1 DEF root
                <5>6. n = <<(<<"model">>), "{}">>
                    BY <3>5, <5>5, PathOne DEF Into
                <5> QED
                    BY <2>11, <5>6
            <4>2. CASE m[1] # <<>>
                <5>1. m \in V /\ Head(m[1]) = "id"
                    BY <3>7, <4>2 DEF Only, Root, Below
                <5>2. m \in I
                    BY <2>3, <2>4, <4>2, <5>1 DEF Keys
                <5>3. m[2] # "{}" \/ m \in Root(I)
                    <6>1. Root(I) = NoField
                        BY LeafTree, FieldTree DEF I
                    <6>2. \A a \in I : a \in NoField \/ \E b \in Leaf(t) : a = Into("id", b)
                        BY LeafTree, FieldTree DEF I
                    <6>3. CASE m \in NoField
                        BY <6>1, <6>3
                    <6>4. CASE m \notin NoField
                        <7>1. PICK b \in Leaf(t) : m = Into("id", b)
                            BY <5>2, <6>2, <6>4
                        <7>2. m[2] = t
                            BY <7>1, LeafTree DEF Into
                        <7> QED
                            BY <2>10, <7>2
                    <6> QED
                        BY <6>3, <6>4
                <5>4. m = <<(<<"id">>), t>>
                    BY <2>2, <4>2, <5>2, <5>3 DEF Root
                <5>5. n = <<(<<"model", "id">>), t>>
                    BY <3>5, <5>4, TwoKeys DEF Into
                <5> QED
                    BY <2>12, <5>5
            <4> QED
                BY <4>1, <4>2
        <3> QED
            BY <3>2, <3>5, <3>6, <3>7
    <2>14. ASSUME NEW n \in SeenSettings(y), n[1] # <<>> PROVE n \in p
        <3>1. n \in V /\ Head(n[1]) \in fields
            BY <2>7, <2>14 DEF SeenSettings, Only, Root, Below
        <3> QED
            BY <2>2, <2>3, <2>4, <2>14, <3>1 DEF Keys
    <2> QED
        BY <2>13, <2>14
<1> QED
    BY <1>3, <1>4

\* And so is the prompt, whose digest is compared.
LEMMA PromptBack ==
    ASSUME kind = "agent", NEW x, Kept(kind, x), NEW p, Manifest(p), NEW keys,
           NEW w, w = agentToAnthropicUpdate(p, System(p, keys)), Valid(w), IsMap(w), NEW ex,
           NEW s, s = agentFromAnthropicObservation(x), agentIsUpToDate(p, s, System(p, keys)),
           NEW y, y = Updated(x, w, ex)
    PROVE  \A n \in SeenPrompt(y) : n[1] # <<>> => n \in s
<1> DEFINE text == System(p, keys)
<1>1. /\ IsTree(x) /\ IsMap(x) /\ IsTree(y) /\ IsTree(s)
      /\ At(w, "system") = At(NonEmpty("system", Leaf(text)), "system")
      /\ \A n \in SeenPrompt(x) : n[1] # <<>> => n \in s
    <2>1. At(w, "system") = At(NonEmpty("system", Leaf(text)), "system")
        BY AgentSent
    <2>2. IsTree(x) /\ IsMap(x) /\ IsTree(y)
        BY AfterUpdate DEF Kept, Valid
    <2>3. IsTree(s) /\ \A n \in SeenPrompt(x) : n[1] # <<>> => n \in s
        BY <2>2, AgentSeen
    <2> QED
        BY <2>1, <2>2, <2>3
<1> HIDE DEF text
<1>2. CASE "system" \notin Keys(w)
    <2>1. At(y, "system") = At(x, "system")
        BY <1>2, AfterSame
    <2>2. Text(y, "system") = Text(x, "system")
        BY <1>1, <2>1, TextAt
    <2> QED
        BY <1>1, <2>2 DEF SeenPrompt
<1>3. CASE "system" \in Keys(w)
    <2>1. At(w, "system") = Leaf(text)
        <3>1. At(NonEmpty("system", Leaf(text)), "system") # {}
            BY <1>1, <1>3, AtNone
        <3>2. At(NoField, "system") = {}
            BY KeysNone, AtNone
        <3>3. NonEmpty("system", Leaf(text)) = Field("system", Leaf(text))
            BY <3>1, <3>2 DEF NonEmpty
        <3> QED
            BY <1>1, <3>3, LeafTree, AtField
    <2>2. At(New(w, ex), "system") = Leaf(text)
        BY <2>1, AgentAt
    <2>3. At(y, "system") = Leaf(text) \/ At(y, "system") = {}
        <3>1. Root(Leaf(text)) # {} /\ "system" \notin Deep
            BY KeysLeaf DEF Leaf, Deep
        <3> QED
            BY <2>2, <3>1, AfterPart DEF Kept
    <2>4. Text(y, "system") = text \/ Text(y, "system") = ""
        <3>1. CASE At(y, "system") = {}
            BY <1>1, <3>1, AtNone, TextNode
        <3>2. CASE At(y, "system") = Leaf(text)
            <4> DEFINE root == <<(<<>>), text>>
            <4>1. IsNode(root) /\ Into("system", root) = <<(<<"system">>), text>> /\ root \in Leaf(text)
                BY PathOne DEF IsNode, Into, Leaf
            <4>2. <<(<<"system">>), text>> \in y
                BY <1>1, <3>2, <4>1, AtTree
            <4> QED
                BY <1>1, <4>2, TextPath
        <3> QED
            BY <2>3, <3>1, <3>2
    <2>5. text # ""
        <3>1. Valid(Leaf(text))
            BY <2>1, ValidAt
        <3>2. <<(<<>>), text>> \in Leaf(text) /\ <<(<<>>), text>>[2] = text
            BY DEF Leaf
        <3> QED
            BY <3>1, <3>2 DEF Valid, Rejected
    <2>6. <<(<<"systemSha256">>), text>> \in s
        <3>1. Text(s, "systemSha256") = text
            BY <2>5 DEF agentIsUpToDate, text
        <3> QED
            BY <1>1, <2>5, <3>1, TextNode
    <2>7. SeenPrompt(y) = NoField \/ SeenPrompt(y) = Field("systemSha256", Leaf(text))
        BY <2>4 DEF SeenPrompt, NonEmpty, Empty
    <2>8. \A n \in Field("systemSha256", Leaf(text)) : n \in NoField \/ n = <<(<<"systemSha256">>), text>>
        <3>1. \A n \in Field("systemSha256", Leaf(text)) :
                n \in NoField \/ \E m \in Leaf(text) : n = Into("systemSha256", m)
            BY LeafTree, FieldTree
        <3> QED
            BY <3>1, LeafTree, PathOne DEF Into
    <2>9. \A n \in NoField : n[1] = <<>>
        BY LeafTree DEF NoField
    <2> QED
        BY <2>6, <2>7, <2>8, <2>9
<1> QED
    BY <1>2, <1>3

\* A part whose field the manifest does not have says nothing of the manifest.
LEMMA ExplainedApart ==
    ASSUME NEW p, IsTree(p), NEW s, NEW k, k \notin Keys(p), NEW b, Keys(b) \subseteq {k}
    PROVE  \A n \in b : n[1] # <<>> /\ n[1] \in Paths(p) \cap Paths(s) => n \in p \cup s
<1>1. ASSUME NEW n \in b, n[1] # <<>>, n[1] \in Paths(p) PROVE FALSE
    <2>1. Head(n[1]) = k
        BY <1>1 DEF Keys
    <2>2. PICK m \in p : m[1] = n[1]
        BY <1>1 DEF Paths
    <2>3. k \in Keys(p)
        BY <1>1, <2>1, <2>2 DEF Keys
    <2> QED
        BY <2>3
<1> QED
    BY <1>1

\* The nested fields of an agent come back as they were sent.
LEMMA TeamFilled ==
    ASSUME kind = "agent", NEW p, Manifest(p), "multiagent" \in Keys(p), NEW keys,
           NEW w, w = agentToAnthropicUpdate(p, System(p, keys)), Valid(w), IsMap(w), NEW ex,
           NEW made, made = At(w, "multiagent")
    PROVE  /\ made = agentMultiagentToParam(At(p, "multiagent"))
           /\ At(New(w, ex), "multiagent") = Each(made, "agents", StoredRosterEntry) ++ made
<1>1. made = agentMultiagentToParam(At(p, "multiagent"))
    BY AgentSent
<1>2. "multiagent" \in Keys(w)
    <2>1. IsMap(agentMultiagentToParam(At(p, "multiagent")))
        BY LeafTree, FieldTree, MapBoth DEF agentMultiagentToParam
    <2> QED
        BY <1>1, <2>1, AtNone DEF IsMap
<1> QED
    BY <1>1, <1>2, AgentFilled

\* What is said of servers, skills, tools and team comes back.
LEMMA TopologyStored ==
    ASSUME kind = "agent", NEW x, Valid(x), IsMap(x), NEW p, Manifest(p), NEW keys,
           NEW w, w = agentToAnthropicUpdate(p, System(p, keys)), Valid(w), IsMap(w), NEW ex,
           NEW y, y = Updated(x, w, ex)
    PROVE  /\ "mcpServers" \in Keys(p) => Echoes(SeenServers(y), p)
           /\ "skills" \in Keys(p) => Echoes(SeenSkills(y), p)
           /\ "tools" \in Keys(p) => Echoes(SeenTools(y), p)
           /\ "multiagent" \in Keys(p)
                /\ (\A e \in Elements(At(At(p, "multiagent"), "agents")) : Settled(e)) =>
                        Echoes(SeenTeam(y), p)
<1>1. IsTree(p) /\ IsMap(p)
    BY ManifestMap
<1>2. ASSUME "mcpServers" \in Keys(p) PROVE Echoes(SeenServers(y), p)
    <2> DEFINE v == At(p, "mcpServers")
               f == [i \in Keys(v) |-> agentMcpServerToParam(At(v, i))]
    <2>1. At(w, "mcpServers") = Mapped(v, f)
        BY <1>2, AgentSent
    <2>2. At(New(w, ex), "mcpServers") = Mapped(v, f)
        BY <2>1, AgentAt
    <2> HIDE DEF v
    <2> QED
        BY <1>2, <2>2, ServersBack DEF v
<1>3. ASSUME "skills" \in Keys(p) PROVE Echoes(SeenSkills(y), p)
    <2> DEFINE v == At(p, "skills")
               f == [i \in Keys(v) |-> agentSkillToParam(At(v, i))]
    <2>1. At(w, "skills") = Mapped(v, f)
        BY <1>3, AgentSent
    <2>2. At(New(w, ex), "skills") = Mapped(v, f)
        BY <2>1, AgentAt
    <2> HIDE DEF v
    <2> QED
        BY <1>3, <2>2, SkillsBack DEF v
<1>4. ASSUME "tools" \in Keys(p) PROVE Echoes(SeenTools(y), p)
    <2> DEFINE v    == At(p, "tools")
               f    == [i \in Keys(v) |-> agentToolToParam(At(v, i))]
               made == At(w, "tools")
               g    == [i \in Keys(made) |-> StoredTool(At(made, i), ex)]
    <2>1. made = Mapped(v, f)
        BY <1>4, AgentSent
    <2>2. "tools" \in Keys(w)
        <3>1. /\ IsTree(v) /\ v # {} /\ Admitted("tools", v)
            BY <1>1, <1>4, AtTree, AtNone DEF Manifest
        <3>2. \A e \in Elements(v) :
                OneOf(e, "type", {"agent_toolset_20260401", "mcp_toolset", "custom"})
            BY <3>1 DEF Admitted
        <3>3. ASSUME NEW i \in Keys(v)
              PROVE  IsTree(agentToolToParam(At(v, i))) /\ agentToolToParam(At(v, i)) # {}
            <4>1. Made(agentToolToParam(At(v, i)), At(v, i), secrets, {})
                BY <3>1, <3>2, AtTree, MadeTool DEF Elements
            <4>2. IsMap(agentToolToParam(At(v, i)))
                BY FieldTree, LeafTree, MapBoth
                   DEF agentToolToParam, mcpToolsetParam, customToolParam, agentToolsetParam, Variant
            <4> QED
                BY <4>1, <4>2 DEF Made, IsMap
        <3>4. \A i \in Keys(v) : IsTree(f[i]) /\ f[i] # {}
            BY <3>3
        <3> HIDE DEF f, v
        <3>5. Mapped(v, f) # {}
            BY <3>1, <3>4, MappedSome
        <3> QED
            BY <2>1, <3>5, AtNone
    <2>3. At(New(w, ex), "tools") = Mapped(made, g)
        BY <2>2, AgentFilled
    <2> HIDE DEF v, made
    <2> QED
        BY <1>4, <2>1, <2>3, ToolsBack DEF v, made
<1>5. ASSUME "multiagent" \in Keys(p), \A e \in Elements(At(At(p, "multiagent"), "agents")) : Settled(e)
      PROVE  Echoes(SeenTeam(y), p)
    <2> DEFINE v    == At(p, "multiagent")
               made == At(w, "multiagent")
    <2>1. /\ made = agentMultiagentToParam(v)
          /\ At(New(w, ex), "multiagent") = Each(made, "agents", StoredRosterEntry) ++ made
        BY <1>5, TeamFilled
    <2> HIDE DEF made, v
    <2> QED
        BY <1>5, <2>1, TeamBack DEF made, v
<1> QED
    BY <1>2, <1>3, <1>4, <1>5

LEMMA TopologyBack ==
    ASSUME kind = "agent", NEW x, Kept(kind, x), NEW p, Manifest(p), NEW keys,
           NEW w, w = agentToAnthropicUpdate(p, System(p, keys)), Valid(w), IsMap(w), NEW ex,
           "multiagent" \in Keys(p) => \A e \in Elements(At(At(p, "multiagent"), "agents")) : Settled(e),
           NEW s, NEW y, y = Updated(x, w, ex)
    PROVE  \A b \in SeenTopology(y) :
                /\ IsTree(b)
                /\ \A n \in b : n[1] # <<>> /\ n[1] \in Paths(p) \cap Paths(s) => n \in p \cup s
<1> DEFINE fine(b) == \A n \in b : n[1] # <<>> /\ n[1] \in Paths(p) \cap Paths(s) => n \in p \cup s
<1>1. IsTree(y) /\ IsTree(p) /\ IsMap(p)
    BY AfterUpdate, ManifestMap DEF Kept, Valid
<1>2. /\ IsTree(SeenServers(y)) /\ Keys(SeenServers(y)) \subseteq {"mcpServers"}
      /\ IsTree(SeenSkills(y)) /\ Keys(SeenSkills(y)) \subseteq {"skills"}
      /\ IsTree(SeenTools(y)) /\ Keys(SeenTools(y)) \subseteq {"tools"}
      /\ IsTree(SeenTeam(y)) /\ Keys(SeenTeam(y)) \subseteq {"multiagent"}
    BY <1>1, SeenParts
<1>3. \A b : Echoes(b, p) => fine(b)
    BY DEF Echoes
<1>4. \A k, b : k \notin Keys(p) /\ Keys(b) \subseteq {k} => fine(b)
    BY <1>1, ExplainedApart
<1>5. /\ "mcpServers" \in Keys(p) => Echoes(SeenServers(y), p)
      /\ "skills" \in Keys(p) => Echoes(SeenSkills(y), p)
      /\ "tools" \in Keys(p) => Echoes(SeenTools(y), p)
      /\ "multiagent" \in Keys(p) => Echoes(SeenTeam(y), p)
    BY TopologyStored DEF Kept
<1> HIDE DEF fine
<1>6. \A b \in SeenTopology(y) : fine(b)
    BY <1>2, <1>3, <1>4, <1>5 DEF SeenTopology
<1> QED
    BY <1>2, <1>6 DEF SeenTopology, fine

LEMMA AgentBack ==
    ASSUME kind = "agent", NEW x, Kept(kind, x), NEW p, Manifest(p), NEW keys,
           NEW w, w = agentToAnthropicUpdate(p, System(p, keys)), Valid(w), IsMap(w), NEW ex,
           "multiagent" \in Keys(p) => \A e \in Elements(At(At(p, "multiagent"), "agents")) : Settled(e),
           NEW s, s = agentFromAnthropicObservation(x), agentIsUpToDate(p, s, System(p, keys)),
           NEW y, y = Updated(x, w, ex), NEW o, o = agentFromAnthropicObservation(y)
    PROVE  /\ Explained(o, p, s)
           /\ \A n \in o : n[1] # <<>> /\ Head(n[1]) \in {"model", "systemSha256"} => n \in s
<1> DEFINE fine(b) == IsTree(b) /\ \A n \in b : n[1] # <<>> /\ n[1] \in Paths(p) \cap Paths(s) => n \in p \cup s
           I == Field("id", Leaf(OwnId))
<1>1. /\ IsTree(x) /\ IsMap(x) /\ IsTree(y) /\ IsMap(y) /\ IsTree(p) /\ IsMap(p)
      /\ Keys(New(w, ex)) = Keys(w)
    BY AfterUpdate, ManifestMap DEF Kept, Valid
<1>2. IsSubsetEqual(p, s)
    BY DEF agentIsUpToDate
<1>3. /\ IsTree(s) /\ I \subseteq s /\ SeenPlain(x) \subseteq s
    BY <1>1, AgentSeen
<1>4. /\ o = I ++ SeenPlain(y) ++ SeenModel(y) ++ SeenSettings(y)
                    ++ SeenPrompt(y) ++ SeenServers(y) ++ SeenSkills(y) ++ SeenTools(y) ++ SeenTeam(y)
      /\ \A n \in o : n[1] # <<>> /\ Head(n[1]) = "model" => n \in SeenModel(y)
      /\ \A n \in o : n[1] # <<>> /\ Head(n[1]) = "systemSha256" => n \in SeenPrompt(y)
      /\ IsTree(SeenModel(y)) /\ IsTree(SeenSettings(y)) /\ IsTree(SeenPrompt(y)) /\ IsTree(SeenPlain(y))
    BY <1>1, AgentSeen
<1>5. Explained(I, p, s)
    <2>1. I \subseteq p \cup s
        BY <1>3
    <2> QED
        BY <2>1, LeafField, ExplainedKept
<1>6. Explained(SeenPlain(y), p, s)
    <2> DEFINE R == {"name", "description"}
               O == {"metadata"}
    <2>1. \A k \in R \cup O : k \notin {"config", "auth"} /\ k \notin {"tools", "multiagent"}
        OBVIOUS
    <2>2. \A k \in R \cup O : Below(w, {k}) = Below(p, {k})
        <3>1. \A k \in {"name", "description", "metadata"} : Below(w, {k}) = Below(p, {k})
            BY AgentSent
        <3> QED
            BY <3>1
    <2>3. \A k \in R \cup O : k \in Keys(w) => Below(New(w, ex), {k}) = Below(p, {k})
        BY <2>1, <2>2, AgentPlain
    <2>4. Fields(x, R, O) \subseteq s
        BY <1>3 DEF SeenPlain
    <2>5. SeenPlain(y) = Fields(Updated(x, w, ex), R, O)
        BY DEF SeenPlain
    <2> HIDE DEF R, O
    <2> QED
        BY <2>1, <2>3, <2>4, <2>5, PlainBack
<1>7. /\ \A n \in SeenModel(y) : n[1] # <<>> => n \in s
      /\ \A n \in SeenSettings(y) : n[1] # <<>> => n \in p \cup s
      /\ \A n \in SeenPrompt(y) : n[1] # <<>> => n \in s
    BY <1>2, ModelBack, PromptBack
<1>8. fine(SeenPlain(y)) /\ fine(SeenModel(y)) /\ fine(SeenSettings(y)) /\ fine(SeenPrompt(y))
    BY <1>4, <1>6, <1>7, ExplainedTree
<1>9. fine(SeenServers(y)) /\ fine(SeenSkills(y)) /\ fine(SeenTools(y)) /\ fine(SeenTeam(y))
    <2>1. \A b \in SeenTopology(y) : fine(b)
        BY TopologyBack
    <2> QED
        BY <2>1 DEF SeenTopology
<1>10. \A a, b : Explained(a, p, s) /\ fine(b) => Explained(a ++ b, p, s)
    BY ExplainedBoth
<1> HIDE DEF fine
<1>11. Explained(o, p, s)
    BY <1>4, <1>5, <1>8, <1>9, <1>10
<1> QED
    BY <1>4, <1>7, <1>11

---------------------------------------------------------------------------
(* Deployments and sessions, as they come back. *)

\* What the API fills in is in the reference to the agent.
LEMMA RefFilled ==
    ASSUME kind \in {"deployment", "session"}, NEW w, Valid(w), IsMap(w), NEW ex
    PROVE  /\ \A k : k # "agent" => Below(New(w, ex), {k}) = Below(w, {k})
           /\ "agent" \in Keys(w) => At(New(w, ex), "agent") = StoredAgentRef(At(w, "agent"))
<1> DEFINE u   == StoredAgentRef(At(w, "agent"))
           ref == Sub(w, "agent", StoredAgentRef)
<1>1. New(w, ex) = ref ++ w
    BY DEF New, Filled
<1>2. IsTree(u)
    <2>1. Valid(u)
        BY ValidAt, ValidField, ValidLeaf, ValidBoth DEF StoredAgentRef
    <2> QED
        BY <2>1 DEF Valid
<1>3. u # {} \/ "agent" \notin Keys(w)
    BY AtNone DEF StoredAgentRef, ++, Field, NoField, Leaf
<1> HIDE DEF u
<1>4. Keys(ref) \subseteq {"agent"}
    BY <1>2, FieldTree, KeysNone DEF Sub, u
<1>5. "agent" \in Keys(w) => "agent" \in Keys(ref) /\ At(ref, "agent") = u
    BY <1>2, <1>3, FieldHas, AtField DEF Sub, u
<1> HIDE DEF ref
<1>6. "agent" \in Keys(w) => At(New(w, ex), "agent") = u
    BY <1>1, <1>5, AtBoth
<1>7. \A k : k # "agent" => Below(New(w, ex), {k}) = Below(w, {k})
    BY <1>1, <1>4, BelowRight
<1> QED
    BY <1>6, <1>7 DEF u

\* Nothing in b, but for its root, contradicts what p says where s says something.
Agrees(b, p, s) == IsTree(b) /\ \A n \in b : n[1] # <<>> /\ n[1] \in Paths(p) \cap Paths(s) => n \in p \cup s

LEMMA AgreesBoth ==
    ASSUME NEW p, NEW s, NEW a, Explained(a, p, s), NEW b, Agrees(b, p, s)
    PROVE  Explained(a ++ b, p, s)
BY ExplainedBoth DEF Agrees

LEMMA AgreesEcho ==
    ASSUME NEW p, NEW s, NEW b, Echoes(b, p)
    PROVE  Agrees(b, p, s)
BY DEF Agrees, Echoes

LEMMA AgreesSeen ==
    ASSUME NEW p, NEW s, NEW b, IsTree(b), \A n \in b : n[1] # <<>> => n \in p \cup s
    PROVE  Agrees(b, p, s)
BY DEF Agrees

LEMMA AgreesApart ==
    ASSUME NEW p, IsTree(p), NEW s, NEW k, k \notin Keys(p), NEW b, IsTree(b), Keys(b) \subseteq {k}
    PROVE  Agrees(b, p, s)
BY ExplainedApart DEF Agrees

SeenAgentId(r)      == Field("agentId", At(At(r, "agent"), "id"))
SeenAgentVersion(r) == Field("agentVersion", At(At(r, "agent"), "version"))

\* The agent that is sent comes back by its id, and with the version it was sent with.
LEMMA AgentRefArrives ==
    ASSUME kind \in {"deployment", "session"}, NEW x, Valid(x), IsMap(x), NEW p, Manifest(p),
           NEW w, Valid(w), IsMap(w), NEW ex,
           "agent" \in Keys(w), At(w, "agent") = agentUnion(p), "agentId" \in Keys(p),
           NEW y, y = Updated(x, w, ex)
    PROVE  /\ At(At(y, "agent"), "id") = At(p, "agentId")
           /\ "agentVersion" \in Keys(p) => At(At(y, "agent"), "version") = At(p, "agentVersion")
<1> DEFINE U  == agentUnion(p)
           id == At(p, "agentId")
           S  == StoredAgentRef(U)
<1>1. IsTree(p) /\ IsTree(id) /\ id # {} /\ At(New(w, ex), "agent") = S
    BY ManifestMap, AtTree, AtNone, RefFilled
<1>2. \A k : IsTree(At(p, k))
    BY <1>1, AtTree
<1>3. CASE "agentVersion" \in Keys(p)
    <2> DEFINE version == At(p, "agentVersion")
    <2>1. U = Field("id", id) ++ Field("version", version) ++ Field("type", Leaf("agent"))
        BY <1>1, <1>3 DEF agentUnion
    <2>2. IsTree(version) /\ version # {}
        BY <1>2, <1>3, AtNone
    <2> HIDE DEF U
    <2>3. IsMap(U)
        BY <1>1, <2>1, FieldTree, MapBoth
    <2>4. S = U
        BY <2>3 DEF StoredAgentRef
    <2>5. Keys(Field("id", id)) = {"id"} /\ Keys(Field("version", version)) = {"version"}
          /\ Keys(Field("type", Leaf("agent"))) \subseteq {"type"}
        BY <1>1, <2>2, FieldHas, FieldTree, LeafTree
    <2>6. At(U, "id") = id
        <3>1. At(U, "id") = At(Field("id", id) ++ Field("version", version), "id")
            BY <2>1, <2>5, AtLeft
        <3>2. At(Field("id", id) ++ Field("version", version), "id") = At(Field("id", id), "id")
            BY <2>5, AtLeft
        <3> QED
            BY <1>1, <3>1, <3>2, AtField
    <2>7. At(U, "version") = version
        <3>1. At(U, "version") = At(Field("id", id) ++ Field("version", version), "version")
            BY <2>1, <2>5, AtLeft
        <3>2. At(Field("id", id) ++ Field("version", version), "version") = At(Field("version", version), "version")
            BY <2>5, AtRight
        <3> QED
            BY <2>2, <3>1, <3>2, AtField
    <2>8. At(y, "agent") = U
        <3>1. Root(U) # {} /\ "agent" \notin Deep
            BY <2>3, MapRoot, LeafTree DEF Root, NoField, Deep, Leaf
        <3> QED
            BY <1>1, <2>3, <2>4, <3>1, AfterPart
    <2> QED
        BY <2>6, <2>7, <2>8
<1>4. CASE "agentVersion" \notin Keys(p)
    <2> DEFINE latest == Field("version", Leaf("latest"))
    <2>1. U = id
        BY <1>1, <1>4 DEF agentUnion
    <2>2. ~IsMap(id)
        <3> DEFINE root == <<(<<>>), "{}">>
        <3>1. Scalar(id)
            BY DEF Manifest, Admitted
        <3>2. root[2] = "{}"
            OBVIOUS
        <3> HIDE DEF root
        <3>3. root \notin id
            BY <3>1, <3>2 DEF Scalar
        <3> QED
            BY <3>3 DEF IsMap, root
    <2>3. S = Field("id", id) ++ latest
        BY <2>1, <2>2 DEF StoredAgentRef
    <2>4. IsMap(S)
        BY <1>1, <2>3, FieldTree, MapBoth
    <2> HIDE DEF S
    <2>5. At(y, "agent") = S
        <3>1. Root(S) # {} /\ "agent" \notin Deep
            BY <2>4, MapRoot, LeafTree DEF Root, NoField, Deep, Leaf
        <3> QED
            BY <1>1, <2>4, <3>1, AfterPart
    <2>6. At(S, "id") = id
        BY <1>1, <2>3, AtFirst
    <2> QED
        BY <1>4, <2>5, <2>6
<1> QED
    BY <1>3, <1>4

LEMMA AgentRefBack ==
    ASSUME kind \in {"deployment", "session"}, NEW x, Kept(kind, x), NEW p, Manifest(p),
           NEW w, Valid(w), IsMap(w), NEW ex,
           "agent" \in Keys(w) => At(w, "agent") = agentUnion(p) /\ "agentId" \in Keys(p),
           NEW s, NEW y, y = Updated(x, w, ex)
    PROVE  /\ (\A n \in SeenAgentId(x) : n[1] # <<>> => n \in s) => Agrees(SeenAgentId(y), p, s)
           /\ (\A n \in SeenAgentVersion(x) : n[1] # <<>> => n \in s) => Agrees(SeenAgentVersion(y), p, s)
<1>1. IsTree(y) /\ IsTree(p) /\ IsMap(p)
    BY AfterUpdate, ManifestMap DEF Kept, Valid
<1>2. /\ IsTree(SeenAgentId(y)) /\ Keys(SeenAgentId(y)) \subseteq {"agentId"}
      /\ IsTree(SeenAgentVersion(y)) /\ Keys(SeenAgentVersion(y)) \subseteq {"agentVersion"}
    <2>1. IsTree(At(At(y, "agent"), "id")) /\ IsTree(At(At(y, "agent"), "version"))
        BY <1>1, AtTree
    <2> QED
        BY <2>1, FieldTree DEF SeenAgentId, SeenAgentVersion
<1>3. CASE "agent" \notin Keys(w)
    <2>1. At(y, "agent") = At(x, "agent")
        BY <1>3, AfterSame
    <2> QED
        BY <1>2, <2>1, AgreesSeen DEF SeenAgentId, SeenAgentVersion
<1>4. CASE "agent" \in Keys(w)
    <2>1. "agentId" \in Keys(p) /\ At(At(y, "agent"), "id") = At(p, "agentId")
        BY <1>4, AgentRefArrives DEF Kept
    <2>2. "agentVersion" \in Keys(p) => At(At(y, "agent"), "version") = At(p, "agentVersion")
        BY <1>4, AgentRefArrives DEF Kept
    <2>3. \A k \in Keys(p) : Field(k, At(p, k)) \subseteq p
        BY <1>1, FieldInside
    <2>4. Agrees(SeenAgentId(y), p, s)
        BY <1>2, <2>1, <2>3, AgreesSeen DEF SeenAgentId
    <2>5. CASE "agentVersion" \in Keys(p)
        BY <1>2, <2>2, <2>3, <2>4, <2>5, AgreesSeen DEF SeenAgentVersion
    <2>6. CASE "agentVersion" \notin Keys(p)
        BY <1>1, <1>2, <2>4, <2>6, AgreesApart
    <2> QED
        BY <2>5, <2>6
<1> QED
    BY <1>3, <1>4

SeenBudget(r)   == Sub(r, "budget", budgetLimitFromObservation)
SeenSchedule(r) == Field("schedule", scheduleFromObservation(r))

LEMMA BudgetBack ==
    ASSUME NEW x, Valid(x), IsMap(x), NEW p, Manifest(p), "budget" \in Keys(p),
           NEW w, Valid(w), IsMap(w), NEW ex, At(New(w, ex), "budget") = budgetLimitToParam(At(p, "budget"))
    PROVE  Echoes(SeenBudget(Updated(x, w, ex)), p)
<1> DEFINE b    == At(p, "budget")
           c    == At(b, "maxListCost")
           y    == Updated(x, w, ex)
           made == budgetLimitToParam(b)
           t    == Field("type", Leaf("limit"))
           cost == Needed(b, "maxListCost", maxListCost)
<1>1. IsTree(p) /\ IsMap(p) /\ IsTree(b) /\ IsTree(c) /\ IsMap(b) /\ "type" \notin Keys(b)
    BY ManifestMap, AtTree DEF Manifest, Admitted, Structs
<1>2. Echoes(t, b)
    BY <1>1, LeafTree, EchoNew
<1>3. Echoes(cost, b)
    <2>1. CASE "maxListCost" \in Keys(b)
        <3>0. IsMap(c)
            BY <2>1 DEF Manifest, Admitted, Structs, Parts
        <3>1. cost = Field("maxListCost", Fields(c, {"amount", "currency"}, {}))
            BY <2>1 DEF Needed, maxListCost
        <3>2. Echoes(Fields(c, {"amount", "currency"}, {}), c)
            BY <1>1, <3>0, EchoFields
        <3> QED
            BY <1>1, <3>1, <3>2, EchoField
    <2>2. CASE "maxListCost" \notin Keys(b)
        <3>1. cost = Field("maxListCost", Nothing)
            BY <2>2 DEF Needed
        <3> QED
            BY <1>1, <2>2, <3>1, LeafTree, EchoNew DEF Nothing
    <2> QED
        BY <2>1, <2>2
<1>4. Echoes(made, b) /\ IsMap(made)
    <2>1. IsMap(t)
        BY LeafTree, FieldTree
    <2>2. made = t ++ cost
        BY DEF budgetLimitToParam
    <2> HIDE DEF t, cost, made
    <2> QED
        BY <1>1, <1>2, <1>3, <2>1, <2>2, EchoBoth, MapBoth
<1> HIDE DEF made
<1>5. At(y, "budget") = made
    <2>1. Root(made) # {} /\ "budget" \notin Deep
        BY <1>4, MapRoot, LeafTree DEF Root, NoField, Deep, Leaf
    <2> QED
        BY <1>4, <2>1, AfterPart DEF made, Kept
<1>6. Echoes(budgetLimitFromObservation(made), b)
    BY <1>1, <1>4, EchoPart DEF budgetLimitFromObservation
<1>7. SeenBudget(y) = NoField \/ SeenBudget(y) = Field("budget", budgetLimitFromObservation(made))
    BY <1>5 DEF SeenBudget, Sub
<1>8. Echoes(NoField, p)
    BY <1>1, EchoNone
<1> QED
    BY <1>1, <1>6, <1>7, <1>8, EchoField

LEMMA RequiredThere ==
    ASSUME NEW v, IsTree(v), NEW required, NEW optional
    PROVE  required \subseteq Keys(Fields(v, required, optional))
<1>1. Keys(Fields(v, required, optional)) = required \cup (Keys(v) \cap optional)
    BY FieldsFull
<1> QED
    BY <1>1

LEMMA ScheduleBack ==
    ASSUME NEW x, Valid(x), IsMap(x), NEW p, Manifest(p), "schedule" \in Keys(p),
           NEW w, Valid(w), IsMap(w), NEW ex, At(New(w, ex), "schedule") = scheduleToParam(At(p, "schedule"))
    PROVE  Echoes(SeenSchedule(Updated(x, w, ex)), p)
<1> DEFINE c    == At(p, "schedule")
           y    == Updated(x, w, ex)
           made == scheduleToParam(c)
           K    == {"expression", "timezone"}
           t    == Field("type", Leaf("cron"))
<1>1. IsTree(p) /\ IsMap(p) /\ IsTree(c) /\ IsMap(c) /\ "type" \notin Keys(c)
    BY ManifestMap, AtTree DEF Manifest, Admitted, Structs
<1>2. Echoes(made, c)
    BY <1>1, EchoVariant DEF scheduleToParam
<1>3. IsMap(made) /\ K \subseteq Keys(made)
    <2>1. made = t ++ Fields(c, K, {})
        BY DEF scheduleToParam, Variant
    <2>2. IsMap(t)
        BY LeafTree, FieldTree
    <2> HIDE DEF t, made, K
    <2>3. K \subseteq Keys(Fields(c, K, {}))
        BY <1>1, RequiredThere
    <2> QED
        BY <2>1, <2>2, <2>3, MapBoth, KeysBoth
<1> HIDE DEF made, K
<1>4. At(y, "schedule") = made
    <2>1. Root(made) # {} /\ "schedule" \notin Deep
        BY <1>3, MapRoot, LeafTree DEF Root, NoField, Deep, Leaf
    <2> QED
        BY <1>3, <2>1, AfterPart DEF made, Kept
<1>5. "schedule" \in Keys(y)
    BY <1>3, <1>4, AtNone DEF IsMap
<1>6. scheduleFromObservation(y) = Fields(made, K, {})
    BY <1>4, <1>5 DEF scheduleFromObservation, K
<1>7. Fields(made, K, {}) = Only(made, K \cup {})
    BY <1>2, <1>3, FieldsFull DEF Echoes
<1>8. Echoes(scheduleFromObservation(y), c)
    BY <1>1, <1>2, <1>6, <1>7, EchoPart
<1> QED
    BY <1>1, <1>8, EchoField DEF SeenSchedule

\* The budget that is sent.
LEMMA BudgetSub ==
    ASSUME NEW p, IsTree(p), "budget" \in Keys(p)
    PROVE  At(Sub(p, "budget", budgetLimitToParam), "budget") = budgetLimitToParam(At(p, "budget"))
<1> DEFINE b == At(p, "budget")
<1>1. IsTree(b)
    BY AtTree
<1>2. IsTree(maxListCost(At(b, "maxListCost"))) /\ IsTree(Nothing) /\ IsTree(Leaf("limit"))
    BY <1>1, AtTree, FieldsTree, LeafTree DEF maxListCost, Nothing
<1>3. IsTree(Needed(b, "maxListCost", maxListCost)) /\ IsTree(Field("type", Leaf("limit")))
    BY <1>2, FieldTree DEF Needed
<1>4. IsTree(budgetLimitToParam(b))
    BY <1>3, BothTree DEF budgetLimitToParam
<1>5. Sub(p, "budget", budgetLimitToParam) = Field("budget", budgetLimitToParam(b))
    BY DEF Sub
<1> QED
    BY <1>4, <1>5, AtField

LEMMA AgentUnionThere ==
    ASSUME NEW p, IsTree(p), "agentId" \in Keys(p)
    PROVE  agentUnion(p) # {}
<1>1. CASE "agentVersion" \in Keys(p)
    <2> DEFINE I == Field("id", At(p, "agentId"))
    <2>1. agentUnion(p) = I ++ Field("version", At(p, "agentVersion")) ++ Field("type", Leaf("agent"))
        BY <1>1 DEF agentUnion
    <2>2. NoField \subseteq I /\ NoField # {}
        BY DEF Field, NoField, Leaf
    <2> HIDE DEF I
    <2> QED
        BY <2>1, <2>2 DEF ++
<1>2. CASE "agentVersion" \notin Keys(p)
    BY <1>2, AtNone DEF agentUnion
<1> QED
    BY <1>1, <1>2

LEMMA DeploymentSent ==
    ASSUME NEW p, Manifest(p), NEW keys, NEW w, w = deploymentToAnthropicUpdate(p, keys)
    PROVE  /\ \A k \in {"name", "environmentId", "description", "metadata", "vaultIds"} :
                Below(w, {k}) = Below(p, {k})
           /\ "agent" \in Keys(w) => At(w, "agent") = agentUnion(p) /\ "agentId" \in Keys(p)
           /\ "agentId" \in Keys(p) => "agent" \in Keys(w)
           /\ "budget" \in Keys(p) => At(w, "budget") = budgetLimitToParam(At(p, "budget"))
           /\ "schedule" \in Keys(p) => At(w, "schedule") = scheduleToParam(At(p, "schedule"))
<1> DEFINE N == agentUpdate(p)
           P == Only(p, {"name", "environmentId"})
           Q == Only(p, {"description", "metadata", "vaultIds"})
           B == Sub(p, "budget", budgetLimitToParam)
           S == Sub(p, "schedule", scheduleToParam)
           E == Each(p, "initialEvents", deploymentInitialEventToParam)
           R == Resources(p, keys)
           C == Q ++ B ++ S ++ E ++ R
<1>1. w = N ++ P ++ C
    BY DEF deploymentToAnthropicUpdate, deploymentCommon
<1>2. IsTree(p) /\ {"authorizationToken"} \in SUBSET Purpose
    BY ManifestMap DEF Purpose, SecretFields
<1>3. /\ Keys(N) \subseteq {"agent"} /\ (Keys(N) # {} => "agentId" \in Keys(p))
      /\ Keys(P) \subseteq {"name", "environmentId"}
      /\ Keys(Q) \subseteq {"description", "metadata", "vaultIds"}
    BY AgentRefKeys, KeysOnly
<1>4. /\ Keys(B) \subseteq {"budget"} /\ IsTree(B) /\ Keys(S) \subseteq {"schedule"} /\ IsTree(S)
      /\ Keys(E) \subseteq {"initialEvents"} /\ Keys(R) \subseteq {"resources"}
    BY <1>2, MadeBudget, MadeSchedule, SentEvents, MadeResources DEF Made
<1>5. /\ \A k \in {"name", "environmentId"} : Below(P, {k}) = Below(p, {k})
      /\ \A k \in {"description", "metadata", "vaultIds"} : Below(Q, {k}) = Below(p, {k})
    BY DEF Only, Below, Root
<1>6. At(N, "agent") # {} => At(N, "agent") = agentUnion(p)
    <2>1. At(NoField, "agent") = {}
        BY KeysNone, AtNone
    <2>2. At(Field("agent", agentUnion(p)), "agent") = agentUnion(p)
        BY <1>2, AgentUnionTree, AtField
    <2> QED
        BY <2>1, <2>2 DEF agentUpdate
<1>7. "budget" \in Keys(p) => At(B, "budget") = budgetLimitToParam(At(p, "budget"))
    BY ManifestMap, BudgetSub
<1>8. "schedule" \in Keys(p) => At(S, "schedule") = scheduleToParam(At(p, "schedule"))
    <2> SUFFICES ASSUME "schedule" \in Keys(p), NEW c, c = At(p, "schedule")
                 PROVE  At(S, "schedule") = scheduleToParam(c)
        OBVIOUS
    <2>1. IsTree(c)
        BY <1>2, AtTree
    <2>2. IsTree(Fields(c, {"expression", "timezone"}, {})) /\ IsTree(Field("type", Leaf("cron")))
        BY <2>1, FieldsTree, LeafField
    <2>3. IsTree(scheduleToParam(c))
        BY <2>2, BothTree DEF scheduleToParam, Variant
    <2>4. S = Field("schedule", scheduleToParam(c))
        BY DEF Sub
    <2> QED
        BY <2>3, <2>4, AtField
<1> HIDE DEF N, P, Q, B, S, E, R
<1>9. Keys(C) \subseteq {"description", "metadata", "vaultIds", "budget", "schedule", "initialEvents", "resources"}
    <2>1. Keys(C) = Keys(Q) \cup Keys(B) \cup Keys(S) \cup Keys(E) \cup Keys(R)
        BY KeysBoth
    <2> QED
        BY <1>3, <1>4, <2>1
<1>10. At(C, "budget") = At(B, "budget")
    <2>1. /\ At(Q ++ B ++ S ++ E ++ R, "budget") = At(Q ++ B ++ S ++ E, "budget")
          /\ At(Q ++ B ++ S ++ E, "budget") = At(Q ++ B ++ S, "budget")
          /\ At(Q ++ B ++ S, "budget") = At(Q ++ B, "budget")
          /\ At(Q ++ B, "budget") = At(B, "budget")
        BY <1>3, <1>4, AtLeft, AtRight
    <2> QED
        BY <2>1
<1>11. At(C, "schedule") = At(S, "schedule")
    <2>1. /\ At(Q ++ B ++ S ++ E ++ R, "schedule") = At(Q ++ B ++ S ++ E, "schedule")
          /\ At(Q ++ B ++ S ++ E, "schedule") = At(Q ++ B ++ S, "schedule")
        BY <1>4, AtLeft
    <2>2. "schedule" \notin Keys(Q ++ B)
        BY <1>3, <1>4, KeysBoth
    <2>3. At(Q ++ B ++ S, "schedule") = At(S, "schedule")
        BY <2>2, AtRight
    <2> QED
        BY <2>1, <2>3
<1>12. ASSUME NEW k \in {"description", "metadata", "vaultIds"} PROVE Below(C, {k}) = Below(p, {k})
    <2>1. k \notin Keys(R) /\ k \notin Keys(E) /\ k \notin Keys(S) /\ k \notin Keys(B)
        BY <1>4
    <2> DEFINE spare(b) == \A a : Below(a ++ b, {k}) = Below(a, {k})
    <2>2. \A b : k \notin Keys(b) => spare(b)
        BY BelowLeft
    <2>3. spare(R) /\ spare(E) /\ spare(S) /\ spare(B)
        <3> HIDE DEF spare
        <3> QED
            BY <2>1, <2>2
    <2>4. Below(C, {k}) = Below(Q, {k})
        BY <2>3
    <2> QED
        BY <1>5, <2>4
<1> HIDE DEF C
<1>13. Keys(N ++ P) = Keys(N) \cup Keys(P)
    BY KeysBoth
<1>14. \A k \in {"name", "environmentId", "description", "metadata", "vaultIds"} : Below(w, {k}) = Below(p, {k})
    <2>1. ASSUME NEW k \in {"name", "environmentId"} PROVE Below(w, {k}) = Below(p, {k})
        <3> k \notin Keys(C) /\ k \notin Keys(N)
            BY <1>3, <1>9
        <3>1. Below(N ++ P ++ C, {k}) = Below(N ++ P, {k})
            BY BelowLeft
        <3>2. Below(N ++ P, {k}) = Below(P, {k})
            BY BelowRight
        <3> QED
            BY <1>1, <1>5, <3>1, <3>2
    <2>2. ASSUME NEW k \in {"description", "metadata", "vaultIds"} PROVE Below(w, {k}) = Below(p, {k})
        <3>1. k \notin Keys(N ++ P)
            BY <1>3, <1>13
        <3>2. Below(N ++ P ++ C, {k}) = Below(C, {k})
            BY <3>1, BelowRight
        <3> QED
            BY <1>1, <1>12, <3>2
    <2> QED
        BY <2>1, <2>2
<1>15. "agent" \in Keys(w) => At(w, "agent") = agentUnion(p) /\ "agentId" \in Keys(p)
    <2>1. /\ At(N ++ P ++ C, "agent") = At(N ++ P, "agent")
          /\ At(N ++ P, "agent") = At(N, "agent")
        BY <1>3, <1>9, AtLeft
    <2>2. At(w, "agent") = At(N, "agent")
        BY <1>1, <2>1
    <2>3. "agent" \in Keys(w) => At(N, "agent") # {} /\ Keys(N) # {}
        BY <2>2, AtNone
    <2> QED
        BY <1>3, <1>6, <2>2, <2>3
<1>16. At(w, "budget") = At(C, "budget") /\ At(w, "schedule") = At(C, "schedule")
    BY <1>1, <1>3, <1>13, AtRight
<1>17. "agentId" \in Keys(p) => "agent" \in Keys(w)
    <2> SUFFICES ASSUME "agentId" \in Keys(p) PROVE "agent" \in Keys(w)
        OBVIOUS
    <2>1. IsTree(agentUnion(p)) /\ agentUnion(p) # {}
        BY <1>2, AgentUnionTree, AgentUnionThere
    <2>2. "agent" \in Keys(N)
        BY <2>1, FieldHas DEF N, agentUpdate
    <2> QED
        BY <1>1, <2>2, KeysBoth
<1> QED
    BY <1>7, <1>8, <1>10, <1>11, <1>14, <1>15, <1>16, <1>17

LEMMA SessionSent ==
    ASSUME NEW p, Manifest(p), NEW w, w = sessionToAnthropicUpdate(p)
    PROVE  /\ Keys(w) \subseteq {"title", "metadata", "budget"}
           /\ \A k \in {"title", "metadata"} : Below(w, {k}) = Below(p, {k})
           /\ "budget" \in Keys(p) => At(w, "budget") = budgetLimitToParam(At(p, "budget"))
<1> DEFINE P == Only(p, {"title", "metadata"})
           B == Sub(p, "budget", budgetLimitToParam)
<1>1. w = P ++ B
    BY DEF sessionToAnthropicUpdate
<1>2. Keys(P) \subseteq {"title", "metadata"} /\ Keys(B) \subseteq {"budget"}
    <2>1. {} \in SUBSET Purpose
        OBVIOUS
    <2> QED
        BY <2>1, KeysOnly, MadeBudget
<1>3. \A k \in {"title", "metadata"} : Below(P, {k}) = Below(p, {k})
    BY DEF Only, Below, Root
<1>4. "budget" \in Keys(p) => At(B, "budget") = budgetLimitToParam(At(p, "budget"))
    BY ManifestMap, BudgetSub
<1> HIDE DEF P, B
<1>5. Keys(w) \subseteq {"title", "metadata", "budget"}
    BY <1>1, <1>2, KeysBoth
<1>6. ASSUME NEW k \in {"title", "metadata"} PROVE Below(w, {k}) = Below(p, {k})
    <2>1. k \notin Keys(B)
        BY <1>2
    <2>2. Below(P ++ B, {k}) = Below(P, {k})
        BY <2>1, BelowLeft
    <2> QED
        BY <1>1, <1>3, <2>2
<1>7. At(w, "budget") = At(B, "budget")
    BY <1>1, <1>2, AtRight
<1> QED
    BY <1>4, <1>5, <1>6, <1>7

\* A part under keys of its own.
LEMMA OwnPart ==
    ASSUME NEW a, IsTree(a), NEW b, IsTree(b), Keys(a) \cap Keys(b) = {}
    PROVE  /\ IsTree(a ++ b) /\ Keys(a ++ b) = Keys(a) \cup Keys(b) /\ a \subseteq a ++ b
           /\ \A n \in b : n[1] # <<>> => n \in a ++ b
<1>1. \A n \in b : n[1] # <<>> => Head(n[1]) \in Keys(b)
    BY DEF Keys
<1>2. \A n \in b : n[1] # <<>> => n \in a ++ b
    BY <1>1, BothRight
<1> QED
    BY <1>2, KeysBoth, BothTree DEF ++

\* The parts of the status of a deployment and of a session that they share.
LEMMA RefParts ==
    ASSUME NEW r, IsTree(r)
    PROVE  /\ IsTree(SeenBudget(r)) /\ Keys(SeenBudget(r)) \subseteq {"budget"}
           /\ IsTree(SeenAgentId(r)) /\ Keys(SeenAgentId(r)) \subseteq {"agentId"}
           /\ IsTree(SeenAgentVersion(r)) /\ Keys(SeenAgentVersion(r)) \subseteq {"agentVersion"}
           /\ IsTree(SeenSchedule(r)) /\ Keys(SeenSchedule(r)) \subseteq {"schedule"}
<1>1. IsTree(SeenBudget(r)) /\ Keys(SeenBudget(r)) \subseteq {"budget"}
    <2> DEFINE b == At(r, "budget")
    <2>1. Without(b, {"type"}) \subseteq b
        BY DEF Without
    <2>2. IsTree(budgetLimitFromObservation(b))
        BY <2>1, AtTree, Subtree DEF budgetLimitFromObservation
    <2>3. IsTree(NoField)
        BY LeafTree DEF NoField
    <2> QED
        BY <2>2, <2>3, FieldTree, KeysNone DEF SeenBudget, Sub
<1>2. /\ IsTree(SeenAgentId(r)) /\ Keys(SeenAgentId(r)) \subseteq {"agentId"}
      /\ IsTree(SeenAgentVersion(r)) /\ Keys(SeenAgentVersion(r)) \subseteq {"agentVersion"}
    <2>1. IsTree(At(At(r, "agent"), "id")) /\ IsTree(At(At(r, "agent"), "version"))
        BY AtTree
    <2> QED
        BY <2>1, FieldTree DEF SeenAgentId, SeenAgentVersion
<1>3. IsTree(SeenSchedule(r)) /\ Keys(SeenSchedule(r)) \subseteq {"schedule"}
    <2> DEFINE c == IF "schedule" \in Keys(r) THEN At(r, "schedule") ELSE NoField
    <2>1. IsTree(c)
        BY AtTree, LeafTree DEF NoField
    <2>2. IsTree(scheduleFromObservation(r))
        BY <2>1, FieldsTree DEF scheduleFromObservation
    <2> QED
        BY <2>2, FieldTree DEF SeenSchedule
<1> QED
    BY <1>1, <1>2, <1>3

DeploymentPlain(r) == Fields(r, {"name", "description", "environmentId"}, {"vaultIds", "metadata"})
SessionPlain(r)    == Fields(r, {"title", "environmentId"}, {"vaultIds", "metadata"})

LEMMA DeploymentSeen ==
    ASSUME NEW r, IsTree(r), NEW s, s = deploymentFromAnthropicObservation(r)
    PROVE  /\ s = DeploymentPlain(r) ++ SeenBudget(r) ++ SeenAgentId(r) ++ SeenAgentVersion(r) ++ SeenSchedule(r)
           /\ IsTree(s) /\ DeploymentPlain(r) \subseteq s
           /\ \A n \in SeenAgentId(r) \cup SeenAgentVersion(r) : n[1] # <<>> => n \in s
           /\ Keys(s) \cap {"model", "systemSha256"} = {}
<1> DEFINE F  == DeploymentPlain(r)
           c1 == F ++ SeenBudget(r)
           c2 == c1 ++ SeenAgentId(r)
           c3 == c2 ++ SeenAgentVersion(r)
           c4 == c3 ++ SeenSchedule(r)
<1>1. s = c4
    BY DEF deploymentFromAnthropicObservation, DeploymentPlain, SeenBudget, SeenAgentId, SeenAgentVersion, SeenSchedule
<1>2. IsTree(F) /\ Keys(F) \subseteq {"name", "description", "environmentId", "vaultIds", "metadata"}
    <2>1. Keys(F) \subseteq {"name", "description", "environmentId"} \cup {"vaultIds", "metadata"} /\ IsTree(F)
        BY FieldsTree DEF DeploymentPlain
    <2> QED
        BY <2>1
<1> HIDE DEF F
<1>3. IsTree(c1) /\ Keys(c1) = Keys(F) \cup Keys(SeenBudget(r)) /\ F \subseteq c1
    BY <1>2, RefParts, OwnPart
<1> HIDE DEF c1
<1>4. /\ IsTree(c2) /\ Keys(c2) = Keys(c1) \cup Keys(SeenAgentId(r)) /\ c1 \subseteq c2
      /\ \A n \in SeenAgentId(r) : n[1] # <<>> => n \in c2
    <2>1. Keys(c1) \cap Keys(SeenAgentId(r)) = {}
        BY <1>2, <1>3, RefParts
    <2> QED
        BY <1>3, <2>1, RefParts, OwnPart
<1> HIDE DEF c2
<1>5. /\ IsTree(c3) /\ Keys(c3) = Keys(c2) \cup Keys(SeenAgentVersion(r)) /\ c2 \subseteq c3
      /\ \A n \in SeenAgentVersion(r) : n[1] # <<>> => n \in c3
    <2>1. Keys(c2) \cap Keys(SeenAgentVersion(r)) = {}
        BY <1>2, <1>3, <1>4, RefParts
    <2> QED
        BY <1>4, <2>1, RefParts, OwnPart
<1> HIDE DEF c3
<1>6. IsTree(c4) /\ Keys(c4) = Keys(c3) \cup Keys(SeenSchedule(r)) /\ c3 \subseteq c4
    <2>1. Keys(c3) \cap Keys(SeenSchedule(r)) = {}
        BY <1>2, <1>3, <1>4, <1>5, RefParts
    <2> QED
        BY <1>5, <2>1, RefParts, OwnPart
<1> HIDE DEF c4
<1>7. /\ IsTree(s) /\ F \subseteq s
      /\ \A n \in SeenAgentId(r) \cup SeenAgentVersion(r) : n[1] # <<>> => n \in s
    BY <1>1, <1>3, <1>4, <1>5, <1>6
<1>8. Keys(s) \cap {"model", "systemSha256"} = {}
    BY <1>1, <1>2, <1>3, <1>4, <1>5, <1>6, RefParts
<1> QED
    BY <1>1, <1>7, <1>8 DEF F, c1, c2, c3, c4

LEMMA SessionSeen ==
    ASSUME NEW r, IsTree(r), NEW s, s = sessionFromAnthropicObservation(r)
    PROVE  /\ s = SessionPlain(r) ++ SeenBudget(r) ++ SeenAgentId(r)
           /\ IsTree(s) /\ SessionPlain(r) \subseteq s
           /\ \A n \in SeenAgentId(r) : n[1] # <<>> => n \in s
           /\ Keys(s) \cap {"model", "systemSha256"} = {}
<1> DEFINE F  == SessionPlain(r)
           c1 == F ++ SeenBudget(r)
           c2 == c1 ++ SeenAgentId(r)
<1>1. s = c2
    BY DEF sessionFromAnthropicObservation, SessionPlain, SeenBudget, SeenAgentId
<1>2. IsTree(F) /\ Keys(F) \subseteq {"title", "environmentId", "vaultIds", "metadata"}
    <2>1. Keys(F) \subseteq {"title", "environmentId"} \cup {"vaultIds", "metadata"} /\ IsTree(F)
        BY FieldsTree DEF SessionPlain
    <2> QED
        BY <2>1
<1> HIDE DEF F
<1>3. IsTree(c1) /\ Keys(c1) = Keys(F) \cup Keys(SeenBudget(r)) /\ F \subseteq c1
    BY <1>2, RefParts, OwnPart
<1> HIDE DEF c1
<1>4. /\ IsTree(c2) /\ Keys(c2) = Keys(c1) \cup Keys(SeenAgentId(r)) /\ c1 \subseteq c2
      /\ \A n \in SeenAgentId(r) : n[1] # <<>> => n \in c2
    <2>1. Keys(c1) \cap Keys(SeenAgentId(r)) = {}
        BY <1>2, <1>3, RefParts
    <2> QED
        BY <1>3, <2>1, RefParts, OwnPart
<1> HIDE DEF c2
<1>5. IsTree(s) /\ F \subseteq s /\ \A n \in SeenAgentId(r) : n[1] # <<>> => n \in s
    BY <1>1, <1>3, <1>4
<1>6. Keys(s) \cap {"model", "systemSha256"} = {}
    BY <1>1, <1>2, <1>3, <1>4, RefParts
<1> QED
    BY <1>1, <1>5, <1>6 DEF F, c1, c2

\* Whatever is sent of a budget or a schedule comes back.
LEMMA BudgetAgrees ==
    ASSUME kind \in {"deployment", "session"}, NEW x, Kept(kind, x), NEW p, Manifest(p), NEW s,
           NEW w, Valid(w), IsMap(w), NEW ex,
           "budget" \in Keys(p) => At(w, "budget") = budgetLimitToParam(At(p, "budget"))
    PROVE  Agrees(SeenBudget(Updated(x, w, ex)), p, s)
<1> DEFINE y == Updated(x, w, ex)
<1>1. IsTree(y) /\ IsTree(p)
    BY AfterUpdate, ManifestMap DEF Kept, Valid
<1>2. IsTree(SeenBudget(y)) /\ Keys(SeenBudget(y)) \subseteq {"budget"}
    BY <1>1, RefParts
<1>3. CASE "budget" \notin Keys(p)
    BY <1>1, <1>2, <1>3, AgreesApart
<1>4. CASE "budget" \in Keys(p)
    <2>1. At(New(w, ex), "budget") = At(w, "budget")
        <3>1. Below(New(w, ex), {"budget"}) = Below(w, {"budget"})
            BY RefFilled
        <3> QED
            BY <3>1, AtBelow
    <2>2. Echoes(SeenBudget(y), p)
        BY <1>4, <2>1, BudgetBack DEF Kept
    <2> QED
        BY <2>2, AgreesEcho
<1> QED
    BY <1>3, <1>4

LEMMA ScheduleAgrees ==
    ASSUME kind = "deployment", NEW x, Kept(kind, x), NEW p, Manifest(p), NEW s,
           NEW w, Valid(w), IsMap(w), NEW ex,
           "schedule" \in Keys(p) => At(w, "schedule") = scheduleToParam(At(p, "schedule"))
    PROVE  Agrees(SeenSchedule(Updated(x, w, ex)), p, s)
<1> DEFINE y == Updated(x, w, ex)
<1>1. IsTree(y) /\ IsTree(p)
    BY AfterUpdate, ManifestMap DEF Kept, Valid
<1>2. IsTree(SeenSchedule(y)) /\ Keys(SeenSchedule(y)) \subseteq {"schedule"}
    BY <1>1, RefParts
<1>3. CASE "schedule" \notin Keys(p)
    BY <1>1, <1>2, <1>3, AgreesApart
<1>4. CASE "schedule" \in Keys(p)
    <2>1. At(New(w, ex), "schedule") = At(w, "schedule")
        <3>1. Below(New(w, ex), {"schedule"}) = Below(w, {"schedule"})
            BY RefFilled
        <3> QED
            BY <3>1, AtBelow
    <2>2. Echoes(SeenSchedule(y), p)
        BY <1>4, <2>1, ScheduleBack DEF Kept
    <2> QED
        BY <2>2, AgreesEcho
<1> QED
    BY <1>3, <1>4

LEMMA DeploymentBack ==
    ASSUME kind = "deployment", NEW x, Kept(kind, x), NEW p, Manifest(p), NEW keys,
           NEW w, w = deploymentToAnthropicUpdate(p, keys), Valid(w), IsMap(w), NEW ex,
           NEW s, s = deploymentFromAnthropicObservation(x),
           NEW y, y = Updated(x, w, ex), NEW o, o = deploymentFromAnthropicObservation(y)
    PROVE  Explained(o, p, s)
<1> DEFINE R == {"name", "description", "environmentId"}
           O == {"vaultIds", "metadata"}
<1>1. IsTree(x) /\ IsTree(y)
    BY AfterUpdate DEF Kept, Valid
<1>2. /\ o = DeploymentPlain(y) ++ SeenBudget(y) ++ SeenAgentId(y) ++ SeenAgentVersion(y) ++ SeenSchedule(y)
      /\ DeploymentPlain(x) \subseteq s
      /\ \A n \in SeenAgentId(x) \cup SeenAgentVersion(x) : n[1] # <<>> => n \in s
    BY <1>1, DeploymentSeen
<1>3. Explained(DeploymentPlain(y), p, s)
    <2>1. \A k \in R \cup O : k \notin {"config", "auth"} /\ k # "agent"
        OBVIOUS
    <2>2. \A k \in R \cup O : k \in Keys(w) => Below(w, {k}) = Below(p, {k})
        BY DeploymentSent
    <2>3. \A k \in R \cup O : k \in Keys(w) => Below(New(w, ex), {k}) = Below(p, {k})
        BY <2>1, <2>2, RefFilled
    <2>4. Fields(x, R, O) \subseteq s /\ DeploymentPlain(y) = Fields(Updated(x, w, ex), R, O)
        BY <1>2 DEF DeploymentPlain
    <2> HIDE DEF R, O
    <2> QED
        BY <2>1, <2>3, <2>4, PlainBack
<1>4. Agrees(SeenBudget(y), p, s) /\ Agrees(SeenSchedule(y), p, s)
    BY DeploymentSent, BudgetAgrees, ScheduleAgrees
<1>5. Agrees(SeenAgentId(y), p, s) /\ Agrees(SeenAgentVersion(y), p, s)
    <2>1. "agent" \in Keys(w) => At(w, "agent") = agentUnion(p) /\ "agentId" \in Keys(p)
        BY DeploymentSent
    <2> QED
        BY <1>2, <2>1, AgentRefBack
<1>6. \A a, b : Explained(a, p, s) /\ Agrees(b, p, s) => Explained(a ++ b, p, s)
    BY AgreesBoth
<1> QED
    BY <1>2, <1>3, <1>4, <1>5, <1>6

LEMMA SessionBack ==
    ASSUME kind = "session", NEW x, Kept(kind, x), NEW p, Manifest(p),
           NEW w, w = sessionToAnthropicUpdate(p), Valid(w), IsMap(w), NEW ex,
           NEW s, s = sessionFromAnthropicObservation(x),
           NEW y, y = Updated(x, w, ex), NEW o, o = sessionFromAnthropicObservation(y)
    PROVE  Explained(o, p, s)
<1> DEFINE R == {"title", "environmentId"}
           O == {"vaultIds", "metadata"}
<1>1. IsTree(x) /\ IsTree(y)
    BY AfterUpdate DEF Kept, Valid
<1>2. /\ o = SessionPlain(y) ++ SeenBudget(y) ++ SeenAgentId(y)
      /\ SessionPlain(x) \subseteq s
      /\ \A n \in SeenAgentId(x) : n[1] # <<>> => n \in s
    BY <1>1, SessionSeen
<1>3. Keys(w) \subseteq {"title", "metadata", "budget"}
    BY SessionSent
<1>4. Explained(SessionPlain(y), p, s)
    <2>1. \A k \in R \cup O : k \notin {"config", "auth"} /\ k # "agent"
        OBVIOUS
    <2>2. \A k \in R \cup O : k \in Keys(w) => Below(w, {k}) = Below(p, {k})
        <3>1. \A k \in R \cup O : k \in Keys(w) => k \in {"title", "metadata"}
            BY <1>3
        <3> QED
            BY <3>1, SessionSent
    <2>3. \A k \in R \cup O : k \in Keys(w) => Below(New(w, ex), {k}) = Below(p, {k})
        BY <2>1, <2>2, RefFilled
    <2>4. Fields(x, R, O) \subseteq s /\ SessionPlain(y) = Fields(Updated(x, w, ex), R, O)
        BY <1>2 DEF SessionPlain
    <2> HIDE DEF R, O
    <2> QED
        BY <2>1, <2>3, <2>4, PlainBack
<1>5. Agrees(SeenBudget(y), p, s)
    BY SessionSent, BudgetAgrees
<1>6. Agrees(SeenAgentId(y), p, s)
    <2>1. "agent" \notin Keys(w)
        BY <1>3
    <2> QED
        BY <1>2, <2>1, AgentRefBack
<1>7. \A a, b : Explained(a, p, s) /\ Agrees(b, p, s) => Explained(a ++ b, p, s)
    BY AgreesBoth
<1> QED
    BY <1>2, <1>4, <1>5, <1>6, <1>7

---------------------------------------------------------------------------
(* Environments, as they come back: the config is merged and completed. *)

EnvironmentPlain(r) == Fields(r, {"name", "description"}, {"metadata", "scope"})
SeenNetworking(c)   == Sub(c, "networking", envNetworkingFromObservation)
SeenPackages(c)     == Sub(c, "packages", envPackagesToParam)
SeenConfig(c)       == SeenNetworking(c) ++ SeenPackages(c)

LEMMA AgreesMap ==
    ASSUME NEW p, IsMap(p), NEW s, NEW b, IsMap(b), Agrees(b, p, s)
    PROVE  Explained(b, p, s)
<1> DEFINE root == <<(<<>>), "{}">>
<1>1. root \in b /\ root \in p /\ root[1] = <<>>
    BY DEF IsMap
<1> HIDE DEF root
<1>2. \A n \in b : n[1] = <<>> => n = root
    BY <1>1 DEF Agrees, IsTree, Single
<1> QED
    BY <1>1, <1>2 DEF Agrees, Explained

LEMMA NonEmptyAt ==
    ASSUME NEW k, NEW v, IsTree(v)
    PROVE  /\ IsTree(NonEmpty(k, v)) /\ IsMap(NonEmpty(k, v)) /\ Keys(NonEmpty(k, v)) \subseteq {k}
           /\ Keys(NonEmpty(k, v)) # {} => At(NonEmpty(k, v), k) = v
<1>1. IsTree(NoField) /\ IsMap(NoField) /\ Keys(NoField) = {}
    BY ValidNone, KeysNone DEF Valid
<1>2. IsTree(Field(k, v)) /\ IsMap(Field(k, v)) /\ Keys(Field(k, v)) \subseteq {k} /\ At(Field(k, v), k) = v
    BY FieldTree, AtField
<1> QED
    BY <1>1, <1>2 DEF NonEmpty

LEMMA MapPath ==
    ASSUME NEW v, IsTree(v), NEW k, IsMap(At(v, k))
    PROVE  <<k>> \in Paths(v) /\ k \in Keys(v)
<1> DEFINE root == <<(<<>>), "{}">>
<1>1. root \in At(v, k) /\ root[1] = <<>>
    BY DEF IsMap
<1> HIDE DEF root
<1>2. <<>> \in Paths(At(v, k)) /\ At(v, k) # {}
    BY <1>1 DEF Paths
<1> QED
    BY <1>2, PathAt, PathOne, AtNone

LEMMA ConfigParts ==
    ASSUME NEW c, IsTree(c)
    PROVE  /\ IsTree(SeenNetworking(c)) /\ Keys(SeenNetworking(c)) \subseteq {"networking"} /\ IsMap(SeenNetworking(c))
           /\ IsTree(SeenPackages(c)) /\ Keys(SeenPackages(c)) \subseteq {"packages"} /\ IsMap(SeenPackages(c))
           /\ IsTree(SeenConfig(c)) /\ IsMap(SeenConfig(c)) /\ SeenNetworking(c) \subseteq SeenConfig(c)
           /\ \A n \in SeenPackages(c) : n[1] # <<>> => n \in SeenConfig(c)
<1>1. IsTree(envNetworkingFromObservation(At(c, "networking"))) /\ IsTree(envPackagesToParam(At(c, "packages")))
    BY AtTree, OnlyTree DEF envNetworkingFromObservation, envPackagesToParam
<1>2. IsTree(NoField) /\ IsMap(NoField) /\ Keys(NoField) = {}
    BY ValidNone, KeysNone DEF Valid
<1>3. /\ IsTree(SeenNetworking(c)) /\ Keys(SeenNetworking(c)) \subseteq {"networking"} /\ IsMap(SeenNetworking(c))
      /\ IsTree(SeenPackages(c)) /\ Keys(SeenPackages(c)) \subseteq {"packages"} /\ IsMap(SeenPackages(c))
    BY <1>1, <1>2, FieldTree DEF SeenNetworking, SeenPackages, Sub
<1>4. Keys(SeenNetworking(c)) \cap Keys(SeenPackages(c)) = {}
    BY <1>3
<1> QED
    BY <1>3, <1>4, OwnPart, MapBoth DEF SeenConfig

LEMMA EnvironmentSeen ==
    ASSUME NEW r, IsTree(r), NEW s, s = environmentFromAnthropicObservation(r)
    PROVE  /\ s = EnvironmentPlain(r) ++ Field("config", SeenConfig(At(r, "config")))
           /\ IsTree(s) /\ EnvironmentPlain(r) \subseteq s
           /\ At(s, "config") = SeenConfig(At(r, "config"))
           /\ Keys(s) \cap {"model", "systemSha256"} = {}
<1> DEFINE F == EnvironmentPlain(r)
           c == At(r, "config")
           G == Field("config", SeenConfig(c))
<1>1. s = F ++ G
    BY DEF environmentFromAnthropicObservation, EnvironmentPlain, SeenConfig, SeenNetworking, SeenPackages
<1>2. IsTree(F) /\ Keys(F) \subseteq {"name", "description", "metadata", "scope"}
    <2>1. Keys(F) \subseteq {"name", "description"} \cup {"metadata", "scope"} /\ IsTree(F)
        BY FieldsTree DEF EnvironmentPlain
    <2> QED
        BY <2>1
<1>3. IsTree(G) /\ Keys(G) \subseteq {"config"} /\ At(G, "config") = SeenConfig(c)
    <2>1. IsTree(SeenConfig(c))
        BY AtTree, ConfigParts
    <2> QED
        BY <2>1, FieldTree, AtField
<1> HIDE DEF F, G
<1>4. Keys(F) \cap Keys(G) = {} /\ "config" \notin Keys(F)
    BY <1>2, <1>3
<1>5. IsTree(s) /\ Keys(s) = Keys(F) \cup Keys(G) /\ F \subseteq s
    BY <1>1, <1>2, <1>3, <1>4, OwnPart
<1>6. At(s, "config") = SeenConfig(c)
    BY <1>1, <1>3, <1>4, AtRight
<1>7. Keys(s) \cap {"model", "systemSha256"} = {}
    BY <1>2, <1>3, <1>5
<1> QED
    BY <1>1, <1>5, <1>6, <1>7 DEF F, G

LEMMA EnvironmentSent ==
    ASSUME NEW p, Manifest(p), NEW w, w = environmentToAnthropicUpdate(p)
    PROVE  /\ \A k \in {"name", "description", "metadata", "scope"} : Below(w, {k}) = Below(p, {k})
           /\ "config" \in Keys(p) => At(w, "config") = envCloudConfigToParam(At(p, "config"))
<1> DEFINE K == {"name", "description", "metadata", "scope"}
           P == Only(p, K)
           C == Sub(p, "config", envCloudConfigToParam)
           c == At(p, "config")
<1>1. w = P ++ C
    BY DEF environmentToAnthropicUpdate
<1>2. Keys(P) \subseteq K /\ Keys(C) \subseteq {"config"}
    <2>1. {} \in SUBSET Purpose /\ IsTree(p)
        BY ManifestMap
    <2>2. Keys(C) \subseteq {"config"}
        BY <2>1, MadeConfig
    <2> HIDE DEF K
    <2>3. Keys(P) \subseteq K
        BY KeysOnly
    <2> QED
        BY <2>2, <2>3
<1>3. \A k \in K : Below(P, {k}) = Below(p, {k})
    BY DEF Only, Below, Root
<1>4. "config" \in Keys(p) => At(C, "config") = envCloudConfigToParam(c)
    <2>1. IsTree(envCloudConfigToParam(c))
        <3>1. IsTree(c) /\ IsTree(At(c, "networking")) /\ IsTree(At(c, "packages"))
            BY ManifestMap, AtTree
        <3>2. IsTree(envNetworkingToParam(At(c, "networking"))) /\ IsTree(envPackagesToParam(At(c, "packages")))
            <4>1. \A n, t, O : IsTree(n) => IsTree(Variant(t, n, {}, O))
                BY LeafField, FieldsTree, BothTree DEF Variant
            <4>2. IsTree(NoField)
                BY LeafTree DEF NoField
            <4> QED
                BY <3>1, <4>1, <4>2, OnlyTree DEF envNetworkingToParam, envPackagesToParam
        <3>3. IsTree(NoField)
            BY LeafTree DEF NoField
        <3> QED
            BY <3>2, <3>3, NonEmptyAt, BothTree DEF envCloudConfigToParam, Given
    <2>2. "config" \in Keys(p) => C = Field("config", envCloudConfigToParam(c))
        BY DEF Sub
    <2> QED
        BY <2>1, <2>2, AtField
<1> HIDE DEF P, C
<1>5. ASSUME NEW k \in K PROVE Below(w, {k}) = Below(p, {k})
    <2>1. k \notin Keys(C)
        BY <1>2
    <2>2. Below(P ++ C, {k}) = Below(P, {k})
        BY <2>1, BelowLeft
    <2> QED
        BY <1>1, <1>3, <2>2
<1>6. At(w, "config") = At(C, "config")
    BY <1>1, <1>2, AtRight
<1> QED
    BY <1>4, <1>5, <1>6

\* What the merged config is, when a config is sent.
LEMMA ConfigAt ==
    ASSUME NEW M, Valid(M), NEW c, c = StoredConfig(M)
    PROVE  /\ "networking" \in Keys(M) =>
                At(c, "networking") = StoredNetworking(At(M, "networking")) /\ "networking" \in Keys(c)
           /\ "packages" \in Keys(M) => At(c, "packages") = At(M, "packages")
<1> DEFINE n == At(M, "networking")
           S == Sub(M, "networking", StoredNetworking)
           F == Field("networking", Variant("unrestricted", M, {}, {}))
           G == Field("packages", NoField)
<1>1. c = ((S ++ M) ++ F) ++ G
    BY DEF StoredConfig
<1>2. Keys(S) \subseteq {"networking"}
      /\ ("networking" \in Keys(M) => "networking" \in Keys(S) /\ At(S, "networking") = StoredNetworking(n))
    <2>1. CASE "networking" \in Keys(M)
        <3>1. Valid(n) /\ n # {}
            BY <2>1, ValidAt, AtNone
        <3>2. IsTree(StoredNetworking(n)) /\ StoredNetworking(n) # {}
            BY <3>1, NetworkingSame, NetworkingValid DEF Valid
        <3>3. S = Field("networking", StoredNetworking(n))
            BY <2>1 DEF Sub
        <3> HIDE DEF S, n
        <3> QED
            BY <3>2, <3>3, FieldHas, AtField
    <2>2. CASE "networking" \notin Keys(M)
        BY <2>2, KeysNone DEF Sub
    <2> QED
        BY <2>1, <2>2
<1> HIDE DEF S, F, G, n
<1>3. Keys(S ++ M) = Keys(S) \cup Keys(M) /\ Keys((S ++ M) ++ F) = Keys(S) \cup Keys(M) \cup Keys(F)
      /\ Keys(c) = Keys(S) \cup Keys(M) \cup Keys(F) \cup Keys(G)
    BY <1>1, KeysBoth
<1>4. \A k \in Keys(S ++ M) : At(c, k) = At(S ++ M, k)
    BY <1>1, <1>3, AtBoth
<1>5. \A k : At(S ++ M, k) = IF k \in Keys(S) THEN At(S, k) ELSE At(M, k)
    BY AtBoth
<1>6. "networking" \in Keys(M) => At(c, "networking") = StoredNetworking(n) /\ "networking" \in Keys(c)
    BY <1>2, <1>3, <1>4, <1>5
<1>7. "packages" \in Keys(M) => At(c, "packages") = At(M, "packages")
    BY <1>2, <1>3, <1>4, <1>5
<1> QED
    BY <1>6, <1>7 DEF n

LEMMA ConfigStored ==
    ASSUME kind = "environment", NEW x, Valid(x), IsMap(x), NEW w, Valid(w), IsMap(w), NEW ex, IsMap(At(w, "config")),
           NEW W, W = At(w, "config"), NEW M, M = Patch(At(x, "config"), W, Deep),
           NEW c, c = At(Updated(x, w, ex), "config")
    PROVE  /\ Valid(M) /\ IsMap(M) /\ Valid(W) /\ Keys(W) \subseteq Keys(M)
           /\ "networking" \in Keys(M) =>
                At(c, "networking") = StoredNetworking(At(M, "networking")) /\ "networking" \in Keys(c)
           /\ "packages" \in Keys(M) => At(c, "packages") = At(M, "packages")
           /\ \A k : k \notin Keys(W) => At(M, k) = At(At(x, "config"), k)
           /\ \A k : k \notin Deep /\ IsMap(At(W, k)) => At(M, k) = At(W, k)
<1> DEFINE X == At(x, "config")
           C == Full(x, w, ex)
<1>1. /\ New(w, ex) = w /\ Valid(Merged(x, w, ex)) /\ IsMap(Merged(x, w, ex)) /\ Valid(x) /\ Valid(C)
      /\ Updated(x, w, ex) = Without(C, EmptyLists(C))
    BY AfterUpdate DEF New, Filled
<1>2. Valid(X) /\ Valid(W)
    BY <1>1, ValidAt
<1>3. At(Merged(x, w, ex), "config") = M
    <2>1. <<"config">> \in Paths(w) /\ "config" \in Deep
        BY MapPath DEF Valid, Deep
    <2> QED
        BY <1>1, <2>1, PatchInto DEF Merged, Valid
<1>4. /\ Valid(M) /\ IsMap(M)
      /\ \A k : k \notin Keys(W) => Below(M, {k}) = Below(X, {k})
    BY <1>2, PatchValid
<1>5. \A k : k \notin Keys(W) => At(M, k) = At(X, k)
    <2> SUFFICES ASSUME NEW k, k \notin Keys(W) PROVE At(M, k) = At(X, k)
        OBVIOUS
    <2>1. Below(M, {k}) = Below(X, {k})
        BY <1>4
    <2> HIDE DEF X
    <2> QED
        BY <2>1, AtBelow
<1>6. \A k : k \notin Deep /\ IsMap(At(W, k)) => At(M, k) = At(W, k)
    <2> SUFFICES ASSUME NEW k, k \notin Deep, IsMap(At(W, k)) PROVE At(M, k) = At(W, k)
        OBVIOUS
    <2>1. <<k>> \in Paths(W)
        BY <1>2, MapPath DEF Valid
    <2>2. Below(M, {k}) = Below(W, {k})
        BY <1>2, <2>1, PatchReplaced DEF Valid
    <2> QED
        BY <2>2, AtBelow
<1>7. Keys(W) \subseteq Keys(M)
    BY DEF Patch, Keys
<1>8. c = StoredConfig(M)
    <2> DEFINE S == StoredConfig(M)
    <2>1. Valid(S) /\ IsMap(S) /\ S # {} /\ IsTree(S)
        BY <1>4, ConfigComplete DEF Complete, Valid, IsMap
    <2>2. "config" \in Keys(Merged(x, w, ex))
        BY <1>1, <1>3, <1>4, MapPath DEF Valid
    <2>3. C = Field("config", S) ++ Merged(x, w, ex)
        BY <1>3, <2>2 DEF Full, Completed, StoredEnvironment
    <2> HIDE DEF S
    <2>4. At(C, "config") = S
        BY <2>1, <2>3, AtFirst
    <2>5. "config" \notin EmptyLists(C)
        BY <1>1, <2>1, <2>4, NoEmptyMap DEF Valid
    <2> QED
        BY <1>1, <2>4, <2>5, AtOnly DEF S
<1> QED
    BY <1>2, <1>4, <1>5, <1>6, <1>7, <1>8, ConfigAt

LEMMA ConfigMerged ==
    ASSUME kind = "environment", NEW x, Kept(kind, x), NEW w, Valid(w), IsMap(w), NEW ex, IsMap(At(w, "config")),
           NEW W, W = At(w, "config"), NEW M, M = Patch(At(x, "config"), W, Deep),
           NEW c, c = At(Updated(x, w, ex), "config")
    PROVE  /\ Valid(M) /\ IsMap(M) /\ Valid(W)
           /\ At(c, "networking") = StoredNetworking(At(M, "networking")) /\ "networking" \in Keys(c)
           /\ At(c, "packages") = At(M, "packages")
           /\ \A k : k \notin Keys(W) => At(M, k) = At(At(x, "config"), k)
           /\ \A k : k \notin Deep /\ IsMap(At(W, k)) => At(M, k) = At(W, k)
<1> DEFINE X == At(x, "config")
<1>1. /\ Valid(M) /\ IsMap(M) /\ Valid(W) /\ Keys(W) \subseteq Keys(M)
      /\ "networking" \in Keys(M) =>
            At(c, "networking") = StoredNetworking(At(M, "networking")) /\ "networking" \in Keys(c)
      /\ "packages" \in Keys(M) => At(c, "packages") = At(M, "packages")
      /\ \A k : k \notin Keys(W) => At(M, k) = At(X, k)
      /\ \A k : k \notin Deep /\ IsMap(At(W, k)) => At(M, k) = At(W, k)
    BY ConfigStored DEF Kept
<1>2. "networking" \in Keys(X) /\ "packages" \in Keys(X)
    BY DEF Kept, Complete
<1> HIDE DEF X
<1>3. "networking" \in Keys(M) /\ "packages" \in Keys(M)
    BY <1>1, <1>2, AtNone
<1> QED
    BY <1>1, <1>3 DEF X

\* The networking that is sent comes back, with the defaults for what is not said.
LEMMA EchoNetworking ==
    ASSUME NEW n, IsTree(n), IsMap(n), NEW V, V = envNetworkingToParam(n), V # NoField
    PROVE  /\ IsMap(V) /\ Echoes(V, n)
           /\ Echoes(envNetworkingFromObservation(StoredNetworking(V)), n)
<1> DEFINE O == {"allowMcpServers", "allowPackageManagers", "allowedHosts"}
<1>1. /\ IsMap(V) /\ Echoes(V, n)
      /\ Text(V, "type") = "limited" => \A k \in O : k \in Keys(n) => k \in Keys(V)
    <2>1. ASSUME NEW t, t \notin {"{}", "[]"}, NEW L, "type" \in Keys(n) => Text(n, "type") = t,
                 V = Variant(t, n, {}, L)
          PROVE  /\ IsMap(V) /\ Echoes(V, n) /\ Keys(n) \cap L \subseteq Keys(V)
        <3>1. Echoes(V, n)
            BY <2>1, EchoVariant
        <3>2. IsMap(Field("type", Leaf(t)))
            BY LeafTree, FieldTree
        <3>3. Keys(Fields(n, {}, L)) = {} \cup (Keys(n) \cap L)
            BY FieldsFull
        <3>4. V = Field("type", Leaf(t)) ++ Fields(n, {}, L)
            BY <2>1 DEF Variant
        <3>5. IsMap(V) /\ Keys(n) \cap L \subseteq Keys(V)
            <4> DEFINE T == Field("type", Leaf(t))
                       M == Fields(n, {}, L)
            <4>1. V = T ++ M /\ IsMap(T) /\ Keys(M) = Keys(n) \cap L
                BY <3>2, <3>3, <3>4
            <4> HIDE DEF T, M
            <4> QED
                BY <4>1, MapBoth, KeysBoth
        <3> QED
            BY <3>1, <3>5
    <2>2. CASE Text(n, "type") = "limited"
        <3>1. V = Variant("limited", n, {}, O)
            BY <2>2 DEF envNetworkingToParam
        <3> HIDE DEF O
        <3>2. IsMap(V) /\ Echoes(V, n) /\ Keys(n) \cap O \subseteq Keys(V)
            BY <2>1, <2>2, <3>1
        <3> QED
            BY <3>2
    <2>3. CASE Text(n, "type") = "unrestricted"
        <3>1. V = Variant("unrestricted", n, {}, {})
            BY <2>3 DEF envNetworkingToParam
        <3>2. IsMap(V) /\ Echoes(V, n)
            BY <2>1, <2>3, <3>1
        <3>3. Text(V, "type") = "unrestricted"
            <4>1. <<(<<"type">>), "unrestricted">> \in V
                BY <3>1, LeafField DEF Variant, ++
            <4> QED
                BY <3>2, <4>1, TextPath DEF Echoes
        <3> QED
            BY <3>2, <3>3
    <2> QED
        BY <2>2, <2>3 DEF envNetworkingToParam
<1>2. Echoes(StoredNetworking(V), n)
    <2>1. CASE Text(V, "type") # "limited"
        BY <1>1, <2>1 DEF StoredNetworking
    <2>2. CASE Text(V, "type") = "limited"
        <3> DEFINE F == Leaf("false")
        <3>1. IsTree(F)
            BY LeafTree
        <3>2. StoredNetworking(V) = V ++ Field("allowMcpServers", F) ++ Field("allowPackageManagers", F)
            BY <2>2 DEF StoredNetworking
        <3> HIDE DEF F
        <3>3. Echoes(V ++ Field("allowMcpServers", F), n)
            BY <1>1, <2>2, <3>1, EchoDefault
        <3>4. "allowPackageManagers" \in Keys(n) => "allowPackageManagers" \in Keys(V ++ Field("allowMcpServers", F))
            BY <1>1, <2>2, KeysBoth
        <3> QED
            BY <3>1, <3>2, <3>3, <3>4, EchoDefault
    <2> QED
        BY <2>1, <2>2
<1>3. Echoes(envNetworkingFromObservation(StoredNetworking(V)), n)
    BY <1>2, EchoPart DEF envNetworkingFromObservation
<1> QED
    BY <1>1, <1>3

LEMMA ConfigSent ==
    ASSUME NEW p, Manifest(p), "config" \in Keys(p), NEW a, a = At(p, "config"),
           NEW W, W = envCloudConfigToParam(a)
    PROVE  /\ IsTree(p) /\ IsTree(a) /\ IsMap(a) /\ IsMap(W)
           /\ \A k \in {"networking", "packages"} : k \in Keys(a) => IsTree(At(a, k)) /\ IsMap(At(a, k))
           /\ "networking" \in Keys(W) =>
                /\ "networking" \in Keys(a) /\ envNetworkingToParam(At(a, "networking")) # NoField
                /\ At(W, "networking") = envNetworkingToParam(At(a, "networking"))
           /\ "packages" \in Keys(W) =>
                "packages" \in Keys(a) /\ At(W, "packages") = envPackagesToParam(At(a, "packages"))
<1> DEFINE N == Given(a, "networking", envNetworkingToParam)
           P == Given(a, "packages", envPackagesToParam)
<1>1. IsTree(p) /\ IsTree(a) /\ IsMap(a)
    BY ManifestMap, AtTree DEF Manifest, Admitted, Structs
<1>2. \A k \in {"networking", "packages"} : k \in Keys(a) => IsTree(At(a, k)) /\ IsMap(At(a, k))
    <2> SUFFICES ASSUME NEW k \in {"networking", "packages"}, k \in Keys(a) PROVE IsTree(At(a, k)) /\ IsMap(At(a, k))
        OBVIOUS
    <2>1. At(a, k) \in Parts(a, {"networking", "packages", "injectionLocation", "maxListCost"})
        BY DEF Parts
    <2>2. \A e \in Structs("config", a) : IsMap(e)
        BY DEF Manifest, Admitted
    <2> QED
        BY <1>1, <2>1, <2>2, AtTree DEF Structs
<1>3. W = N ++ P
    BY DEF envCloudConfigToParam
<1>4. /\ IsTree(N) /\ IsMap(N) /\ Keys(N) \subseteq {"networking"}
      /\ "networking" \in Keys(N) => /\ "networking" \in Keys(a) /\ envNetworkingToParam(At(a, "networking")) # NoField
                                     /\ At(N, "networking") = envNetworkingToParam(At(a, "networking"))
    <2> DEFINE n == At(a, "networking")
               V == envNetworkingToParam(n)
    <2>1. CASE "networking" \in Keys(a)
        <3>1. N = NonEmpty("networking", V)
            BY <2>1 DEF Given
        <3>2. V # NoField => IsTree(V)
            BY <1>2, <2>1, EchoNetworking DEF Echoes
        <3>3. IsTree(V)
            BY <3>2, LeafTree DEF NoField
        <3>4. V = NoField => Keys(N) = {}
            BY <3>1, KeysNone DEF NonEmpty
        <3> HIDE DEF V
        <3>5. /\ IsTree(NonEmpty("networking", V)) /\ IsMap(NonEmpty("networking", V))
              /\ Keys(NonEmpty("networking", V)) \subseteq {"networking"}
              /\ Keys(NonEmpty("networking", V)) # {} => At(NonEmpty("networking", V), "networking") = V
            BY <3>3, NonEmptyAt
        <3> HIDE DEF N
        <3>6. /\ IsTree(N) /\ IsMap(N) /\ Keys(N) \subseteq {"networking"}
              /\ "networking" \in Keys(N) => V # NoField /\ At(N, "networking") = V
            BY <3>1, <3>4, <3>5
        <3> QED
            BY <2>1, <3>6 DEF V
    <2>2. CASE "networking" \notin Keys(a)
        BY <2>2, ValidNone, KeysNone DEF Given, Valid
    <2> QED
        BY <2>1, <2>2
<1>5. /\ IsTree(P) /\ Keys(P) \subseteq {"packages"}
      /\ "packages" \in Keys(P) => "packages" \in Keys(a) /\ At(P, "packages") = envPackagesToParam(At(a, "packages"))
    <2> DEFINE V == envPackagesToParam(At(a, "packages"))
    <2>1. CASE "packages" \in Keys(a)
        <3>1. P = NonEmpty("packages", V)
            BY <2>1 DEF Given
        <3>2. IsTree(V)
            BY <1>2, <2>1, OnlyTree DEF envPackagesToParam
        <3> HIDE DEF V
        <3>3. /\ IsTree(NonEmpty("packages", V)) /\ Keys(NonEmpty("packages", V)) \subseteq {"packages"}
              /\ Keys(NonEmpty("packages", V)) # {} => At(NonEmpty("packages", V), "packages") = V
            BY <3>2, NonEmptyAt
        <3> HIDE DEF P
        <3>4. /\ IsTree(P) /\ Keys(P) \subseteq {"packages"}
              /\ "packages" \in Keys(P) => At(P, "packages") = V
            BY <3>1, <3>3
        <3> QED
            BY <2>1, <3>4 DEF V
    <2>2. CASE "packages" \notin Keys(a)
        BY <2>2, ValidNone, KeysNone DEF Given, Valid
    <2> QED
        BY <2>1, <2>2
<1> HIDE DEF N, P
<1>6. IsMap(W)
    BY <1>3, <1>4, MapBoth
<1>7. /\ "networking" \in Keys(W) => "networking" \in Keys(N) /\ At(W, "networking") = At(N, "networking")
      /\ "packages" \in Keys(W) => "packages" \in Keys(P) /\ At(W, "packages") = At(P, "packages")
    <2>1. Keys(W) = Keys(N) \cup Keys(P)
        BY <1>3, KeysBoth
    <2>2. "networking" \notin Keys(P) /\ "packages" \notin Keys(N)
        BY <1>4, <1>5
    <2> QED
        BY <1>3, <2>1, <2>2, AtLeft, AtRight
<1> QED
    BY <1>1, <1>2, <1>4, <1>5, <1>6, <1>7

LEMMA ConfigBack ==
    ASSUME kind = "environment", NEW x, Kept(kind, x), NEW p, Manifest(p), "config" \in Keys(p),
           NEW w, Valid(w), IsMap(w), NEW ex, At(w, "config") = envCloudConfigToParam(At(p, "config")),
           NEW s, s = SeenConfig(At(x, "config"))
    PROVE  Explained(SeenConfig(At(Updated(x, w, ex), "config")), At(p, "config"), s)
<1> DEFINE a == At(p, "config")
           W == At(w, "config")
           X == At(x, "config")
           M == Patch(X, W, Deep)
           c == At(Updated(x, w, ex), "config")
<1>1. /\ IsTree(p) /\ IsTree(a) /\ IsMap(a) /\ IsMap(W)
      /\ \A k \in {"networking", "packages"} : k \in Keys(a) => IsTree(At(a, k)) /\ IsMap(At(a, k))
      /\ "networking" \in Keys(W) =>
           /\ "networking" \in Keys(a) /\ envNetworkingToParam(At(a, "networking")) # NoField
           /\ At(W, "networking") = envNetworkingToParam(At(a, "networking"))
      /\ "packages" \in Keys(W) =>
           "packages" \in Keys(a) /\ At(W, "packages") = envPackagesToParam(At(a, "packages"))
    BY ConfigSent
<1>2. /\ At(c, "networking") = StoredNetworking(At(M, "networking")) /\ "networking" \in Keys(c)
      /\ At(c, "packages") = At(M, "packages")
      /\ \A k : k \notin Keys(W) => At(M, k) = At(X, k)
      /\ \A k : k \notin Deep /\ IsMap(At(W, k)) => At(M, k) = At(W, k)
    BY <1>1, ConfigMerged
<1>3. IsTree(X) /\ IsTree(c) /\ "networking" \in Keys(X) /\ StoredNetworking(At(X, "networking")) = At(X, "networking")
    BY AfterUpdate, AtTree DEF Kept, Complete, Valid
<1>4. "networking" \notin Deep /\ "packages" \notin Deep
    BY DEF Deep
<1> HIDE DEF W, X, M, c
<1>5. Agrees(SeenNetworking(c), a, s)
    <2>0. IsTree(SeenNetworking(c))
        BY <1>3, ConfigParts
    <2>1. CASE "networking" \notin Keys(W)
        <3>1. At(c, "networking") = At(X, "networking")
            BY <1>2, <1>3, <2>1
        <3>2. SeenNetworking(c) = SeenNetworking(X)
            BY <1>2, <1>3, <3>1 DEF SeenNetworking, Sub
        <3>3. SeenNetworking(X) \subseteq s
            BY <1>3, ConfigParts DEF X
        <3> QED
            BY <2>0, <3>2, <3>3, AgreesSeen
    <2>2. CASE "networking" \in Keys(W)
        <3> DEFINE n == At(a, "networking")
                   V == envNetworkingToParam(n)
        <3>1. "networking" \in Keys(a) /\ V # NoField /\ At(W, "networking") = V
            BY <1>1, <2>2
        <3>2. IsMap(V) /\ Echoes(envNetworkingFromObservation(StoredNetworking(V)), n)
            BY <1>1, <3>1, EchoNetworking
        <3>3. At(c, "networking") = StoredNetworking(V)
            BY <1>2, <1>4, <3>1, <3>2
        <3>4. SeenNetworking(c) = Field("networking", envNetworkingFromObservation(StoredNetworking(V)))
            BY <1>2, <3>3 DEF SeenNetworking, Sub
        <3>5. Echoes(SeenNetworking(c), a)
            BY <1>1, <3>2, <3>4, EchoField
        <3> QED
            BY <3>5, AgreesEcho
    <2> QED
        BY <2>1, <2>2
<1>6. Agrees(SeenPackages(c), a, s)
    <2>0. IsTree(SeenPackages(c))
        BY <1>3, ConfigParts
    <2>1. CASE "packages" \notin Keys(W)
        <3>1. At(c, "packages") = At(X, "packages")
            BY <1>2, <2>1
        <3>2. SeenPackages(c) = SeenPackages(X)
            BY <3>1, AtNone DEF SeenPackages, Sub
        <3>3. \A n \in SeenPackages(X) : n[1] # <<>> => n \in s
            BY <1>3, ConfigParts DEF X
        <3> QED
            BY <2>0, <3>2, <3>3, AgreesSeen
    <2>2. CASE "packages" \in Keys(W)
        <3> DEFINE k == At(a, "packages")
                   V == envPackagesToParam(k)
        <3>1. "packages" \in Keys(a) /\ At(W, "packages") = V
            BY <1>1, <2>2
        <3>2. IsTree(k) /\ IsMap(k) /\ IsMap(V) /\ IsTree(V) /\ V \subseteq k
            BY <1>1, <3>1, OnlyTree, MapOnly DEF envPackagesToParam
        <3>3. At(c, "packages") = V
            BY <1>2, <1>4, <3>1, <3>2
        <3>4. Echoes(V, k)
            BY <3>2, EchoOnly DEF envPackagesToParam
        <3> HIDE DEF V
        <3>5. Echoes(envPackagesToParam(V), k)
            BY <3>2, <3>4, EchoPart DEF envPackagesToParam
        <3>6. SeenPackages(c) = NoField \/ SeenPackages(c) = Field("packages", envPackagesToParam(V))
            BY <3>3 DEF SeenPackages, Sub
        <3>7. Echoes(SeenPackages(c), a)
            BY <1>1, <3>5, <3>6, EchoField, EchoNone
        <3> QED
            BY <3>7, AgreesEcho
    <2> QED
        BY <2>1, <2>2
<1>7. Explained(SeenNetworking(c), a, s)
    BY <1>1, <1>3, <1>5, ConfigParts, AgreesMap
<1>8. Explained(SeenConfig(c), a, s)
    BY <1>6, <1>7, AgreesBoth DEF SeenConfig
<1> QED
    BY <1>8 DEF c

LEMMA EnvironmentBack ==
    ASSUME kind = "environment", NEW x, Kept(kind, x), NEW p, Manifest(p),
           NEW w, w = environmentToAnthropicUpdate(p), Valid(w), IsMap(w), NEW ex,
           NEW s, s = environmentFromAnthropicObservation(x),
           NEW y, y = Updated(x, w, ex), NEW o, o = environmentFromAnthropicObservation(y)
    PROVE  Explained(o, p, s)
<1> DEFINE R == {"name", "description"}
           O == {"metadata", "scope"}
           C == Field("config", SeenConfig(At(y, "config")))
<1>1. IsTree(x) /\ IsTree(y) /\ IsTree(p) /\ IsMap(p)
    BY AfterUpdate, ManifestMap DEF Kept, Valid
<1>2. /\ o = EnvironmentPlain(y) ++ C
      /\ EnvironmentPlain(x) \subseteq s /\ IsTree(s) /\ At(s, "config") = SeenConfig(At(x, "config"))
    BY <1>1, EnvironmentSeen
<1>3. IsTree(C) /\ Keys(C) \subseteq {"config"}
    BY <1>1, AtTree, ConfigParts, FieldTree
<1>4. Explained(EnvironmentPlain(y), p, s)
    <2>1. \A k \in R \cup O : k \notin {"config", "auth"}
        OBVIOUS
    <2>2. New(w, ex) = w
        BY DEF New, Filled
    <2>3. \A k \in R \cup O : k \in Keys(w) => Below(New(w, ex), {k}) = Below(p, {k})
        BY <2>2, EnvironmentSent
    <2>4. Fields(x, R, O) \subseteq s /\ EnvironmentPlain(y) = Fields(Updated(x, w, ex), R, O)
        BY <1>2 DEF EnvironmentPlain
    <2> HIDE DEF R, O
    <2> QED
        BY <2>1, <2>3, <2>4, PlainBack
<1> HIDE DEF C
<1>5. Agrees(C, p, s)
    <2>1. CASE "config" \notin Keys(p)
        BY <1>1, <1>3, <2>1, AgreesApart
    <2>2. CASE "config" \in Keys(p)
        <3>1. Explained(SeenConfig(At(y, "config")), At(p, "config"), At(s, "config"))
            BY <1>2, <2>2, EnvironmentSent, ConfigBack
        <3>2. Explained(C, p, s)
            BY <1>1, <1>2, <3>1, ExplainedField DEF C
        <3> QED
            BY <3>2, ExplainedTree DEF Agrees
    <2> QED
        BY <2>1, <2>2
<1> QED
    BY <1>2, <1>4, <1>5, AgreesBoth

---------------------------------------------------------------------------
(* Credentials, as they come back: what is not secret of the variant. *)

LEMMA BelowKept ==
    ASSUME NEW v, NEW w, NEW k \in Keys(v)
    PROVE  Below(v ++ w, {k}) = Below(v, {k}) /\ k \in Keys(v ++ w)
BY BelowBoth, KeysBoth

LEMMA AuthMap ==
    ASSUME NEW a, IsMap(a)
    PROVE  IsMap(StoredAuth(a))
<1>1. \A k, v : IsMap(Field(k, v))
    BY MapRoot DEF Field
<1> QED
    BY <1>1, MapBoth DEF StoredAuth

LEMMA RefreshTree ==
    ASSUME NEW r, IsTree(r), NEW ctx
    PROVE  IsTree(updateRefresh(r, ctx))
<1> DEFINE e == At(r, "tokenEndpointAuth")
<1>1. \A k : IsTree(OptionalSecret(ctx, k))
    BY LeafTree, NonEmptyAt DEF OptionalSecret
<1>2. IsTree(updateTokenEndpoint(e, ctx))
    <2>1. IsTree(e) /\ IsTree(Nothing)
        BY AtTree, LeafTree DEF Nothing
    <2> QED
        BY <1>1, <2>1, OnlyTree, BothTree DEF updateTokenEndpoint
<1>3. IsTree(NonEmpty("tokenEndpointAuth", updateTokenEndpoint(e, ctx)))
    BY <1>2, NonEmptyAt
<1> QED
    BY <1>1, <1>3, OnlyTree, BothTree DEF updateRefresh

\* What the merged auth is, when one is sent.
LEMMA AuthMerged ==
    ASSUME kind = "credential", NEW x, Valid(x), IsMap(x), NEW w, Valid(w), IsMap(w), NEW ex, IsMap(At(w, "auth")),
           NEW W, W = At(w, "auth"), NEW X, X = At(x, "auth"), NEW M, M = Patch(X, W, Deep)
    PROVE  /\ At(Updated(x, w, ex), "auth") = StoredAuth(M)
           /\ Valid(M) /\ IsMap(M) /\ Valid(X) /\ Valid(W)
           /\ \A k : k \notin Keys(W) => Below(M, {k}) = Below(X, {k})
           /\ \A k : k \notin Deep /\ <<k>> \in Paths(W) => Below(M, {k}) = Below(W, {k})
           /\ \A k : k \in Deep /\ <<k>> \in Paths(W) => At(M, k) = Patch(At(X, k), At(W, k), Deep)
<1> DEFINE C == Full(x, w, ex)
<1>1. /\ New(w, ex) = w /\ Valid(Merged(x, w, ex)) /\ IsMap(Merged(x, w, ex)) /\ Valid(x) /\ Valid(C)
      /\ Updated(x, w, ex) = Without(C, EmptyLists(C))
    BY AfterUpdate DEF New, Filled
<1>2. Valid(X) /\ Valid(W)
    BY <1>1, ValidAt
<1>3. At(Merged(x, w, ex), "auth") = M
    <2>1. <<"auth">> \in Paths(w) /\ "auth" \in Deep
        BY MapPath DEF Valid, Deep
    <2> QED
        BY <1>1, <2>1, PatchInto DEF Merged, Valid
<1>4. /\ Valid(M) /\ IsMap(M)
      /\ \A k : k \notin Keys(W) => Below(M, {k}) = Below(X, {k})
    BY <1>2, PatchValid
<1>5. \A k : k \notin Deep /\ <<k>> \in Paths(W) => Below(M, {k}) = Below(W, {k})
    BY <1>2, PatchReplaced DEF Valid
<1>6. \A k : k \in Deep /\ <<k>> \in Paths(W) => At(M, k) = Patch(At(X, k), At(W, k), Deep)
    <2> SUFFICES ASSUME NEW k \in Deep, <<k>> \in Paths(W)
                 PROVE  At(M, k) = Patch(At(X, k), At(W, k), Deep)
        OBVIOUS
    <2>1. IsTree(X) /\ IsTree(W)
        BY <1>2 DEF Valid
    <2> QED
        BY <2>1, PatchInto
<1>7. At(Updated(x, w, ex), "auth") = StoredAuth(M)
    <2> DEFINE S == StoredAuth(M)
    <2>1. IsTree(S) /\ IsMap(S) /\ S # {}
        <3>1. Valid(S)
            BY <1>4, AuthValid
        <3>2. IsMap(S)
            BY <1>4, AuthMap
        <3> QED
            BY <3>1, <3>2 DEF Valid, IsMap
    <2>2. "auth" \in Keys(Merged(x, w, ex))
        BY <1>1, <1>3, <1>4, MapPath DEF Valid
    <2>3. C = Field("auth", S) ++ Merged(x, w, ex)
        BY <1>3, <2>2 DEF Full, Completed, StoredCredential, Sub
    <2> HIDE DEF S
    <2>4. At(C, "auth") = S
        BY <2>1, <2>3, AtFirst
    <2>5. "auth" \notin EmptyLists(C)
        BY <1>1, <2>1, <2>4, NoEmptyMap DEF Valid
    <2> QED
        BY <1>1, <2>4, <2>5, AtOnly DEF S
<1> QED
    BY <1>2, <1>4, <1>5, <1>6, <1>7

\* What is sent of an auth of a variant.
LEMMA VariableSent ==
    ASSUME NEW a, IsTree(a), IsMap(a), Text(a, "type") = "environment_variable", NEW ctx,
           NEW W, W = updateAuthUnion(a, ctx)
    PROVE  /\ IsMap(W) /\ Keys(W) \subseteq {"type", "secretValue", "networking", "injectionLocation"}
           /\ Below(W, {"type"}) = Below(a, {"type"})
           /\ "networking" \in Keys(W) =>
                /\ "networking" \in Keys(a) /\ networkingUnion(At(a, "networking")) # Nothing
                /\ At(W, "networking") = networkingUnion(At(a, "networking"))
           /\ "injectionLocation" \in Keys(W) =>
                /\ "injectionLocation" \in Keys(a)
                /\ At(W, "injectionLocation") = injectionLocation(At(a, "injectionLocation"))
<1> DEFINE O == Only(a, {"type"})
           S == OptionalSecret(ctx, "secretValue")
           n == At(a, "networking")
           V == networkingUnion(n)
           N == Given(a, "networking", networkingUnion)
           il == At(a, "injectionLocation")
           J == injectionLocation(il)
           I == Given(a, "injectionLocation", injectionLocation)
<1>1. W = O ++ S ++ N ++ I
    BY DEF updateAuthUnion
<1>2. IsTree(n) /\ IsTree(il) /\ "type" \in Keys(a)
    BY AtTree, TextNode
<1>3. IsMap(O) /\ Keys(O) = {"type"} /\ Below(O, {"type"}) = Below(a, {"type"})
    <2>1. Keys(O) = Keys(a) \cap {"type"}
        BY KeysOnly
    <2>2. Below(O, {"type"}) = Below(a, {"type"})
        BY DEF Only, Below, Root
    <2> QED
        BY <1>2, <2>1, <2>2, MapOnly
<1>4. Keys(S) \subseteq {"secretValue"}
    BY LeafTree, FieldKeys DEF OptionalSecret
<1>5. /\ Keys(N) \subseteq {"networking"}
      /\ "networking" \in Keys(N) => "networking" \in Keys(a) /\ V # Nothing /\ At(N, "networking") = V
    <2>1. CASE "networking" \in Keys(a)
        <3>1. N = NonEmpty("networking", V)
            BY <2>1 DEF Given
        <3>2. IsTree(V)
            <4>1. \A t, L : IsTree(Variant(t, n, {}, L))
                BY <1>2, LeafField, FieldsTree, BothTree DEF Variant
            <4>2. IsTree(Nothing)
                BY LeafTree DEF Nothing
            <4> QED
                BY <4>1, <4>2 DEF networkingUnion
        <3>3. V = Nothing => Keys(N) = {}
            BY <3>1, KeysNone DEF NonEmpty
        <3> HIDE DEF V
        <3>4. /\ Keys(NonEmpty("networking", V)) \subseteq {"networking"}
              /\ Keys(NonEmpty("networking", V)) # {} => At(NonEmpty("networking", V), "networking") = V
            BY <3>2, NonEmptyAt
        <3> HIDE DEF N
        <3> QED
            BY <2>1, <3>1, <3>3, <3>4
    <2>2. CASE "networking" \notin Keys(a)
        BY <2>2, KeysNone DEF Given
    <2> QED
        BY <2>1, <2>2
<1>6. /\ Keys(I) \subseteq {"injectionLocation"}
      /\ "injectionLocation" \in Keys(I) => "injectionLocation" \in Keys(a) /\ At(I, "injectionLocation") = J
    <2>1. CASE "injectionLocation" \in Keys(a)
        <3>1. I = NonEmpty("injectionLocation", J)
            BY <2>1 DEF Given
        <3>2. IsTree(J)
            BY <1>2, OnlyTree DEF injectionLocation
        <3> HIDE DEF J
        <3>4. /\ Keys(NonEmpty("injectionLocation", J)) \subseteq {"injectionLocation"}
              /\ Keys(NonEmpty("injectionLocation", J)) # {} => At(NonEmpty("injectionLocation", J), "injectionLocation") = J
            BY <3>2, NonEmptyAt
        <3> HIDE DEF I
        <3> QED
            BY <2>1, <3>1, <3>4
    <2>2. CASE "injectionLocation" \notin Keys(a)
        BY <2>2, KeysNone DEF Given
    <2> QED
        BY <2>1, <2>2
<1> HIDE DEF O, S, V, N, J, I
<1>7. IsMap(W)
    BY <1>1, <1>3, MapBoth
<1>8. Keys(W) = Keys(O) \cup Keys(S) \cup Keys(N) \cup Keys(I)
    BY <1>1, KeysBoth
<1>9. Below(W, {"type"}) = Below(a, {"type"})
    <2>1. Below(O ++ S, {"type"}) = Below(O, {"type"}) /\ "type" \in Keys(O ++ S)
        BY <1>3, BelowKept
    <2>2. Below((O ++ S) ++ N, {"type"}) = Below(O ++ S, {"type"}) /\ "type" \in Keys((O ++ S) ++ N)
        BY <2>1, BelowKept
    <2>3. Below(((O ++ S) ++ N) ++ I, {"type"}) = Below((O ++ S) ++ N, {"type"})
        BY <2>2, BelowKept
    <2> QED
        BY <1>1, <1>3, <2>1, <2>2, <2>3
<1>10. "networking" \in Keys(W) => "networking" \in Keys(N) /\ At(W, "networking") = At(N, "networking")
    <2>1. "networking" \notin Keys(O ++ S) /\ "networking" \notin Keys(I)
        BY <1>3, <1>4, <1>6, KeysBoth
    <2>2. At((O ++ S) ++ N, "networking") = At(N, "networking")
        BY <2>1, AtRight
    <2>3. At(((O ++ S) ++ N) ++ I, "networking") = At((O ++ S) ++ N, "networking")
        BY <2>1, AtLeft
    <2> QED
        BY <1>1, <1>8, <2>1, <2>2, <2>3, KeysBoth
<1>11. "injectionLocation" \in Keys(W) => "injectionLocation" \in Keys(I) /\ At(W, "injectionLocation") = At(I, "injectionLocation")
    <2>1. "injectionLocation" \notin Keys((O ++ S) ++ N)
        BY <1>3, <1>4, <1>5, KeysBoth
    <2>2. At(((O ++ S) ++ N) ++ I, "injectionLocation") = At(I, "injectionLocation")
        BY <2>1, AtRight
    <2> QED
        BY <1>1, <1>8, <2>1, <2>2, KeysBoth
<1>12. Keys(W) \subseteq {"type", "secretValue", "networking", "injectionLocation"}
    BY <1>3, <1>4, <1>5, <1>6, <1>8
<1> QED
    BY <1>5, <1>6, <1>7, <1>9, <1>10, <1>11, <1>12 DEF V, J

LEMMA TokenSent ==
    ASSUME NEW a, IsTree(a), IsMap(a), Text(a, "type") \in {"static_bearer", "mcp_oauth"}, NEW ctx,
           NEW W, W = updateAuthUnion(a, ctx)
    PROVE  /\ IsMap(W) /\ "mcpServerUrl" \notin Keys(W)
           /\ Below(W, {"type"}) = Below(a, {"type"})
<1>1. "type" \in Keys(a)
    BY TextNode
<1>2. \A K : "type" \in K => /\ IsMap(Only(a, K)) /\ Keys(Only(a, K)) \subseteq K /\ "type" \in Keys(Only(a, K))
                             /\ Below(Only(a, K), {"type"}) = Below(a, {"type"})
    <2> SUFFICES ASSUME NEW K, "type" \in K
                 PROVE  /\ IsMap(Only(a, K)) /\ Keys(Only(a, K)) \subseteq K /\ "type" \in Keys(Only(a, K))
                        /\ Below(Only(a, K), {"type"}) = Below(a, {"type"})
        OBVIOUS
    <2>1. Keys(Only(a, K)) = Keys(a) \cap K
        BY KeysOnly
    <2>2. Below(Only(a, K), {"type"}) = Below(a, {"type"})
        BY DEF Only, Below, Root
    <2> QED
        BY <1>1, <2>1, <2>2, MapOnly
<1>3. CASE Text(a, "type") = "static_bearer"
    <2> DEFINE O == Only(a, {"type"})
               S == OptionalSecret(ctx, "token")
    <2>1. W = O ++ S
        BY <1>3 DEF updateAuthUnion
    <2>2. IsMap(O) /\ Keys(O) \subseteq {"type"} /\ "type" \in Keys(O) /\ Below(O, {"type"}) = Below(a, {"type"})
        BY <1>2
    <2>3. Keys(S) \subseteq {"token"}
        BY LeafTree, FieldKeys DEF OptionalSecret
    <2> HIDE DEF O, S
    <2>4. Below(O ++ S, {"type"}) = Below(O, {"type"})
        BY <2>2, BelowKept
    <2> QED
        BY <2>1, <2>2, <2>3, <2>4, KeysBoth, MapBoth
<1>4. CASE Text(a, "type") = "mcp_oauth"
    <2> DEFINE O == Only(a, {"type"} \cup Expiry(a))
               S == OptionalSecret(ctx, "accessToken")
               u == updateRefresh(At(a, "refresh"), ctx)
               R == IF "refresh" \in Keys(a) THEN NonEmpty("refresh", u) ELSE NoField
    <2>1. W = O ++ S ++ R
        BY <1>4 DEF updateAuthUnion, Given
    <2>2. IsMap(O) /\ Keys(O) \subseteq {"type", "expiresAt"} /\ "type" \in Keys(O) /\ Below(O, {"type"}) = Below(a, {"type"})
        <3>1. "type" \in {"type"} \cup Expiry(a) /\ {"type"} \cup Expiry(a) \subseteq {"type", "expiresAt"}
            BY DEF Expiry
        <3> QED
            BY <1>2, <3>1
    <2>3. Keys(S) \subseteq {"accessToken"}
        BY LeafTree, FieldKeys DEF OptionalSecret
    <2>4. Keys(R) \subseteq {"refresh"}
        <3>1. IsTree(u)
            BY AtTree, RefreshTree
        <3> HIDE DEF u
        <3> QED
            BY <3>1, KeysNone, NonEmptyAt
    <2> HIDE DEF O, S, R
    <2>5. Below(O ++ S, {"type"}) = Below(O, {"type"}) /\ "type" \in Keys(O ++ S)
        BY <2>2, BelowKept
    <2>6. Below((O ++ S) ++ R, {"type"}) = Below(O ++ S, {"type"})
        BY <2>5, BelowKept
    <2>7. Keys((O ++ S) ++ R) = Keys(O) \cup Keys(S) \cup Keys(R) /\ IsMap((O ++ S) ++ R)
        BY <2>2, KeysBoth, MapBoth
    <2> QED
        BY <2>1, <2>2, <2>3, <2>4, <2>5, <2>6, <2>7
<1> QED
    BY <1>3, <1>4

LEMMA BelowField ==
    ASSUME NEW v, IsTree(v), IsMap(v), NEW k, NEW n \in Below(v, {k})
    PROVE  n \in Field(k, At(v, k))
<1> DEFINE u == At(v, k)
<1>1. k \in Keys(v) /\ u # {} /\ IsTree(u)
    BY AtTree, AtNone DEF Below, Keys
<1>2. Field(k, u) ++ v = v
    BY <1>1, FieldSame
<1>3. k \in Keys(Field(k, u))
    BY <1>1, FieldHas
<1> HIDE DEF u
<1>4. Below(Field(k, u) ++ v, {k}) = Below(Field(k, u), {k})
    BY <1>3, BelowKept
<1>5. n \in Below(Field(k, u), {k})
    BY <1>2, <1>4
<1> QED
    BY <1>5 DEF Below, u

\* The type that is sent is the one that comes back.
LEMMA TypeMerged ==
    ASSUME NEW a, IsTree(a), NEW t, t # "", Text(a, "type") = t,
           NEW W, Below(W, {"type"}) = Below(a, {"type"}),
           NEW M, IsTree(M), "type" \notin Deep /\ <<"type">> \in Paths(W) => Below(M, {"type"}) = Below(W, {"type"})
    PROVE  Text(M, "type") = t /\ Below(M, {"type"}) = Below(a, {"type"}) /\ "type" \in Keys(M)
<1> DEFINE n == <<(<<"type">>), t>>
<1>1. n \in a
    BY TextNode
<1>2. n[1] = <<"type">> /\ n[1] # <<>> /\ Head(n[1]) = "type"
    BY PathOne
<1> HIDE DEF n
<1>3. n \in Below(a, {"type"})
    BY <1>1, <1>2 DEF Below
<1>4. <<"type">> \in Paths(W)
    BY <1>2, <1>3 DEF Below, Paths
<1>5. "type" \notin Deep
    BY DEF Deep
<1>6. Below(M, {"type"}) = Below(a, {"type"})
    BY <1>4, <1>5
<1>7. n \in M /\ "type" \in Keys(M)
    BY <1>2, <1>3, <1>6 DEF Below, Keys
<1> QED
    BY <1>6, <1>7, TextPath DEF n

\* The networking that is sent comes back.
LEMMA EchoLimits ==
    ASSUME NEW n, IsTree(n), IsMap(n), NEW V, V = networkingUnion(n), V # Nothing
    PROVE  IsMap(V) /\ Echoes(V, n)
<1>1. \A t, L : IsMap(Variant(t, n, {}, L))
    BY LeafTree, FieldTree, MapBoth DEF Variant
<1>2. CASE Text(n, "type") = "limited"
    BY <1>1, <1>2, EchoVariant DEF networkingUnion
<1>3. CASE Text(n, "type") = "unrestricted"
    BY <1>1, <1>3, EchoVariant DEF networkingUnion
<1> QED
    BY <1>2, <1>3 DEF networkingUnion

LEMMA VariableBack ==
    ASSUME kind = "credential", NEW x, Kept(kind, x), NEW w, Valid(w), IsMap(w), NEW ex,
           NEW a, IsTree(a), IsMap(a), Text(a, "type") = "environment_variable",
           "networking" \in Keys(a) => IsMap(At(a, "networking")),
           "injectionLocation" \in Keys(a) => IsMap(At(a, "injectionLocation")),
           NEW ctx, At(w, "auth") = updateAuthUnion(a, ctx),
           Text(At(x, "auth"), "type") = "environment_variable"
    PROVE  Explained(authFromObservation(At(Updated(x, w, ex), "auth")), a, authFromObservation(At(x, "auth")))
<1> DEFINE K  == {"type", "secretName", "networking", "injectionLocation"}
           k  == "injectionLocation"
           W  == At(w, "auth")
           X  == At(x, "auth")
           M  == Patch(X, W, Deep)
           il == At(a, k)
           FB == Field("body", Leaf("false"))
           FH == Field("header", Leaf("true"))
           given(v) == IF k \in Keys(v) THEN At(v, k) ELSE NoField
           g  == given(M) ++ FB ++ FH
           c  == At(Updated(x, w, ex), "auth")
           s  == Only(X, K)
<1>1. /\ IsMap(W) /\ Keys(W) \subseteq {"type", "secretValue", "networking", "injectionLocation"}
      /\ Below(W, {"type"}) = Below(a, {"type"})
      /\ "networking" \in Keys(W) =>
            /\ "networking" \in Keys(a) /\ networkingUnion(At(a, "networking")) # Nothing
            /\ At(W, "networking") = networkingUnion(At(a, "networking"))
      /\ k \in Keys(W) => k \in Keys(a) /\ At(W, k) = injectionLocation(il)
    BY VariableSent
<1>2. /\ c = StoredAuth(M) /\ Valid(M) /\ IsMap(M) /\ Valid(X) /\ Valid(W) /\ StoredAuth(X) = X
      /\ \A j : j \notin Keys(W) => Below(M, {j}) = Below(X, {j})
      /\ \A j : j \notin Deep /\ <<j>> \in Paths(W) => Below(M, {j}) = Below(W, {j})
      /\ \A j : j \in Deep /\ <<j>> \in Paths(W) => At(M, j) = Patch(At(X, j), At(W, j), Deep)
    BY <1>1, AuthMerged DEF Kept
<1>3. IsTree(X) /\ IsTree(W) /\ IsTree(M) /\ IsTree(At(X, k)) /\ IsTree(At(M, k)) /\ IsTree(il)
    BY <1>2, AtTree DEF Valid
<1> HIDE DEF X, W, M
<1>4. Text(M, "type") = "environment_variable" /\ Below(M, {"type"}) = Below(a, {"type"})
    BY <1>1, <1>2, <1>3, TypeMerged
<1>5. /\ IsTree(FB) /\ IsTree(FH) /\ IsTree(Leaf("false")) /\ IsTree(Leaf("true"))
      /\ Keys(FB) = {"body"} /\ Keys(FH) = {"header"}
    <2>1. /\ IsTree(Leaf("false")) /\ Leaf("false") # {}
          /\ IsTree(Leaf("true")) /\ Leaf("true") # {}
        BY LeafTree DEF Leaf
    <2> QED
        BY <2>1, FieldHas, FieldTree
<1>6. c = Field(k, g) ++ M /\ X = Field(k, given(X) ++ FB ++ FH) ++ X
    <2>1. Text(X, "type") = "environment_variable"
        BY DEF X
    <2> QED
        BY <1>2, <1>4, <2>1 DEF StoredAuth
<1>7. k \in Keys(X) /\ At(X, k) = (At(X, k) ++ FB) ++ FH
    <2> DEFINE gX == given(X) ++ FB ++ FH
    <2>1. IsTree(gX)
        <3>1. IsTree(NoField)
            BY LeafTree DEF NoField
        <3>2. IsTree(given(X))
            BY <1>3, <3>1
        <3> HIDE DEF given, FB, FH
        <3>3. IsTree(given(X) ++ FB)
            BY <1>5, <3>2, BothTree
        <3> QED
            BY <1>5, <3>3, BothTree
    <2>2. "header" \in Keys(gX)
        BY <1>5, KeysBoth
    <2>3. gX # {}
        BY <2>2 DEF Keys
    <2>4. X = Field(k, gX) ++ X
        BY <1>6
    <2> HIDE DEF gX
    <2>5. k \in Keys(X) /\ At(X, k) = gX
        BY <2>1, <2>3, <2>4, AtFirst
    <2> QED
        BY <2>5 DEF gX
<1>8. Explained(g, il, At(X, k))
    <2>1. CASE k \notin Keys(W)
        <3>1. At(M, k) = At(X, k) /\ k \in Keys(M)
            BY <1>2, <1>7, <2>1, AtBelow
        <3>2. g = At(X, k)
            BY <1>7, <3>1
        <3> QED
            BY <1>3, <3>2, ExplainedKept
    <2>2. CASE k \in Keys(W)
        <3> DEFINE G == At(M, k)
                   I == injectionLocation(il)
        <3>1. k \in Keys(a) /\ At(W, k) = I /\ IsMap(il)
            BY <1>1, <2>2
        <3>2. IsMap(I) /\ Keys(I) = Keys(il) \cap {"body", "header"} /\ I \subseteq il
            BY <1>3, <3>1, MapOnly, KeysOnly, OnlyTree DEF injectionLocation
        <3>3. <<k>> \in Paths(W) /\ k \in Deep
            BY <1>3, <3>1, <3>2, MapPath DEF Deep
        <3>4. G = Patch(At(X, k), I, Deep)
            BY <1>2, <3>1, <3>3
        <3>5. I \subseteq G /\ G \subseteq At(X, k) \cup I
            BY <3>4 DEF Patch
        <3>6. k \in Keys(M)
            BY <3>2, <3>5, AtNone DEF IsMap
        <3>7. g = G ++ FB ++ FH
            BY <3>6
        <3>8. Keys(I) \subseteq Keys(G)
            BY <3>5 DEF Keys
        <3>9. IsTree(G)
            BY <1>3
        <3> HIDE DEF G, g
        <3>10. Explained(G, il, At(X, k))
            BY <3>2, <3>5, <3>9, ExplainedKept
        <3>11. /\ "body" \in Keys(il) => "body" \in Keys(G)
               /\ "header" \in Keys(il) => "header" \in Keys(G ++ FB)
            BY <3>2, <3>8, KeysBoth
        <3>12. Explained(G ++ FB, il, At(X, k))
            BY <1>3, <1>5, <3>1, <3>10, <3>11, ExplainedDefault
        <3>13. Explained(G ++ FB ++ FH, il, At(X, k))
            BY <1>3, <1>5, <3>1, <3>11, <3>12, ExplainedDefault
        <3> QED
            BY <3>7, <3>13
    <2> QED
        BY <2>1, <2>2
<1>9. g # {}
    <2>1. "header" \in Keys(g)
        BY <1>5, KeysBoth
    <2> QED
        BY <2>1 DEF Keys
<1>10. IsTree(g)
    BY <1>8 DEF Explained
<1> HIDE DEF g, given, FB, FH
<1>11. authFromObservation(c) = Only(c, K) /\ authFromObservation(X) = s
    <2>1. "type" \notin Keys(Field(k, g))
        BY <1>10, FieldTree
    <2>2. Text(c, "type") = "environment_variable"
        BY <1>4, <1>6, <2>1, TextBoth
    <2> QED
        BY <2>2 DEF authFromObservation, X
<1>12. /\ IsTree(s) /\ At(s, k) = At(X, k)
       /\ \A j \in K : \A n \in Below(X, {j}) : n \in s
    <2>1. IsTree(s) /\ At(s, k) = At(X, k)
        BY <1>3, OnlyTree, AtOnly
    <2>2. ASSUME NEW j \in K, NEW n \in Below(X, {j}) PROVE n \in s
        <3> HIDE DEF K
        <3> QED
            BY <2>2 DEF Only, Below
    <2> QED
        BY <2>1, <2>2
<1> HIDE DEF s
<1>13. Explained(Field(k, g), a, s)
    BY <1>8, <1>12, ExplainedField
<1>14. Below(c, {k}) = Below(Field(k, g), {k})
    BY <1>6, <1>9, <1>10, FieldHas, BelowKept
<1>15. \A j \in K : j # k => Below(c, {j}) = Below(M, {j})
    <2> SUFFICES ASSUME NEW j \in K, j # k PROVE Below(c, {j}) = Below(M, {j})
        OBVIOUS
    <2>1. j \notin Keys(Field(k, g))
        BY <1>10, FieldTree
    <2> QED
        BY <1>6, <2>1, BelowRight
<1>16. ASSUME NEW n \in Below(M, {"networking"}), n[1] \in Paths(a) PROVE n \in a \cup s
    <2>1. CASE "networking" \notin Keys(W)
        <3>1. n \in Below(X, {"networking"})
            BY <1>2, <1>16, <2>1
        <3> QED
            BY <1>12, <3>1
    <2>2. CASE "networking" \in Keys(W)
        <3> DEFINE V == At(W, "networking")
        <3>1. IsTree(At(a, "networking")) /\ IsMap(At(a, "networking"))
            BY <1>1, <2>2, AtTree
        <3>2. IsMap(V) /\ Echoes(V, At(a, "networking"))
            BY <1>1, <2>2, <3>1, EchoLimits
        <3>3. <<"networking">> \in Paths(W) /\ "networking" \notin Deep
            BY <1>3, <3>2, MapPath DEF Deep
        <3>4. n \in Below(W, {"networking"})
            BY <1>2, <1>16, <3>3
        <3>5. n \in Field("networking", V)
            BY <1>1, <1>3, <3>4, BelowField
        <3>6. Echoes(Field("networking", V), a)
            BY <3>2, EchoField
        <3> QED
            BY <1>16, <3>5, <3>6 DEF Echoes
    <2> QED
        BY <2>1, <2>2
<1>17. ASSUME NEW n \in Below(M, {"secretName"}) PROVE n \in s
    <2>1. Below(M, {"secretName"}) = Below(X, {"secretName"})
        BY <1>1, <1>2
    <2> QED
        BY <1>12, <1>17, <2>1
<1>18. ASSUME NEW j \in K, NEW n \in Below(c, {j}), n[1] \in Paths(a) \cap Paths(s) PROVE n \in a \cup s
    <2>1. CASE j = k
        BY <1>13, <1>14, <1>18, <2>1 DEF Below, Explained
    <2>2. CASE j = "type"
        BY <1>4, <1>15, <1>18, <2>2 DEF Below
    <2>3. CASE j = "networking"
        BY <1>15, <1>16, <1>18, <2>3
    <2>4. CASE j = "secretName"
        BY <1>15, <1>17, <1>18, <2>4
    <2> QED
        BY <2>1, <2>2, <2>3, <2>4
<1>19. IsTree(c) /\ IsMap(c)
    BY <1>2, AuthValid, AuthMap DEF Valid
<1> HIDE DEF K, c
<1>20. Agrees(Only(c, K), a, s)
    <2>1. IsTree(Only(c, K))
        BY <1>19, OnlyTree
    <2>2. ASSUME NEW n \in Only(c, K), n[1] # <<>> PROVE \E j \in K : n \in Below(c, {j})
        BY <2>2 DEF Only, Root, Below
    <2> QED
        BY <1>18, <2>1, <2>2 DEF Agrees
<1>21. Explained(Only(c, K), a, s)
    BY <1>19, <1>20, MapOnly, AgreesMap
<1> QED
    BY <1>11, <1>21 DEF c, X

LEMMA TokenBack ==
    ASSUME kind = "credential", NEW x, Kept(kind, x), NEW w, Valid(w), IsMap(w), NEW ex,
           NEW a, IsTree(a), IsMap(a), NEW t \in {"static_bearer", "mcp_oauth"}, Text(a, "type") = t,
           NEW ctx, At(w, "auth") = updateAuthUnion(a, ctx), Text(At(x, "auth"), "type") = t
    PROVE  Explained(authFromObservation(At(Updated(x, w, ex), "auth")), a, authFromObservation(At(x, "auth")))
<1> DEFINE R  == {"type", "mcpServerUrl"}
           W  == At(w, "auth")
           X  == At(x, "auth")
           M  == Patch(X, W, Deep)
           c  == At(Updated(x, w, ex), "auth")
           s  == Fields(X, R, {})
<1>1. IsMap(W) /\ "mcpServerUrl" \notin Keys(W) /\ Below(W, {"type"}) = Below(a, {"type"})
    BY TokenSent
<1>2. /\ c = StoredAuth(M) /\ Valid(M) /\ IsMap(M) /\ Valid(X) /\ Valid(W)
      /\ \A j : j \notin Keys(W) => Below(M, {j}) = Below(X, {j})
      /\ \A j : j \notin Deep /\ <<j>> \in Paths(W) => Below(M, {j}) = Below(W, {j})
    BY <1>1, AuthMerged DEF Kept
<1>3. IsTree(X) /\ IsTree(W) /\ IsTree(M)
    BY <1>2 DEF Valid
<1>4. Text(X, "type") = t
    OBVIOUS
<1> HIDE DEF X, W, M
<1>5. Text(M, "type") = t /\ Below(M, {"type"}) = Below(a, {"type"}) /\ "type" \in Keys(M)
    BY <1>1, <1>2, <1>3, TypeMerged
<1>6. c = M
    BY <1>2, <1>5 DEF StoredAuth
<1>7. authFromObservation(c) = Fields(M, R, {}) /\ authFromObservation(X) = s
    BY <1>4, <1>5, <1>6 DEF authFromObservation
<1>8. Below(M, {"mcpServerUrl"}) = Below(X, {"mcpServerUrl"})
    BY <1>1, <1>2
<1>9. \A n \in Below(X, {"mcpServerUrl"}) : n \in s
    BY DEF Fields, Only, Below
<1>10. "mcpServerUrl" \notin Keys(M) => <<(<<"mcpServerUrl">>), "">> \in s
    <2>1. "mcpServerUrl" \in Keys(M) <=> "mcpServerUrl" \in Keys(X)
        BY <1>8, AtBelow
    <2> QED
        BY <2>1 DEF Fields
<1> HIDE DEF s
<1>11. ASSUME NEW n \in Fields(M, R, {}), n[1] # <<>>, n[1] \in Paths(a) PROVE n \in a \cup s
    <2>1. CASE n \in Only(M, R \cup {})
        <3>1. n \in Below(M, {"type"}) \/ n \in Below(M, {"mcpServerUrl"})
            BY <1>11, <2>1 DEF Only, Root, Below
        <3> QED
            BY <1>5, <1>8, <1>9, <3>1 DEF Below
    <2>2. CASE n \in {<<(<<k>>), "">> : k \in R \ Keys(M)}
        BY <1>5, <1>10, <2>2
    <2> QED
        BY <1>11, <2>1, <2>2 DEF Fields
<1>12. IsTree(Fields(M, R, {})) /\ IsMap(Fields(M, R, {}))
    BY <1>2, <1>3, FieldsTree, MapOnly
<1> HIDE DEF R
<1>13. Agrees(Fields(M, R, {}), a, s)
    BY <1>11, <1>12 DEF Agrees
<1> QED
    BY <1>7, <1>12, <1>13, AgreesMap DEF c, X

CredentialPlain(r) == Fields(r, {"displayName"}, {"metadata"})

LEMMA SeenAuthTree ==
    ASSUME NEW a, IsTree(a)
    PROVE  IsTree(authFromObservation(a))
BY OnlyTree, FieldsTree DEF authFromObservation

LEMMA CredentialSeen ==
    ASSUME NEW r, IsTree(r), NEW s, s = credentialFromAnthropicObservation(r)
    PROVE  /\ s = CredentialPlain(r) ++ Field("auth", authFromObservation(At(r, "auth")))
           /\ IsTree(s) /\ CredentialPlain(r) \subseteq s
           /\ At(s, "auth") = authFromObservation(At(r, "auth"))
           /\ \A n \in Field("auth", authFromObservation(At(r, "auth"))) : n[1] # <<>> => n \in s
           /\ Keys(s) \cap {"model", "systemSha256"} = {}
<1> DEFINE F == CredentialPlain(r)
           a == authFromObservation(At(r, "auth"))
           G == Field("auth", a)
<1>1. s = F ++ G
    BY DEF credentialFromAnthropicObservation, CredentialPlain
<1>2. IsTree(F) /\ Keys(F) \subseteq {"displayName", "metadata"}
    <2>1. Keys(F) \subseteq {"displayName"} \cup {"metadata"} /\ IsTree(F)
        BY FieldsTree DEF CredentialPlain
    <2> QED
        BY <2>1
<1>3. IsTree(G) /\ Keys(G) \subseteq {"auth"} /\ At(G, "auth") = a
    <2>1. IsTree(a)
        BY AtTree, SeenAuthTree
    <2> QED
        BY <2>1, FieldTree, AtField
<1> HIDE DEF F, G
<1>4. Keys(F) \cap Keys(G) = {} /\ "auth" \notin Keys(F)
    BY <1>2, <1>3
<1>5. IsTree(s) /\ Keys(s) = Keys(F) \cup Keys(G) /\ F \subseteq s /\ \A n \in G : n[1] # <<>> => n \in s
    BY <1>1, <1>2, <1>3, <1>4, OwnPart
<1>6. At(s, "auth") = a
    BY <1>1, <1>3, <1>4, AtRight
<1>7. Keys(s) \cap {"model", "systemSha256"} = {}
    BY <1>2, <1>3, <1>5
<1> QED
    BY <1>1, <1>5, <1>6, <1>7 DEF F, G

LEMMA CredentialSent ==
    ASSUME NEW p, Manifest(p), NEW keys, NEW w, w = credentialToAnthropicUpdate(p, keys)
    PROVE  /\ \A k \in {"displayName", "metadata"} : Below(w, {k}) = Below(p, {k})
           /\ "auth" \in Keys(w) =>
                /\ "auth" \in Keys(p)
                /\ At(w, "auth") = updateAuthUnion(At(p, "auth"), resolveVCContext(At(p, "auth"), keys))
                /\ At(w, "auth") # Nothing
<1> DEFINE K == {"displayName", "metadata"}
           a == At(p, "auth")
           ctx == resolveVCContext(a, keys)
           u == updateAuthUnion(a, ctx)
           N == NonEmpty("auth", u)
           P == Only(p, K)
<1>1. w = N ++ P
    BY DEF credentialToAnthropicUpdate
<1>2. IsTree(u)
    <2>1. IsTree(p) /\ IsTree(a) /\ Resolvable(a)
        BY AtTree, AuthResolvable DEF Manifest
    <2> QED
        BY <2>1, MadeAuth DEF Made
<1>3. Keys(N) \subseteq Keys(p) \cap {"auth"}
    BY AuthKeys
<1>4. u = Nothing => Keys(N) = {}
    BY KeysNone DEF NonEmpty
<1>5. \A k \in K : Below(P, {k}) = Below(p, {k})
    BY DEF Only, Below, Root
<1> HIDE DEF u
<1>6. Keys(N) # {} => At(N, "auth") = u
    BY <1>2, NonEmptyAt
<1>7. Keys(P) \subseteq {"displayName", "metadata"}
    BY KeysOnly
<1> HIDE DEF N, P
<1>8. ASSUME NEW k \in K PROVE Below(w, {k}) = Below(p, {k})
    <2>1. k \notin Keys(N)
        BY <1>3
    <2>2. Below(N ++ P, {k}) = Below(P, {k})
        BY <2>1, BelowRight
    <2> QED
        BY <1>1, <1>5, <2>2
<1>9. At(w, "auth") = At(N, "auth") /\ ("auth" \in Keys(w) => "auth" \in Keys(N))
    BY <1>1, <1>7, AtLeft
<1> QED
    BY <1>3, <1>4, <1>6, <1>8, <1>9 DEF u

\* What has the type of a manifest's entry has it in the same words.
LEMMA SameType ==
    ASSUME NEW a, IsTree(a), NEW W, IsTree(W), Below(W, {"type"}) = Below(a, {"type"}), Text(a, "type") # ""
    PROVE  Text(W, "type") = Text(a, "type")
<1> DEFINE n == <<(<<"type">>), Text(a, "type")>>
<1>1. n \in a
    BY TextNode
<1>2. n[1] = <<"type">> /\ n[1] # <<>> /\ Head(n[1]) = "type"
    BY PathOne
<1> HIDE DEF n
<1>3. n \in Below(W, {"type"})
    BY <1>1, <1>2 DEF Below
<1>4. n \in W
    BY <1>3 DEF Below
<1> QED
    BY <1>4, TextPath DEF n

LEMMA CredentialBack ==
    ASSUME kind = "credential", NEW x, Kept(kind, x), NEW p, Manifest(p), NEW keys,
           NEW w, w = credentialToAnthropicUpdate(p, keys), Valid(w), IsMap(w), NEW ex,
           "auth" \in Keys(w) => Text(At(w, "auth"), "type") = Text(At(x, "auth"), "type"),
           NEW s, s = credentialFromAnthropicObservation(x),
           NEW y, y = Updated(x, w, ex), NEW o, o = credentialFromAnthropicObservation(y)
    PROVE  Explained(o, p, s)
<1> DEFINE R == {"displayName"}
           O == {"metadata"}
           C == Field("auth", authFromObservation(At(y, "auth")))
<1>1. IsTree(x) /\ IsTree(y) /\ IsTree(p) /\ IsMap(p)
    BY AfterUpdate, ManifestMap DEF Kept, Valid
<1>2. /\ o = CredentialPlain(y) ++ C
      /\ CredentialPlain(x) \subseteq s /\ IsTree(s) /\ At(s, "auth") = authFromObservation(At(x, "auth"))
      /\ \A n \in Field("auth", authFromObservation(At(x, "auth"))) : n[1] # <<>> => n \in s
    BY <1>1, CredentialSeen
<1>3. IsTree(C)
    BY <1>1, AtTree, SeenAuthTree, FieldTree
<1>4. Explained(CredentialPlain(y), p, s)
    <2>1. \A k \in R \cup O : k \notin {"config", "auth"}
        OBVIOUS
    <2>2. New(w, ex) = w
        BY DEF New, Filled
    <2>3. \A k \in R \cup O : k \in Keys(w) => Below(New(w, ex), {k}) = Below(p, {k})
        BY <2>2, CredentialSent
    <2>4. Fields(x, R, O) \subseteq s /\ CredentialPlain(y) = Fields(Updated(x, w, ex), R, O)
        BY <1>2 DEF CredentialPlain
    <2> HIDE DEF R, O
    <2> QED
        BY <2>1, <2>3, <2>4, PlainBack
<1>5. Agrees(C, p, s)
    <2>1. CASE "auth" \notin Keys(w)
        <3>1. At(y, "auth") = At(x, "auth")
            BY <2>1, AfterSame
        <3> QED
            BY <1>2, <1>3, <3>1, AgreesSeen
    <2>2. CASE "auth" \in Keys(w)
        <3> DEFINE a   == At(p, "auth")
                   ctx == resolveVCContext(a, keys)
        <3>1. "auth" \in Keys(p) /\ At(w, "auth") = updateAuthUnion(a, ctx) /\ updateAuthUnion(a, ctx) # Nothing
            BY <2>2, CredentialSent
        <3> HIDE DEF ctx
        <3>2. IsTree(a) /\ \A e \in Structs("auth", a) : IsMap(e)
            BY <1>1, <3>1, AtTree DEF Manifest, Admitted
        <3>3. /\ IsMap(a)
              /\ \A k \in {"networking", "packages", "injectionLocation", "maxListCost"} : k \in Keys(a) => IsMap(At(a, k))
            BY <3>2 DEF Structs, Parts
        <3>4. /\ Text(a, "type") \in {"static_bearer", "mcp_oauth", "environment_variable"}
              /\ Text(At(w, "auth"), "type") = Text(a, "type")
            <4>1. Text(a, "type") \in {"static_bearer", "mcp_oauth", "environment_variable"}
                BY <3>1 DEF updateAuthUnion
            <4>2. Below(At(w, "auth"), {"type"}) = Below(a, {"type"})
                BY <3>1, <3>2, <3>3, <4>1, VariableSent, TokenSent
            <4>3. IsTree(At(w, "auth"))
                BY ValidAt DEF Valid
            <4>4. Text(a, "type") # ""
                BY <4>1
            <4> HIDE DEF a
            <4>5. Text(At(w, "auth"), "type") = Text(a, "type")
                BY <3>2, <4>2, <4>3, <4>4, SameType
            <4> QED
                BY <4>1, <4>5
        <3>5. Text(At(x, "auth"), "type") = Text(a, "type")
            BY <2>2, <3>4
        <3>6. Explained(authFromObservation(At(y, "auth")), a, authFromObservation(At(x, "auth")))
            BY <3>1, <3>2, <3>3, <3>4, <3>5, VariableBack, TokenBack
        <3>7. Explained(C, p, s)
            BY <1>1, <1>2, <3>6, ExplainedField
        <3> QED
            BY <3>7, ExplainedTree DEF Agrees
    <2> QED
        BY <2>1, <2>2
<1> QED
    BY <1>2, <1>4, <1>5, AgreesBoth

---------------------------------------------------------------------------
(* All kinds together. *)

\* What the status shows is a tree; only an agent's has its model and its prompt.
LEMMA SeenTree ==
    ASSUME NEW k \in DOMAIN Base, NEW x, IsTree(x), IsMap(x),
           NEW s, s = FromAnthropicObservation(k, x)
    PROVE  IsTree(s) /\ (k # "agent" => Keys(s) \cap {"model", "systemSha256"} = {})
<1>1. k \in {"agent", "deployment", "session", "environment", "credential"}
    BY KindsAssumption
<1>2. CASE k = "agent"
    <2>1. s = agentFromAnthropicObservation(x)
        BY <1>2 DEF FromAnthropicObservation
    <2> QED
        BY <1>2, <2>1, AgentSeen
<1>3. CASE k = "deployment"
    <2>1. s = deploymentFromAnthropicObservation(x)
        BY <1>3 DEF FromAnthropicObservation
    <2> QED
        BY <2>1, DeploymentSeen
<1>4. CASE k = "session"
    <2>1. s = sessionFromAnthropicObservation(x)
        BY <1>4 DEF FromAnthropicObservation
    <2> QED
        BY <2>1, SessionSeen
<1>5. CASE k = "environment"
    <2>1. s = environmentFromAnthropicObservation(x)
        BY <1>5 DEF FromAnthropicObservation
    <2> QED
        BY <2>1, EnvironmentSeen
<1>6. CASE k = "credential"
    <2>1. s = credentialFromAnthropicObservation(x)
        BY <1>6 DEF FromAnthropicObservation
    <2> QED
        BY <2>1, CredentialSeen
<1> QED
    BY <1>1, <1>2, <1>3, <1>4, <1>5, <1>6

\* After an accepted update, the status shows nothing at a path the manifest asks
\* for but what the manifest says there, or what the status showed before.
LEMMA UpdateBack ==
    ASSUME kind \in DOMAIN Base, NEW x, Kept(kind, x), NEW p, Manifest(p), NEW keys,
           NEW w, w = ToAnthropicUpdate(kind, p, keys), Valid(w), IsMap(w), NEW ex, Accepted(w, x), x # Nothing,
           NEW s, s = FromAnthropicObservation(kind, x),
           kind = "agent" =>
                /\ agentIsUpToDate(p, s, System(p, keys))
                /\ "multiagent" \in Keys(p) =>
                        \A e \in Elements(At(At(p, "multiagent"), "agents")) : Settled(e),
           NEW y, y = Updated(x, w, ex), NEW o, o = FromAnthropicObservation(kind, y)
    PROVE  /\ Explained(o, p, s)
           /\ kind = "agent" =>
                \A n \in o : n[1] # <<>> /\ Head(n[1]) \in {"model", "systemSha256"} => n \in s
<1>1. kind \in {"agent", "deployment", "session", "environment", "credential"}
    BY KindsAssumption
<1>2. CASE kind = "agent"
    <2>1. /\ s = agentFromAnthropicObservation(x) /\ o = agentFromAnthropicObservation(y)
          /\ w = agentToAnthropicUpdate(p, System(p, keys))
        BY <1>2 DEF FromAnthropicObservation, ToAnthropicUpdate
    <2> QED
        BY <1>2, <2>1, AgentBack
<1>3. CASE kind = "deployment"
    <2>1. /\ s = deploymentFromAnthropicObservation(x) /\ o = deploymentFromAnthropicObservation(y)
          /\ w = deploymentToAnthropicUpdate(p, keys)
        BY <1>3 DEF FromAnthropicObservation, ToAnthropicUpdate
    <2> QED
        BY <1>3, <2>1, DeploymentBack
<1>4. CASE kind = "session"
    <2>1. /\ s = sessionFromAnthropicObservation(x) /\ o = sessionFromAnthropicObservation(y)
          /\ w = sessionToAnthropicUpdate(p)
        BY <1>4 DEF FromAnthropicObservation, ToAnthropicUpdate
    <2> QED
        BY <1>4, <2>1, SessionBack
<1>5. CASE kind = "environment"
    <2>1. /\ s = environmentFromAnthropicObservation(x) /\ o = environmentFromAnthropicObservation(y)
          /\ w = environmentToAnthropicUpdate(p)
        BY <1>5 DEF FromAnthropicObservation, ToAnthropicUpdate
    <2> QED
        BY <1>5, <2>1, EnvironmentBack
<1>6. CASE kind = "credential"
    <2>1. /\ s = credentialFromAnthropicObservation(x) /\ o = credentialFromAnthropicObservation(y)
          /\ w = credentialToAnthropicUpdate(p, keys)
        BY <1>6 DEF FromAnthropicObservation, ToAnthropicUpdate
    <2>2. "auth" \in Keys(w) => Text(At(w, "auth"), "type") = Text(At(x, "auth"), "type")
        BY <1>6 DEF Accepted
    <2> QED
        BY <1>6, <2>1, <2>2, CredentialBack
<1> QED
    BY <1>1, <1>2, <1>3, <1>4, <1>5, <1>6

\* A value of the status that agrees with the manifest is not changed by what the
\* manifest and the status explain.
LEMMA ExplainedAgrees ==
    ASSUME NEW p, IsTree(p), NEW s, IsTree(s), IsSubsetEqual(p, s), NEW o, Explained(o, p, s),
           NEW l \in Leaves(s), l[1] \in Paths(p) \cap Paths(o)
    PROVE  l \in Leaves(o)
<1>1. l \in s /\ l[2] # "{}" /\ l[1] \in Paths(s)
    BY DEF Leaves, Paths
<1>2. PICK m \in o : m[1] = l[1]
    BY DEF Paths
<1>3. m \in p \cup s
    BY <1>1, <1>2 DEF Explained
<1>4. m = <<m[1], m[2]>>
    BY <1>3 DEF IsTree
<1>5. \A n \in s : n[1] = l[1] => n = l
    BY <1>1 DEF IsTree, Single
<1>6. ASSUME m \in p PROVE m \in s
    <2>1. SameNode(m, p, s)
        BY <1>1, <1>2, <1>6 DEF IsSubsetEqual
    <2>2. CASE m[2] = "{}"
        BY <2>1, <2>2 DEF SameNode
    <2>3. CASE m[2] = "[]"
        BY <1>4, <2>1, <2>3 DEF SameNode, SameList
    <2>4. CASE m[2] \notin {"{}", "[]"}
        <3>1. SameText(m, s)
            BY <2>1, <2>4 DEF SameNode
        <3>2. <<m[1], "{}">> \notin s
            <4> DEFINE n == <<m[1], "{}">>
            <4>1. n[1] = l[1] /\ n[2] = "{}"
                BY <1>2
            <4> HIDE DEF n
            <4>2. n \notin s
                BY <1>1, <1>5, <4>1
            <4> QED
                BY <4>2 DEF n
        <3> QED
            BY <3>1, <3>2 DEF SameText
    <2> QED
        BY <2>2, <2>3, <2>4
<1>7. m = l
    BY <1>2, <1>3, <1>5, <1>6
<1> QED
    BY <1>1, <1>2, <1>7 DEF Leaves

---------------------------------------------------------------------------
(***************************************************************************)
(* The theorem.                                                            *)
(***************************************************************************)

\* Nothing is missed: if the resource is found up to date, the update that is not
\* sent would change no value that the manifest asks for and the status shows.
THEOREM Unmissed == Spec => []NothingMissed
<1>1. IInv => NothingMissed
    <2> SUFFICES ASSUME IInv, pc = "observed", work = spec, seen = FromAnthropicObservation(kind, ext),
                        IsUpToDate(work, seen), ~Hopeless(kind, work, seen),
                        NEW w, w = ToAnthropicUpdate(kind, work, secrets), Accepted(w, ext),
                        NEW ex, NEW o, o = FromAnthropicObservation(kind, After(w, ext, ex)),
                        NEW l \in Leaves(seen), l[1] \in Paths(o),
                        l[1] \in Paths(work) \cup {<<"model", "id">>, <<"systemSha256">>}
                 PROVE  l \in Leaves(o)
        BY DEF NothingMissed
    <2>1. kind \in DOMAIN Base /\ Manifest(work) /\ ext # Nothing /\ Kept(kind, ext)
        <3>1. kind \in DOMAIN Base /\ Manifest(work) /\ Kept(kind, ext)
            BY DEF IInv, TypeOK, WorkAdmitted
        <3> QED
            BY <3>1, NotNothing DEF Kept
    <2>2. Valid(w) /\ IsMap(w)
        BY <2>1, AcceptedKept
    <2>9. o = FromAnthropicObservation(kind, Updated(ext, w, ex))
        BY <2>1, <2>2, AfterIs DEF Kept
    <2>3. IsTree(work) /\ IsTree(ext) /\ IsMap(ext) /\ IsTree(seen)
        BY <2>1, SeenTree DEF Manifest, Kept, Valid
    <2>4. kind = "agent" =>
            /\ agentIsUpToDate(work, seen, System(work, secrets))
            /\ "multiagent" \in Keys(work) =>
                    \A e \in Elements(At(At(work, "multiagent"), "agents")) : Settled(e)
        BY DEF IsUpToDate, Hopeless, Settled
    <2>5. IsSubsetEqual(work, seen)
        BY <2>4 DEF IsUpToDate, agentIsUpToDate
    <2>6. /\ Explained(o, work, seen)
          /\ kind = "agent" =>
                \A n \in o : n[1] # <<>> /\ Head(n[1]) \in {"model", "systemSha256"} => n \in seen
        BY <2>1, <2>2, <2>4, <2>9, UpdateBack
    <2>7. CASE l[1] \in Paths(work)
        BY <2>3, <2>5, <2>6, <2>7, ExplainedAgrees
    <2>8. CASE l[1] \in {<<"model", "id">>, <<"systemSha256">>}
        <3>1. l \in seen /\ l[1] # <<>> /\ Head(l[1]) \in {"model", "systemSha256"}
            <4>1. l \in seen
                BY DEF Leaves
            <4>2. \A t : t \in {<<"model", "id">>, <<"systemSha256">>} =>
                        t # <<>> /\ Head(t) \in {"model", "systemSha256"}
                OBVIOUS
            <4> QED
                BY <2>8, <4>1, <4>2
        <3>2. Head(l[1]) \in Keys(seen)
            BY <3>1 DEF Keys
        <3>3. kind = "agent"
            BY <2>1, <2>3, <3>1, <3>2, SeenTree
        <3>4. PICK m \in o : m[1] = l[1]
            BY DEF Paths
        <3>5. m \in seen
            BY <2>6, <3>1, <3>3, <3>4
        <3>6. m = l
            BY <2>3, <3>1, <3>4, <3>5 DEF IsTree, Single
        <3> QED
            BY <3>4, <3>6 DEF Leaves
    <2> QED
        BY <2>7, <2>8
<1> QED
    BY <1>1, IInvAlways, PTL
=============================================================================
