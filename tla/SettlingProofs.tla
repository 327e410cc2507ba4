--------------------------- MODULE SettlingProofs ---------------------------
(***************************************************************************)
(* Why one request is enough, for every manifest the CRD admits.  Whatever *)
(* the resource was, each field of the status shows what the request has   *)
(* put there in a form that the comparison accepts (Fits), but for what no *)
(* request can bring about; and that remains so until somebody edits the   *)
(* manifest, a Secret or the resource.                                     *)
(***************************************************************************)
EXTENDS UpdateProofs

---------------------------------------------------------------------------
(***************************************************************************)
(* What has been sent is observed.                                         *)
(***************************************************************************)

\* Other texts are told apart.
LEMMA LeafDiffers ==
    ASSUME NEW d, NEW t, <<(<<>>), t>> \in d, t \notin {"{}", "[]"}, NEW a, a # t, a # "{}"
    PROVE  ~IsSubsetEqual(d, Leaf(a))
<1> DEFINE n == <<(<<>>), t>>
           o == Leaf(a)
<1>1. n \in d /\ n[1] = <<>> /\ n[2] = t
    OBVIOUS
<1>2. <<(<<>>), a>> \in o /\ <<>> \in Paths(o)
    BY DEF Leaf, Paths
<1>3. \A m \in o : m[1] = <<>> /\ m[2] = a
    BY LeafTree
<1> HIDE DEF n, o
<1>4. <<>> \in Paths(d)
    BY <1>1 DEF Paths
<1>5. ~SameText(n, o)
    <2> DEFINE root == <<n[1], "{}">>
    <2>1. root[2] = "{}"
        OBVIOUS
    <2> HIDE DEF root
    <2>2. root \notin o
        BY <1>3, <2>1
    <2> QED
        BY <1>1, <1>3, <2>2 DEF SameText, root
<1>6. ~SameNode(n, d, o)
    BY <1>1, <1>5 DEF SameNode
<1> QED
    BY <1>1, <1>2, <1>4, <1>6 DEF IsSubsetEqual, o

\* If all other fields agree, what differs decides.
LEMMA DiffersDecides ==
    ASSUME NEW p, IsTree(p), IsMap(p), NEW s, IsTree(s), <<>> \in Paths(s) => IsMap(s),
           NEW K, \A k \in (Keys(p) \cap Keys(s)) \ K : IsSubsetEqual(At(p, k), At(s, k))
    PROVE  IsSubsetEqual(p, s) <=> ~Differs(p, s, K)
<1>1. IsSubsetEqual(p, s) <=> \A k \in Keys(p) \cap Keys(s) : IsSubsetEqual(At(p, k), At(s, k))
    BY SubsetMap
<1> QED
    BY <1>1 DEF Differs

\* A field that is sent as it is in the manifest is stored, and a map is merged.
LEMMA Arrives ==
    ASSUME NEW x, Valid(x), IsMap(x), NEW w, Valid(w), IsMap(w), NEW ex,
           NEW p, Manifest(p), NEW k \in Keys(p), k \notin Deep \/ k = "metadata",
           Below(New(w, ex), {k}) = Below(p, {k}), NEW y, y = Updated(x, w, ex)
    PROVE  /\ k \in Keys(y) /\ IsSubsetEqual(At(p, k), At(y, k))
           /\ k \notin Deep => At(y, k) = At(p, k)
<1>1. /\ IsTree(p) /\ IsTree(At(p, k)) /\ At(p, k) # {} /\ Admitted(k, At(p, k))
      /\ IsTree(y) /\ IsTree(New(w, ex)) /\ New(w, ex) \subseteq Merged(x, w, ex)
    BY ManifestMap, AtTree, AtNone, AfterUpdate DEF Manifest, Kept, Valid
<1>2. At(New(w, ex), k) = At(p, k)
    BY AtBelow
<1>3. Below(y, {k}) = Below(Merged(x, w, ex), {k})
    <2>1. k \notin {"config", "auth"}
        BY DEF Deep
    <2>2. ~ \A n \in At(p, k) : n[1] = <<>> /\ n[2] = "[]"
        BY <1>1 DEF Admitted, NoEmptyList
    <2> QED
        BY <1>2, <2>1, <2>2, AfterBelow
<1>4. CASE k \notin Deep
    <2>1. <<k>> \in Paths(New(w, ex))
        <3>1. <<>> \in Paths(At(New(w, ex), k))
            BY <1>1, <1>2 DEF Admitted, Root, Paths
        <3> QED
            BY <1>1, <3>1, PathAt, PathOne
    <2>2. Below(Merged(x, w, ex), {k}) = Below(New(w, ex), {k})
        BY <1>4, <2>1, PatchReplaced DEF Merged, Valid
    <2>3. At(y, k) = At(p, k)
        BY <1>3, <2>2, AtBelow
    <2> QED
        BY <1>1, <2>3, AtNone, SubsetSame
<1>5. CASE k = "metadata"
    <2>1. At(p, k) \subseteq At(y, k)
        <3>1. Below(p, {k}) \subseteq Below(y, {k})
            BY <1>1, <1>3 DEF Below
        <3> QED
            BY <3>1 DEF At
    <2>2. \A n \in At(p, k) : n[2] # "[]"
        <3> SUFFICES ASSUME NEW n \in At(p, k) PROVE n[2] # "[]"
            OBVIOUS
        <3> DEFINE m == At(p, k)
                   i == Head(n[1])
                   rest == <<Tail(n[1]), n[2]>>
        <3>1. IsMap(m) /\ \A e \in Elements(m) : Scalar(e)
            BY <1>1, <1>5 DEF Admitted
        <3>2. IsNode(n)
            BY <1>1, Nodes
        <3>3. CASE n[1] = <<>>
            <4>1. n \in Root(m)
                BY <3>3 DEF Root
            <4>2. \A r \in NoField : r[2] = "{}"
                BY LeafTree DEF NoField
            <4>3. Root(m) = NoField
                BY <1>1, <3>1, OneRoot
            <4>4. n[2] = "{}"
                BY <4>1, <4>2, <4>3
            <4> QED
                BY <4>4
        <3>4. CASE n[1] # <<>>
            <4>1. IsNode(rest) /\ n = Into(i, rest) /\ i \in Keys(m)
                BY <3>2, <3>4, NodeSplit DEF Keys
            <4>2. rest[2] = n[2]
                OBVIOUS
            <4> HIDE DEF rest, i, m
            <4>3. rest \in At(m, i)
                BY <1>1, <4>1, AtTree DEF m
            <4>4. Scalar(At(m, i))
                BY <3>1, <4>1 DEF Elements
            <4> QED
                BY <4>2, <4>3, <4>4 DEF Scalar
        <3> QED
            BY <3>3, <3>4
    <2>3. IsTree(At(y, k)) /\ At(y, k) # {}
        BY <1>1, <2>1, AtTree
    <2> QED
        BY <1>5, <2>1, <2>2, <2>3, AtNone, SubsetInside DEF Deep
<1> QED
    BY <1>4, <1>5

\* Such fields are mirrored as they are.
LEMMA FieldsBelow ==
    ASSUME NEW v, IsTree(v), NEW R, NEW O, NEW k \in Keys(v) \cap (R \cup O)
    PROVE  Below(Fields(v, R, O), {k}) = Below(v, {k})
<1> DEFINE nil == {<<(<<j>>), "">> : j \in R \ Keys(v)}
<1>1. \A n \in nil : n[1] # <<>> /\ Head(n[1]) # k
    <2> SUFFICES ASSUME NEW j \in R \ Keys(v) PROVE <<(<<j>>), "">>[1] # <<>> /\ Head(<<(<<j>>), "">>[1]) # k
        OBVIOUS
    <2>1. <<(<<j>>), "">>[1] = <<j>>
        OBVIOUS
    <2> QED
        BY <2>1, PathOne
<1> HIDE DEF nil
<1>2. Fields(v, R, O) = Only(v, R \cup O) \cup nil
    BY DEF Fields, nil
<1> QED
    BY <1>1, <1>2 DEF Below, Only, Root

LEMMA FieldsAt ==
    ASSUME NEW v, IsTree(v), NEW R, NEW O, NEW k \in Keys(v) \cap (R \cup O)
    PROVE  At(Fields(v, R, O), k) = At(v, k)
<1>1. Below(Fields(v, R, O), {k}) = Below(v, {k})
    BY FieldsBelow
<1> QED
    BY <1>1, AtBelow


\* What is created is what an update would ask for: a request that the API accepts
\* lacks nothing that is required.
LEMMA RequiredSent ==
    ASSUME NEW v, IsTree(v), NEW R, NEW O, NEW w, Fields(v, R, O) \subseteq w, ~Rejected(w)
    PROVE  Fields(v, R, O) = Only(v, R \cup O)
<1>1. R \subseteq Keys(v)
    <2> SUFFICES ASSUME NEW k \in R, k \notin Keys(v) PROVE FALSE
        OBVIOUS
    <2>1. <<(<<k>>), "">> \in w /\ <<(<<k>>), "">>[2] = ""
        BY DEF Fields
    <2> QED
        BY <2>1 DEF Rejected
<1> QED
    BY <1>1, FieldsFull

LEMMA LeftInside ==
    ASSUME NEW a, NEW b
    PROVE  a \subseteq a ++ b
BY DEF ++

LEMMA AgentCreated ==
    ASSUME NEW p, Manifest(p), NEW system, Valid(agentToAnthropicNew(p, system))
    PROVE  agentToAnthropicNew(p, system) = agentToAnthropicUpdate(p, system)
<1> DEFINE F == Fields(p, {"name"}, {"description", "metadata"})
           a == agentModelConfigToParam(p)
           b == NonEmpty("system", Leaf(system))
           c == agentTopology(p)
           w == agentToAnthropicNew(p, system)
<1>1. w = F ++ a ++ b ++ c
    BY DEF agentToAnthropicNew
<1>2. agentToAnthropicUpdate(p, system) = Only(p, {"name", "description", "metadata"}) ++ a ++ b ++ c
    BY DEF agentToAnthropicUpdate
<1>3. {"name"} \cup {"description", "metadata"} = {"name", "description", "metadata"}
    OBVIOUS
<1> HIDE DEF a, b, c
<1>4. F \subseteq F ++ a ++ b ++ c
    BY LeftInside
<1>5. F = Only(p, {"name"} \cup {"description", "metadata"})
    BY <1>1, <1>4, RequiredSent, ManifestMap DEF Valid
<1> QED
    BY <1>1, <1>2, <1>3, <1>5

LEMMA EnvironmentCreated ==
    ASSUME NEW p, Manifest(p), Valid(environmentToAnthropicNew(p))
    PROVE  environmentToAnthropicNew(p) = environmentToAnthropicUpdate(p)
<1> DEFINE F == Fields(p, {"name"}, {"description", "metadata", "scope"})
           a == Sub(p, "config", envCloudConfigToParam)
<1>1. environmentToAnthropicNew(p) = F ++ a
    BY DEF environmentToAnthropicNew
<1>2. environmentToAnthropicUpdate(p) = Only(p, {"name", "description", "metadata", "scope"}) ++ a
    BY DEF environmentToAnthropicUpdate
<1>3. {"name"} \cup {"description", "metadata", "scope"} = {"name", "description", "metadata", "scope"}
    OBVIOUS
<1> HIDE DEF a
<1>4. F \subseteq F ++ a
    BY LeftInside
<1>5. F = Only(p, {"name"} \cup {"description", "metadata", "scope"})
    BY <1>1, <1>4, RequiredSent, ManifestMap DEF Valid
<1> QED
    BY <1>1, <1>2, <1>3, <1>5

\* Without an agent the request has a union without a variant.
LEMMA AgentNeeded ==
    ASSUME NEW p, Manifest(p), NEW b, Valid(Field("agent", agentUnion(p)) ++ b)
    PROVE  "agentId" \in Keys(p)
<1> DEFINE n == <<(<<"agent">>), "nothing">>
<1> SUFFICES ASSUME "agentId" \notin Keys(p) PROVE FALSE
    OBVIOUS
<1>1. agentUnion(p) = Nothing
    BY ManifestMap, AgentUnionTree
<1>2. n \in Field("agent", agentUnion(p)) /\ n[2] = "nothing"
    BY <1>1, LeafField DEF Nothing
<1> HIDE DEF n
<1> QED
    BY <1>2, LeftInside DEF Valid, Rejected

LEMMA DeploymentCreated ==
    ASSUME NEW p, Manifest(p), NEW keys, Valid(deploymentToAnthropicNew(p, keys))
    PROVE  /\ "agentId" \in Keys(p)
           /\ deploymentToAnthropicNew(p, keys) = deploymentToAnthropicUpdate(p, keys)
<1> DEFINE A == Field("agent", agentUnion(p))
           F == Fields(p, {"name", "environmentId"}, {})
           c == deploymentCommon(p, keys)
           w == deploymentToAnthropicNew(p, keys)
<1>1. w = (A ++ F) ++ c
    BY DEF deploymentToAnthropicNew
<1>2. deploymentToAnthropicUpdate(p, keys) = (agentUpdate(p) ++ Only(p, {"name", "environmentId"})) ++ c
    BY DEF deploymentToAnthropicUpdate
<1>3. IsTree(p) /\ IsMap(p)
    BY ManifestMap
<1>4. Valid(A ++ F)
    <2>1. IsTree(A) /\ IsTree(F)
        BY <1>3, AgentUnionTree, FieldTree, FieldsTree
    <2> HIDE DEF A, F, c
    <2>2. A ++ F \subseteq w
        BY <1>1, LeftInside
    <2> QED
        BY <2>1, <2>2, BothTree DEF Valid, Rejected
<1>5. "agentId" \in Keys(p)
    BY <1>4, AgentNeeded
<1>6. agentUpdate(p) = A
    BY <1>5 DEF agentUpdate
<1>7. {"name", "environmentId"} \subseteq Keys(p)
    <2> SUFFICES ASSUME NEW k \in {"name", "environmentId"}, k \notin Keys(p) PROVE FALSE
        OBVIOUS
    <2> DEFINE n == <<(<<k>>), "">>
    <2>1. n \in F
        BY DEF Fields
    <2>2. n[1] = <<k>> /\ n[2] = "" /\ n[1] # <<>> /\ Head(n[1]) = k
        BY PathOne
    <2>3. Keys(A) \subseteq {"agent"}
        BY <1>3, AgentUnionTree, FieldTree
    <2> HIDE DEF n, A, F
    <2>4. k \notin Keys(A)
        BY <2>3
    <2>5. n \in A ++ F
        BY <2>1, <2>2, <2>4, BothRight
    <2> QED
        BY <1>4, <2>2, <2>5 DEF Valid, Rejected
<1>8. F = Only(p, {"name", "environmentId"})
    <2>1. {"name", "environmentId"} \cup {} = {"name", "environmentId"}
        OBVIOUS
    <2> QED
        BY <1>3, <1>7, <2>1, FieldsFull
<1> HIDE DEF A, F, c
<1> QED
    BY <1>1, <1>2, <1>5, <1>6, <1>8

\* What b shows of the fields in p is as asked for, but for the fields K.
Fits(b, p, K) ==
    IsTree(b) /\ \A k \in (Keys(p) \cap Keys(b)) \ K : IsSubsetEqual(At(p, k), At(b, k))

LEMMA FitsBoth ==
    ASSUME NEW p, NEW K, NEW a, Fits(a, p, K), NEW b, Fits(b, p, K)
    PROVE  Fits(a ++ b, p, K)
<1>1. IsTree(a ++ b) /\ Keys(a ++ b) = Keys(a) \cup Keys(b)
    BY BothTree, KeysBoth DEF Fits
<1>2. ASSUME NEW k \in (Keys(p) \cap Keys(a ++ b)) \ K PROVE IsSubsetEqual(At(p, k), At(a ++ b, k))
    <2>1. At(a ++ b, k) = IF k \in Keys(a) THEN At(a, k) ELSE At(b, k)
        BY AtBoth
    <2> QED
        BY <1>1, <2>1 DEF Fits
<1> QED
    BY <1>1, <1>2 DEF Fits

LEMMA FitsEcho ==
    ASSUME NEW p, IsTree(p), NEW K, NEW b, Echoes(b, p)
    PROVE  Fits(b, p, K)
BY SubsetByKey DEF Echoes, Fits

LEMMA FitsApart ==
    ASSUME NEW p, NEW K, NEW b, IsTree(b), Keys(p) \cap Keys(b) \subseteq K
    PROVE  Fits(b, p, K)
BY DEF Fits

LEMMA FitsField ==
    ASSUME NEW p, NEW K, NEW k, NEW v, IsTree(v), k \in Keys(p) \ K => IsSubsetEqual(At(p, k), v)
    PROVE  Fits(Field(k, v), p, K)
<1>1. IsTree(Field(k, v)) /\ Keys(Field(k, v)) \subseteq {k} /\ At(Field(k, v), k) = v
    BY FieldTree, AtField
<1> QED
    BY <1>1 DEF Fits

LEMMA FitsPlain ==
    ASSUME NEW p, NEW K, NEW y, IsTree(y), NEW R, NEW O,
           \A k \in (Keys(p) \cap (R \cup O)) \ K : k \in Keys(y) /\ IsSubsetEqual(At(p, k), At(y, k))
    PROVE  Fits(Fields(y, R, O), p, K)
<1>1. IsTree(Fields(y, R, O)) /\ Keys(Fields(y, R, O)) \subseteq R \cup O
    BY FieldsTree
<1> QED
    BY <1>1, FieldsAt DEF Fits

LEMMA FitsDecides ==
    ASSUME NEW p, IsTree(p), IsMap(p), NEW s, <<>> \in Paths(s) => IsMap(s), NEW K, Fits(s, p, K)
    PROVE  IsSubsetEqual(p, s) <=> ~Differs(p, s, K)
BY DiffersDecides DEF Fits

\* What a session is created with: as for an update, for the fields both send.
LEMMA SessionCreated ==
    ASSUME NEW p, Manifest(p), NEW keys, NEW w, w = sessionToAnthropicNew(p, keys)
    PROVE  /\ \A k \in {"title", "metadata"} \cap Keys(p) : Below(w, {k}) = Below(p, {k})
           /\ "budget" \in Keys(p) => At(w, "budget") = budgetLimitToParam(At(p, "budget"))
<1> DEFINE N == Field("agent", agentUnion(p))
           F == Fields(p, {"environmentId"}, {"title", "metadata", "vaultIds"})
           B == Sub(p, "budget", budgetLimitToParam)
           E == Each(p, "initialEvents", sessionInitialEventToParam)
           R == Resources(p, keys)
<1>1. w = N ++ F ++ B ++ E ++ R
    BY DEF sessionToAnthropicNew
<1>2. IsTree(p) /\ {"authorizationToken"} \in SUBSET Purpose
    BY ManifestMap DEF Purpose, SecretFields
<1>3. /\ Keys(N) \subseteq {"agent"} /\ Keys(B) \subseteq {"budget"}
      /\ Keys(E) \subseteq {"initialEvents"} /\ Keys(R) \subseteq {"resources"}
    BY <1>2, AgentRefKeys, MadeBudget, SentEvents, MadeResources
<1>4. /\ Keys(F) \subseteq {"environmentId", "title", "metadata", "vaultIds"}
      /\ \A k \in {"title", "metadata"} \cap Keys(p) : Below(F, {k}) = Below(p, {k})
    <2> DEFINE Q == {"environmentId"}
               O == {"title", "metadata", "vaultIds"}
    <2>1. F = Fields(p, Q, O)
        OBVIOUS
    <2>2. Q \cup O = {"environmentId", "title", "metadata", "vaultIds"}
        OBVIOUS
    <2> HIDE DEF F, Q, O
    <2>3. Keys(F) \subseteq Q \cup O
        BY <1>2, <2>1, FieldsTree
    <2>4. \A k \in Keys(p) \cap (Q \cup O) : Below(F, {k}) = Below(p, {k})
        <3> SUFFICES ASSUME NEW k \in Keys(p) \cap (Q \cup O) PROVE Below(F, {k}) = Below(p, {k})
            OBVIOUS
        <3>1. Below(Fields(p, Q, O), {k}) = Below(p, {k})
            BY <1>2, FieldsBelow
        <3> QED
            BY <2>1, <3>1
    <2> QED
        BY <2>2, <2>3, <2>4
<1>5. "budget" \in Keys(p) => At(B, "budget") = budgetLimitToParam(At(p, "budget"))
    BY <1>2, BudgetSub
<1> HIDE DEF N, F, B, E, R
<1>6. ASSUME NEW k \in {"title", "metadata"} \cap Keys(p) PROVE Below(w, {k}) = Below(p, {k})
    <2>1. k \notin Keys(N) /\ k \notin Keys(B) /\ k \notin Keys(E) /\ k \notin Keys(R)
        BY <1>3
    <2>2. /\ Below(N ++ F ++ B ++ E ++ R, {k}) = Below(N ++ F ++ B ++ E, {k})
          /\ Below(N ++ F ++ B ++ E, {k}) = Below(N ++ F ++ B, {k})
          /\ Below(N ++ F ++ B, {k}) = Below(N ++ F, {k})
        BY <2>1, BelowLeft
    <2>3. Below(N ++ F, {k}) = Below(F, {k})
        BY <2>1, BelowRight
    <2> QED
        BY <1>1, <1>4, <2>2, <2>3
<1>7. At(w, "budget") = At(B, "budget")
    <2>1. /\ At(N ++ F ++ B ++ E ++ R, "budget") = At(N ++ F ++ B ++ E, "budget")
          /\ At(N ++ F ++ B ++ E, "budget") = At(N ++ F ++ B, "budget")
        BY <1>3, AtLeft
    <2>2. "budget" \notin Keys(N ++ F)
        BY <1>3, <1>4, KeysBoth
    <2>3. At(N ++ F ++ B, "budget") = At(B, "budget")
        BY <2>2, AtRight
    <2> QED
        BY <1>1, <2>1, <2>3
<1> QED
    BY <1>5, <1>6, <1>7

LEMMA BudgetFits ==
    ASSUME kind \in {"deployment", "session"}, NEW x, Valid(x), IsMap(x), NEW p, Manifest(p), NEW K,
           NEW w, Valid(w), IsMap(w), NEW ex,
           "budget" \in Keys(p) => At(w, "budget") = budgetLimitToParam(At(p, "budget"))
    PROVE  Fits(SeenBudget(Updated(x, w, ex)), p, K)
<1> DEFINE y == Updated(x, w, ex)
<1>1. IsTree(y) /\ IsTree(p) /\ IsMap(p)
    BY AfterUpdate, ManifestMap DEF Kept, Valid
<1>2. IsTree(SeenBudget(y)) /\ Keys(SeenBudget(y)) \subseteq {"budget"}
    BY <1>1, RefParts
<1>3. CASE "budget" \in Keys(p)
    <2>1. Below(New(w, ex), {"budget"}) = Below(w, {"budget"})
        BY RefFilled
    <2>2. At(New(w, ex), "budget") = budgetLimitToParam(At(p, "budget"))
        BY <1>3, <2>1, AtBelow
    <2> QED
        BY <1>1, <1>3, <2>2, BudgetBack, FitsEcho
<1>4. CASE "budget" \notin Keys(p)
    BY <1>2, <1>4, FitsApart
<1> QED
    BY <1>3, <1>4

\* A session shows what it was sent, but for what is sent on creation only.
LEMMA SessionSettled ==
    ASSUME kind = "session", NEW x, Valid(x), IsMap(x), NEW p, Manifest(p), NEW keys,
           NEW w \in {sessionToAnthropicNew(p, keys), sessionToAnthropicUpdate(p)}, Valid(w), IsMap(w), NEW ex,
           NEW s, s = sessionFromAnthropicObservation(Updated(x, w, ex))
    PROVE  IsSubsetEqual(p, s) <=> ~Differs(p, s, {"agentId", "environmentId", "vaultIds"})
<1> DEFINE y == Updated(x, w, ex)
           K == {"agentId", "environmentId", "vaultIds"}
           R == {"title", "environmentId"}
           O == {"vaultIds", "metadata"}
<1>1. IsTree(y) /\ IsMap(y) /\ IsTree(p) /\ IsMap(p)
    BY AfterUpdate, ManifestMap DEF Kept, Valid
<1>2. s = SessionPlain(y) ++ SeenBudget(y) ++ SeenAgentId(y)
    BY <1>1, SessionSeen
<1>3. /\ \A k \in {"title", "metadata"} \cap Keys(p) : Below(w, {k}) = Below(p, {k})
      /\ "budget" \in Keys(p) => At(w, "budget") = budgetLimitToParam(At(p, "budget"))
    BY SessionSent, SessionCreated
<1>4. Fits(SessionPlain(y), p, K)
    <2>1. ASSUME NEW k \in (Keys(p) \cap (R \cup O)) \ K
          PROVE  k \in Keys(y) /\ IsSubsetEqual(At(p, k), At(y, k))
        <3>1. k \in {"title", "metadata"} \cap Keys(p)
            OBVIOUS
        <3>2. Below(New(w, ex), {k}) = Below(p, {k})
            BY <1>3, <3>1, RefFilled
        <3>3. k \in Keys(p) /\ (k \notin Deep \/ k = "metadata")
            BY <3>1 DEF Deep
        <3> QED
            BY <3>2, <3>3, Arrives
    <2>2. SessionPlain(y) = Fields(y, R, O)
        BY DEF SessionPlain
    <2> HIDE DEF R, O, K, y
    <2> QED
        BY <1>1, <2>1, <2>2, FitsPlain
<1>5. Fits(SeenBudget(y), p, K)
    BY <1>3, BudgetFits
<1>6. Fits(SeenAgentId(y), p, K)
    <2>1. IsTree(SeenAgentId(y)) /\ Keys(SeenAgentId(y)) \subseteq {"agentId"}
        BY <1>1, RefParts
    <2> QED
        BY <2>1, FitsApart
<1>7. Fits(s, p, K)
    BY <1>2, <1>4, <1>5, <1>6, FitsBoth
<1>8. IsMap(s)
    BY <1>1, MapBoth, MapOnly DEF SessionPlain, sessionFromAnthropicObservation
<1> HIDE DEF K
<1> QED
    BY <1>1, <1>7, <1>8, FitsDecides DEF K

\* A deployment shows what it was sent; a version alone is not sent.
LEMMA DeploymentSettled ==
    ASSUME kind = "deployment", NEW x, Valid(x), IsMap(x), NEW p, Manifest(p), NEW keys,
           NEW w, w = deploymentToAnthropicUpdate(p, keys), Valid(w), IsMap(w), NEW ex,
           NEW s, s = deploymentFromAnthropicObservation(Updated(x, w, ex))
    PROVE  IsSubsetEqual(p, s) <=> ~("agentId" \notin Keys(p) /\ Differs(p, s, {"agentVersion"}))
<1> DEFINE y == Updated(x, w, ex)
           K == IF "agentId" \in Keys(p) THEN {} ELSE {"agentVersion"}
           R == {"name", "description", "environmentId"}
           O == {"vaultIds", "metadata"}
<1>1. IsTree(y) /\ IsMap(y) /\ IsTree(p) /\ IsMap(p)
    BY AfterUpdate, ManifestMap DEF Kept, Valid
<1>2. s = DeploymentPlain(y) ++ SeenBudget(y) ++ SeenAgentId(y) ++ SeenAgentVersion(y) ++ SeenSchedule(y)
    BY <1>1, DeploymentSeen
<1>3. Fits(DeploymentPlain(y), p, K)
    <2>1. ASSUME NEW k \in Keys(p) \cap (R \cup O)
          PROVE  k \in Keys(y) /\ IsSubsetEqual(At(p, k), At(y, k))
        <3>1. k \in {"name", "environmentId", "description", "metadata", "vaultIds"} \cap Keys(p)
            OBVIOUS
        <3>2. Below(w, {k}) = Below(p, {k})
            BY <3>1, DeploymentSent
        <3>3. Below(New(w, ex), {k}) = Below(p, {k})
            BY <3>1, <3>2, RefFilled
        <3>4. k \in Keys(p) /\ (k \notin Deep \/ k = "metadata")
            BY <3>1 DEF Deep
        <3> QED
            BY <3>3, <3>4, Arrives
    <2>2. DeploymentPlain(y) = Fields(y, R, O)
        BY DEF DeploymentPlain
    <2> HIDE DEF R, O, K, y
    <2> QED
        BY <1>1, <2>1, <2>2, FitsPlain
<1>4. Fits(SeenBudget(y), p, K)
    BY DeploymentSent, BudgetFits
<1>5. /\ IsTree(At(At(y, "agent"), "id")) /\ IsTree(At(At(y, "agent"), "version"))
      /\ IsTree(At(p, "agentId")) /\ IsTree(At(p, "agentVersion"))
    BY <1>1, AtTree
<1>6. Fits(SeenAgentId(y), p, K) /\ Fits(SeenAgentVersion(y), p, K)
    <2>1. CASE "agentId" \in Keys(p)
        <3>1. "agent" \in Keys(w) /\ At(w, "agent") = agentUnion(p)
            BY <2>1, DeploymentSent
        <3>2. /\ At(At(y, "agent"), "id") = At(p, "agentId")
              /\ "agentVersion" \in Keys(p) => At(At(y, "agent"), "version") = At(p, "agentVersion")
            BY <2>1, <3>1, AgentRefArrives
        <3>3. /\ IsSubsetEqual(At(p, "agentId"), At(At(y, "agent"), "id"))
              /\ "agentVersion" \in Keys(p) => IsSubsetEqual(At(p, "agentVersion"), At(At(y, "agent"), "version"))
            BY <1>5, <3>2, SubsetSame
        <3> HIDE DEF y, K
        <3> QED
            BY <1>5, <3>3, FitsField DEF SeenAgentId, SeenAgentVersion
    <2>2. CASE "agentId" \notin Keys(p)
        <3>1. /\ IsTree(SeenAgentId(y)) /\ Keys(SeenAgentId(y)) \subseteq {"agentId"}
              /\ IsTree(SeenAgentVersion(y)) /\ Keys(SeenAgentVersion(y)) \subseteq {"agentVersion"}
            BY <1>1, RefParts
        <3>2. "agentVersion" \in K
            BY <2>2
        <3> HIDE DEF y, K
        <3> QED
            BY <2>2, <3>1, <3>2, FitsApart
    <2> QED
        BY <2>1, <2>2
<1>7. Fits(SeenSchedule(y), p, K)
    <2>1. IsTree(SeenSchedule(y)) /\ Keys(SeenSchedule(y)) \subseteq {"schedule"}
        BY <1>1, RefParts
    <2>2. CASE "schedule" \in Keys(p)
        <3>1. At(w, "schedule") = scheduleToParam(At(p, "schedule"))
            BY <2>2, DeploymentSent
        <3>2. Below(New(w, ex), {"schedule"}) = Below(w, {"schedule"})
            BY RefFilled
        <3>3. At(New(w, ex), "schedule") = scheduleToParam(At(p, "schedule"))
            BY <3>1, <3>2, AtBelow
        <3> QED
            BY <1>1, <2>2, <3>3, ScheduleBack, FitsEcho
    <2>3. CASE "schedule" \notin Keys(p)
        BY <2>1, <2>3, FitsApart
    <2> QED
        BY <2>2, <2>3
<1>8. IsMap(s)
    BY <1>1, MapBoth, MapOnly DEF deploymentFromAnthropicObservation
<1> HIDE DEF K, y
<1>9. Fits(s, p, K)
    BY <1>2, <1>3, <1>4, <1>6, <1>7, FitsBoth
<1>10. IsSubsetEqual(p, s) <=> ~Differs(p, s, K)
    BY <1>1, <1>8, <1>9, FitsDecides
<1> QED
    BY <1>10 DEF K, Differs

\* The networking and the packages that a config asks for are shown.
LEMMA NetworkingFits ==
    ASSUME NEW a, IsTree(a), "networking" \in Keys(a), NEW n, n = At(a, "networking"), IsMap(n),
           Text(n, "type") \in {"unrestricted", "limited"},
           NEW V, V = envNetworkingToParam(n), NEW N, N = NonEmpty("networking", V),
           NEW P, Keys(P) \subseteq {"packages"}, NEW W, W = N ++ P
    PROVE  /\ IsMap(V) /\ At(W, "networking") = V /\ "networking" \in Keys(W)
           /\ IsSubsetEqual(n, envNetworkingFromObservation(StoredNetworking(V)))
<1>1. IsTree(n)
    BY AtTree
<1>2. <<(<<"type">>), Text(n, "type")>> \in V
    <2>1. \E R, O : V = Field("type", Leaf(Text(n, "type"))) ++ Fields(n, R, O)
        BY DEF envNetworkingToParam, Variant
    <2>2. <<(<<"type">>), Text(n, "type")>> \in Field("type", Leaf(Text(n, "type")))
        BY LeafField
    <2> QED
        BY <2>1, <2>2, LeftInside
<1>3. V \notin {Empty, NoField, Nothing} /\ V # {}
    <2>1. ASSUME NEW m \in Empty \cup NoField \cup Nothing PROVE m # <<(<<"type">>), Text(n, "type")>>
        <3>1. m[1] = <<>>
            BY LeafTree DEF Empty, NoField, Nothing
        <3>2. <<(<<"type">>), Text(n, "type")>>[1] = <<"type">> /\ <<"type">> # <<>>
            BY PathOne
        <3> QED
            BY <3>1, <3>2
    <2> QED
        BY <1>2, <2>1
<1>4. IsMap(V) /\ Echoes(envNetworkingFromObservation(StoredNetworking(V)), n) /\ IsTree(V)
    BY <1>1, <1>3, EchoNetworking DEF Echoes
<1>5. N = Field("networking", V)
    BY <1>3 DEF NonEmpty
<1>6. At(W, "networking") = At(N, "networking")
    BY AtLeft
<1>7. At(N, "networking") = V
    BY <1>4, <1>5, AtField
<1> QED
    BY <1>3, <1>4, <1>6, <1>7, AtNone DEF Echoes

\* A struct is a map wherever there is anything.
Rooted(v) == <<>> \in Paths(v) => IsMap(v)

\* The packages that a config asks for are shown: all that are sent, and if none
\* is, there is none to compare.
LEMMA PackagesFit ==
    ASSUME NEW a, IsTree(a), IsMap(a), "packages" \in Keys(a), NEW k, k = At(a, "packages"), IsMap(k),
           NEW K, NEW c, IsTree(c), Rooted(At(c, "packages")),
           Keys(k) \cap Managers = {} \/ At(c, "packages") = envPackagesToParam(k)
    PROVE  Fits(SeenPackages(c), a, K)
<1>1. IsTree(k) /\ IsTree(At(c, "packages")) /\ IsTree(NoField) /\ Keys(NoField) = {}
    BY AtTree, LeafTree, KeysNone DEF NoField
<1>2. CASE At(c, "packages") = envPackagesToParam(k)
    <2> DEFINE V == envPackagesToParam(k)
    <2>1. Echoes(V, k)
        BY <1>1, EchoOnly DEF envPackagesToParam
    <2> HIDE DEF V
    <2>2. Echoes(envPackagesToParam(V), k)
        BY <1>1, <2>1, EchoPart DEF envPackagesToParam
    <2>3. SeenPackages(c) = NoField \/ SeenPackages(c) = Field("packages", envPackagesToParam(V))
        BY <1>2 DEF SeenPackages, Sub, V
    <2>4. Echoes(SeenPackages(c), a)
        BY <2>2, <2>3, EchoField, EchoNone
    <2> QED
        BY <2>4, FitsEcho
<1>3. CASE Keys(k) \cap Managers = {}
    <2> DEFINE b == At(c, "packages")
               v == envPackagesToParam(b)
    <2>1. IsTree(v) /\ Keys(v) \subseteq Managers /\ Root(v) = Root(b)
        BY <1>1, OnlyTree, KeysOnly, RootOnly DEF envPackagesToParam
    <2>2. <<>> \in Paths(v) => IsMap(v)
        <3>1. ASSUME <<>> \in Paths(v) PROVE IsMap(v)
            <4>1. PICK n \in v : n[1] = <<>>
                BY <3>1 DEF Paths
            <4>2. n \in b
                BY <2>1, <4>1 DEF Root
            <4>3. IsMap(b)
                BY <4>1, <4>2 DEF Paths, Rooted
            <4> QED
                BY <4>3, MapOnly DEF envPackagesToParam
        <3> QED
            BY <3>1
    <2> HIDE DEF v
    <2>3. IsSubsetEqual(k, v)
        BY <1>1, <1>3, <2>1, <2>2, SubsetMap
    <2>4. SeenPackages(c) = NoField \/ SeenPackages(c) = Field("packages", v)
        BY DEF SeenPackages, Sub, v
    <2>5. Fits(Field("packages", v), a, K)
        BY <2>1, <2>3, FitsField
    <2>6. Fits(NoField, a, K)
        BY <1>1, FitsApart
    <2> QED
        BY <2>4, <2>5, <2>6
<1> QED
    BY <1>2, <1>3

\* What a config asks for is shown, but for networking that it gives no type.
LEMMA ConfigFits ==
    ASSUME kind = "environment", NEW x, Valid(x), IsMap(x), NEW p, Manifest(p), "config" \in Keys(p),
           NEW a, a = At(p, "config"),
           NEW w, Valid(w), IsMap(w), NEW ex, At(w, "config") = envCloudConfigToParam(a),
           NEW c, c = At(Updated(x, w, ex), "config"), Rooted(At(c, "packages")),
           NEW K, "type" \notin Keys(At(a, "networking")) => "networking" \in K
    PROVE  Fits(SeenConfig(c), a, K)
<1> DEFINE W == At(w, "config")
           M == Patch(At(x, "config"), W, Deep)
<1>1. /\ IsTree(p) /\ IsTree(a) /\ IsMap(a) /\ IsMap(W)
      /\ \A k \in {"networking", "packages"} : k \in Keys(a) => IsTree(At(a, k)) /\ IsMap(At(a, k))
      /\ "packages" \in Keys(W) =>
           "packages" \in Keys(a) /\ At(W, "packages") = envPackagesToParam(At(a, "packages"))
    BY ConfigSent
<1>2. /\ Keys(W) \subseteq Keys(M)
      /\ "networking" \in Keys(M) =>
           At(c, "networking") = StoredNetworking(At(M, "networking")) /\ "networking" \in Keys(c)
      /\ "packages" \in Keys(M) => At(c, "packages") = At(M, "packages")
      /\ \A k : k \notin Deep /\ IsMap(At(W, k)) => At(M, k) = At(W, k)
    BY <1>1, ConfigStored
<1>3. IsTree(c)
    BY AfterUpdate, AtTree DEF Kept, Valid
<1>4. "networking" \notin Deep /\ "packages" \notin Deep
    BY DEF Deep
<1> HIDE DEF M
<1>5. Fits(SeenNetworking(c), a, K)
    <2>1. CASE "networking" \notin Keys(a) \/ "networking" \in K
        <3>1. IsTree(SeenNetworking(c)) /\ Keys(SeenNetworking(c)) \subseteq {"networking"}
            BY <1>3, ConfigParts
        <3> QED
            BY <2>1, <3>1, FitsApart
    <2>2. CASE "networking" \in Keys(a) /\ "networking" \notin K
        <3> DEFINE n == At(a, "networking")
                   V == envNetworkingToParam(n)
                   N == NonEmpty("networking", V)
                   P == Given(a, "packages", envPackagesToParam)
        <3>1. Text(n, "type") \in {"unrestricted", "limited"}
            <4>1. Networked(a)
                BY DEF Manifest, Admitted
            <4> QED
                BY <2>2, <4>1 DEF Networked, OneOf
        <3>2. Keys(P) \subseteq {"packages"}
            <4>1. ASSUME "packages" \in Keys(a) PROVE IsTree(envPackagesToParam(At(a, "packages")))
                BY <1>1, <4>1, OnlyTree DEF envPackagesToParam
            <4> QED
                BY <4>1, NonEmptyAt, KeysNone DEF Given
        <3>3. W = N ++ P
            BY <2>2 DEF envCloudConfigToParam, Given
        <3>4. IsMap(n)
            BY <1>1, <2>2
        <3>9. n = At(a, "networking") /\ V = envNetworkingToParam(n) /\ N = NonEmpty("networking", V)
            OBVIOUS
        <3> HIDE DEF n, V, N, P, W
        <3>5. /\ IsMap(V) /\ At(W, "networking") = V /\ "networking" \in Keys(W)
              /\ IsSubsetEqual(n, envNetworkingFromObservation(StoredNetworking(V)))
            BY <1>1, <2>2, <3>1, <3>2, <3>3, <3>4, <3>9, NetworkingFits
        <3>6. At(c, "networking") = StoredNetworking(V) /\ "networking" \in Keys(c)
            BY <1>2, <1>4, <3>5
        <3> DEFINE v == envNetworkingFromObservation(StoredNetworking(V))
        <3>7. SeenNetworking(c) = Field("networking", v)
            BY <3>6 DEF SeenNetworking, Sub
        <3>8. IsTree(v)
            <4>1. IsTree(At(c, "networking"))
                BY <1>3, AtTree
            <4> QED
                BY <3>6, <4>1, OnlyTree DEF envNetworkingFromObservation
        <3> HIDE DEF v
        <3> QED
            BY <3>5, <3>7, <3>8, FitsField DEF v, n
    <2> QED
        BY <2>1, <2>2
<1>6. Fits(SeenPackages(c), a, K)
    <2>1. CASE "packages" \notin Keys(a)
        <3>1. IsTree(SeenPackages(c)) /\ Keys(SeenPackages(c)) \subseteq {"packages"}
            BY <1>3, ConfigParts
        <3> QED
            BY <2>1, <3>1, FitsApart
    <2>2. CASE "packages" \in Keys(a)
        <3> DEFINE k == At(a, "packages")
                   V == envPackagesToParam(k)
                   N == Given(a, "networking", envNetworkingToParam)
                   P == NonEmpty("packages", V)
        <3>1. IsTree(k) /\ IsMap(k) /\ IsTree(V) /\ IsMap(V) /\ Keys(V) = Keys(k) \cap Managers
            BY <1>1, <2>2, OnlyTree, MapOnly, KeysOnly DEF envPackagesToParam
        <3>2. W = N ++ P
            BY <2>2 DEF envCloudConfigToParam, Given
        <3>3. CASE "packages" \in Keys(W)
            <4>1. At(W, "packages") = V
                BY <1>1, <3>3
            <4>2. At(c, "packages") = V
                BY <1>2, <1>4, <3>1, <3>3, <4>1
            <4> QED
                BY <1>1, <1>3, <2>2, <3>1, <4>2, PackagesFit
        <3>4. CASE "packages" \notin Keys(W)
            <4>1. "packages" \notin Keys(P)
                BY <3>2, <3>4, KeysBoth
            <4>2. V # {}
                BY <3>1 DEF IsMap
            <4> HIDE DEF V
            <4>3. V \in {Empty, NoField, Nothing}
                BY <3>1, <4>1, <4>2, FieldHas DEF NonEmpty
            <4>4. Keys(V) = {}
                BY <4>3, KeysNone
            <4>5. Keys(k) \cap Managers = {}
                BY <3>1, <4>4
            <4> QED
                BY <1>1, <1>3, <2>2, <3>1, <4>5, PackagesFit
        <3> QED
            BY <3>3, <3>4
    <2> QED
        BY <2>1, <2>2
<1> QED
    BY <1>5, <1>6, FitsBoth DEF SeenConfig

\* An environment shows what it was sent, but for networking without a type.
LEMMA EnvironmentSettled ==
    ASSUME kind = "environment", NEW x, Valid(x), IsMap(x), NEW p, Manifest(p),
           NEW w, w = environmentToAnthropicUpdate(p), Valid(w), IsMap(w), NEW ex,
           NEW y, y = Updated(x, w, ex), Rooted(At(At(y, "config"), "packages")),
           NEW s, s = environmentFromAnthropicObservation(y),
           NEW a, a = At(p, "config"), NEW b, b = At(s, "config")
    PROVE  IsSubsetEqual(p, s) <=>
                ~("type" \notin Keys(At(a, "networking")) /\ Differs(a, b, {"networking"}))
<1> DEFINE R == {"name", "description"}
           O == {"metadata", "scope"}
           c == At(y, "config")
           K == IF "type" \notin Keys(At(a, "networking")) THEN {"networking"} ELSE {}
<1>1. IsTree(y) /\ IsMap(y) /\ IsTree(p) /\ IsMap(p) /\ IsTree(a) /\ IsTree(c)
    BY AfterUpdate, ManifestMap, AtTree DEF Kept, Valid
<1>2. /\ s = EnvironmentPlain(y) ++ Field("config", SeenConfig(c))
      /\ b = SeenConfig(c) /\ IsTree(s)
    BY <1>1, EnvironmentSeen
<1>3. IsTree(b) /\ IsMap(b)
    BY <1>1, <1>2, ConfigParts
<1>4. Fits(EnvironmentPlain(y), p, {"config"})
    <2>1. ASSUME NEW k \in (Keys(p) \cap (R \cup O)) \ {"config"}
          PROVE  k \in Keys(y) /\ IsSubsetEqual(At(p, k), At(y, k))
        <3>1. k \in {"name", "description", "metadata", "scope"} \cap Keys(p)
            OBVIOUS
        <3>2. New(w, ex) = w
            BY DEF New, Filled
        <3>3. Below(New(w, ex), {k}) = Below(p, {k})
            BY <3>1, <3>2, EnvironmentSent
        <3>4. k \in Keys(p) /\ (k \notin Deep \/ k = "metadata")
            BY <3>1 DEF Deep
        <3> QED
            BY <3>3, <3>4, Arrives
    <2>2. EnvironmentPlain(y) = Fields(y, R, O)
        BY DEF EnvironmentPlain
    <2> HIDE DEF R, O
    <2> QED
        BY <1>1, <2>1, <2>2, FitsPlain
<1> HIDE DEF c
<1>5. CASE "config" \notin Keys(p)
    <2>1. Fits(Field("config", b), p, {})
        BY <1>3, <1>5, FitsField
    <2>2. Fits(EnvironmentPlain(y), p, {})
        BY <1>4, <1>5 DEF Fits
    <2>3. IsMap(s)
        BY <1>1, MapBoth, MapOnly DEF environmentFromAnthropicObservation
    <2>4. Fits(s, p, {})
        BY <1>2, <2>1, <2>2, FitsBoth
    <2>5. IsSubsetEqual(p, s) <=> ~Differs(p, s, {})
        BY <1>1, <2>3, <2>4, FitsDecides
    <2>6. a = {} /\ Keys(a) = {}
        BY <1>5, AtNone DEF Keys
    <2> QED
        BY <2>5, <2>6 DEF Differs
<1>6. CASE "config" \in Keys(p)
    <2>1. At(w, "config") = envCloudConfigToParam(a)
        BY <1>6, EnvironmentSent
    <2>2. "type" \notin Keys(At(a, "networking")) => "networking" \in K
        OBVIOUS
    <2> HIDE DEF K
    <2>3. Fits(b, a, K)
        BY <1>2, <1>6, <2>1, <2>2, ConfigFits DEF c
    <2>4. IsMap(a)
        BY <1>6, ConfigSent
    <2>5. IsSubsetEqual(a, b) <=> ~Differs(a, b, K)
        BY <1>1, <1>3, <2>3, <2>4, FitsDecides
    <2>6. Fits(Field("config", b), p, {"config"})
        BY <1>3, FitsField
    <2>7. Fits(s, p, {"config"})
        BY <1>2, <1>4, <2>6, FitsBoth
    <2>8. IsMap(s)
        BY <1>1, MapBoth, MapOnly DEF environmentFromAnthropicObservation
    <2>9. IsSubsetEqual(p, s) <=> ~Differs(p, s, {"config"})
        BY <1>1, <2>7, <2>8, FitsDecides
    <2>10. "config" \in Keys(s)
        <3>1. b # {}
            BY <1>3 DEF IsMap
        <3> QED
            BY <3>1, AtNone
    <2>11. Differs(p, s, {"config"}) <=> ~IsSubsetEqual(a, b)
        BY <1>6, <2>10 DEF Differs
    <2>12. IsSubsetEqual(p, s) <=> ~Differs(a, b, K)
        BY <2>5, <2>9, <2>11
    <2> QED
        BY <2>12 DEF K, Differs
<1> QED
    BY <1>5, <1>6

\* What a request says of an auth: its type, and of a variable also the networking
\* and where it is injected, if there is anything to say.
Delivers(W, a) ==
    /\ IsMap(W) /\ At(W, "type") \in {At(a, "type"), Leaf(Text(a, "type"))}
    /\ Text(a, "type") = "environment_variable" =>
        LET V == networkingUnion(At(a, "networking"))
            J == injectionLocation(At(a, "injectionLocation"))
        IN  /\ "networking" \in Keys(a) /\ V # Nothing => At(W, "networking") = V
            /\ "injectionLocation" \in Keys(a) /\ Keys(J) # {} => At(W, "injectionLocation") = J

LEMMA TypeLeads ==
    ASSUME NEW A, IsMap(A), "type" \in Keys(A), NEW b, NEW c, NEW d,
           NEW W \in {A ++ b, A ++ b ++ c, A ++ b ++ c ++ d}
    PROVE  IsMap(W) /\ At(W, "type") = At(A, "type")
<1>1. At(A ++ b, "type") = At(A, "type") /\ "type" \in Keys(A ++ b) /\ IsMap(A ++ b)
    BY AtBoth, KeysBoth, MapBoth
<1>2. At((A ++ b) ++ c, "type") = At(A, "type") /\ "type" \in Keys((A ++ b) ++ c) /\ IsMap((A ++ b) ++ c)
    BY <1>1, AtBoth, KeysBoth, MapBoth
<1>3. At(((A ++ b) ++ c) ++ d, "type") = At(A, "type") /\ IsMap(((A ++ b) ++ c) ++ d)
    BY <1>2, AtBoth, MapBoth
<1> QED
    BY <1>1, <1>2, <1>3

LEMMA VariantLeads ==
    ASSUME NEW t, NEW a, IsTree(a), NEW R, NEW O, NEW A, A = Variant(t, a, R, O)
    PROVE  IsMap(A) /\ "type" \in Keys(A) /\ At(A, "type") = Leaf(t) /\ Keys(A) \subseteq {"type"} \cup R \cup O
<1> DEFINE L == Leaf(t)
           F == Fields(a, R, O)
<1>1. IsTree(L) /\ L # {}
    BY LeafTree DEF Leaf
<1>2. A = Field("type", L) ++ F
    BY DEF Variant
<1>3. Keys(F) \subseteq R \cup O
    BY FieldsTree
<1> HIDE DEF L, F
<1>4. "type" \in Keys(Field("type", L) ++ F) /\ At(Field("type", L) ++ F, "type") = L
    BY <1>1, AtFirst
<1>5. IsMap(Field("type", L)) /\ Keys(Field("type", L)) \subseteq {"type"}
    BY <1>1, FieldTree
<1>6. IsMap(Field("type", L) ++ F) /\ Keys(Field("type", L) ++ F) = Keys(Field("type", L)) \cup Keys(F)
    BY <1>5, MapBoth, KeysBoth
<1> QED
    BY <1>2, <1>3, <1>4, <1>5, <1>6 DEF L

LEMMA OnlyLeads ==
    ASSUME NEW a, IsMap(a), "type" \in Keys(a), NEW K, "type" \in K
    PROVE  IsMap(Only(a, K)) /\ "type" \in Keys(Only(a, K)) /\ At(Only(a, K), "type") = At(a, "type")
<1>1. Keys(Only(a, K)) = Keys(a) \cap K
    BY KeysOnly
<1>2. At(Only(a, K), "type") = At(a, "type")
    BY AtOnly
<1> QED
    BY <1>1, <1>2, MapOnly

LEMMA VariableParts ==
    ASSUME NEW A, IsMap(A), "type" \in Keys(A), Keys(A) \subseteq {"type", "secretName"},
           NEW B, Keys(B) \subseteq {"secretValue"}, NEW N, Keys(N) \subseteq {"networking"},
           NEW I, Keys(I) \subseteq {"injectionLocation"}, NEW W, W = A ++ B ++ N ++ I
    PROVE  /\ IsMap(W) /\ At(W, "type") = At(A, "type")
           /\ At(W, "networking") = At(N, "networking")
           /\ At(W, "injectionLocation") = At(I, "injectionLocation")
<1>1. IsMap(W) /\ At(W, "type") = At(A, "type")
    BY TypeLeads
<1>2. Keys(A ++ B) = Keys(A) \cup Keys(B) /\ Keys((A ++ B) ++ N) = Keys(A) \cup Keys(B) \cup Keys(N)
    BY KeysBoth
<1>3. "networking" \notin Keys(A ++ B) /\ "networking" \notin Keys(I)
    BY <1>2
<1>4. At((A ++ B) ++ N, "networking") = At(N, "networking")
    BY <1>3, AtRight
<1>5. At(((A ++ B) ++ N) ++ I, "networking") = At((A ++ B) ++ N, "networking")
    BY <1>3, AtLeft
<1>6. "injectionLocation" \notin Keys((A ++ B) ++ N)
    BY <1>2
<1>7. At(((A ++ B) ++ N) ++ I, "injectionLocation") = At(I, "injectionLocation")
    BY <1>6, AtRight
<1> QED
    BY <1>1, <1>4, <1>5, <1>7

LEMMA SecretKeys ==
    ASSUME NEW ctx, NEW k
    PROVE  Keys(Secret(ctx, k)) \subseteq {k} /\ Keys(OptionalSecret(ctx, k)) \subseteq {k}
<1>1. IsTree(Leaf(ctx[k]))
    BY LeafTree
<1> QED
    BY <1>1, FieldTree, NonEmptyAt DEF Secret, OptionalSecret

LEMMA LimitsTree ==
    ASSUME NEW n, IsTree(n)
    PROVE  IsTree(networkingUnion(n)) /\ networkingUnion(n) # {}
<1>1. \A t, L : IsTree(Variant(t, n, {}, L))
    BY LeafField, FieldsTree, BothTree DEF Variant
<1>2. \A t, L : Variant(t, n, {}, L) # {}
    BY VariantLeads DEF IsMap
<1>3. IsTree(Nothing) /\ Nothing # {}
    BY LeafTree DEF Nothing, Leaf
<1> QED
    BY <1>1, <1>2, <1>3 DEF networkingUnion

\* Where a variable is injected, as sent.
LEMMA LocationSent ==
    ASSUME NEW a, IsTree(a), NEW I, I = Given(a, "injectionLocation", injectionLocation),
           NEW J, J = injectionLocation(At(a, "injectionLocation"))
    PROVE  /\ Keys(I) \subseteq {"injectionLocation"}
           /\ "injectionLocation" \in Keys(a) /\ Keys(J) # {} => At(I, "injectionLocation") = J
<1>1. IsTree(J)
    BY AtTree, OnlyTree DEF injectionLocation
<1>2. CASE "injectionLocation" \in Keys(a)
    <2>1. I = NonEmpty("injectionLocation", J)
        BY <1>2 DEF Given
    <2>2. Keys(I) \subseteq {"injectionLocation"}
        BY <1>1, <2>1, NonEmptyAt
    <2>3. ASSUME Keys(J) # {} PROVE At(I, "injectionLocation") = J
        <3>1. J \notin {Empty, NoField, Nothing}
            BY <2>3, KeysNone
        <3>2. I = Field("injectionLocation", J)
            BY <2>1, <3>1 DEF NonEmpty
        <3> QED
            BY <1>1, <3>2, AtField
    <2> QED
        BY <2>2, <2>3
<1>3. CASE "injectionLocation" \notin Keys(a)
    BY <1>3, KeysNone DEF Given
<1> QED
    BY <1>2, <1>3

LEMMA NewDelivers ==
    ASSUME NEW a, IsTree(a), IsMap(a), NEW ctx, NEW W, W = newAuthUnion(a, ctx),
           Text(a, "type") \in {"static_bearer", "mcp_oauth", "environment_variable"}
    PROVE  Delivers(W, a)
<1>1. CASE Text(a, "type") = "static_bearer"
    <2> DEFINE A == Variant("static_bearer", a, {"mcpServerUrl"}, {})
               B == Secret(ctx, "token")
    <2>1. W = A ++ B
        BY <1>1 DEF newAuthUnion
    <2>2. IsMap(A) /\ "type" \in Keys(A) /\ At(A, "type") = Leaf("static_bearer")
        BY VariantLeads
    <2> HIDE DEF A, B
    <2>3. IsMap(W) /\ At(W, "type") = At(A, "type")
        BY <2>1, <2>2, TypeLeads
    <2> QED
        BY <1>1, <2>2, <2>3 DEF Delivers
<1>2. CASE Text(a, "type") = "mcp_oauth"
    <2> DEFINE A == Variant("mcp_oauth", a, {"mcpServerUrl"}, Expiry(a))
               B == Secret(ctx, "accessToken")
               C == IF "refresh" \in Keys(a) THEN Field("refresh", newRefresh(At(a, "refresh"), ctx)) ELSE NoField
    <2>1. W = A ++ B ++ C
        BY <1>2 DEF newAuthUnion, Sub
    <2>2. IsMap(A) /\ "type" \in Keys(A) /\ At(A, "type") = Leaf("mcp_oauth")
        BY VariantLeads
    <2> HIDE DEF A, B, C
    <2>3. IsMap(W) /\ At(W, "type") = At(A, "type")
        BY <2>1, <2>2, TypeLeads
    <2> QED
        BY <1>2, <2>2, <2>3 DEF Delivers
<1>3. CASE Text(a, "type") = "environment_variable"
    <2> DEFINE n == At(a, "networking")
               V == networkingUnion(n)
               U == IF "networking" \in Keys(a) THEN V ELSE Nothing
               J == injectionLocation(At(a, "injectionLocation"))
               R == {"secretName"}
               A == Variant("environment_variable", a, R, {})
               B == Secret(ctx, "secretValue")
               N == Field("networking", U)
               I == Given(a, "injectionLocation", injectionLocation)
    <2>1. W = A ++ B ++ N ++ I
        BY <1>3 DEF newAuthUnion, Needed
    <2>2. /\ IsMap(A) /\ "type" \in Keys(A) /\ At(A, "type") = Leaf("environment_variable")
          /\ Keys(A) \subseteq {"type", "secretName"}
        <3>1. A = Variant("environment_variable", a, R, {})
            OBVIOUS
        <3>2. {"type"} \cup R \cup {} = {"type", "secretName"}
            OBVIOUS
        <3> HIDE DEF A, R
        <3>3. /\ IsMap(A) /\ "type" \in Keys(A) /\ At(A, "type") = Leaf("environment_variable")
              /\ Keys(A) \subseteq {"type"} \cup R \cup {}
            BY <3>1, VariantLeads
        <3> QED
            BY <3>2, <3>3
    <2>3. Keys(B) \subseteq {"secretValue"}
        BY SecretKeys
    <2>4. IsTree(U)
        BY AtTree, LimitsTree, LeafTree DEF Nothing
    <2>5. Keys(N) \subseteq {"networking"} /\ At(N, "networking") = U
        BY <2>4, FieldTree, AtField
    <2>6. /\ Keys(I) \subseteq {"injectionLocation"}
          /\ "injectionLocation" \in Keys(a) /\ Keys(J) # {} => At(I, "injectionLocation") = J
        BY LocationSent
    <2> HIDE DEF A, B, N, I
    <2>7. /\ IsMap(W) /\ At(W, "type") = At(A, "type") /\ At(W, "networking") = At(N, "networking")
          /\ At(W, "injectionLocation") = At(I, "injectionLocation")
        BY <2>1, <2>2, <2>3, <2>5, <2>6, VariableParts
    <2> QED
        BY <1>3, <2>2, <2>5, <2>6, <2>7 DEF Delivers
<1> QED
    BY <1>1, <1>2, <1>3

LEMMA UpdateDelivers ==
    ASSUME NEW a, IsTree(a), IsMap(a), NEW ctx, NEW W, W = updateAuthUnion(a, ctx),
           Text(a, "type") \in {"static_bearer", "mcp_oauth", "environment_variable"}
    PROVE  Delivers(W, a)
<1>0. "type" \in Keys(a)
    BY TextNode
<1>1. CASE Text(a, "type") = "static_bearer"
    <2> DEFINE A == Only(a, {"type"})
               B == OptionalSecret(ctx, "token")
    <2>1. W = A ++ B
        BY <1>1 DEF updateAuthUnion
    <2>2. IsMap(A) /\ "type" \in Keys(A) /\ At(A, "type") = At(a, "type")
        BY <1>0, OnlyLeads
    <2> HIDE DEF A, B
    <2>3. IsMap(W) /\ At(W, "type") = At(A, "type")
        BY <2>1, <2>2, TypeLeads
    <2> QED
        BY <1>1, <2>2, <2>3 DEF Delivers
<1>2. CASE Text(a, "type") = "mcp_oauth"
    <2> DEFINE A == Only(a, {"type"} \cup Expiry(a))
               B == OptionalSecret(ctx, "accessToken")
               u == updateRefresh(At(a, "refresh"), ctx)
               C == IF "refresh" \in Keys(a) THEN NonEmpty("refresh", u) ELSE NoField
    <2>1. W = A ++ B ++ C
        BY <1>2 DEF updateAuthUnion, Given
    <2>2. IsMap(A) /\ "type" \in Keys(A) /\ At(A, "type") = At(a, "type")
        BY <1>0, OnlyLeads
    <2> HIDE DEF A, B, C
    <2>3. IsMap(W) /\ At(W, "type") = At(A, "type")
        BY <2>1, <2>2, TypeLeads
    <2> QED
        BY <1>2, <2>2, <2>3 DEF Delivers
<1>3. CASE Text(a, "type") = "environment_variable"
    <2> DEFINE n == At(a, "networking")
               V == networkingUnion(n)
               J == injectionLocation(At(a, "injectionLocation"))
               A == Only(a, {"type"})
               B == OptionalSecret(ctx, "secretValue")
               N == Given(a, "networking", networkingUnion)
               I == Given(a, "injectionLocation", injectionLocation)
    <2>1. W = A ++ B ++ N ++ I
        BY <1>3 DEF updateAuthUnion
    <2>2. IsMap(A) /\ "type" \in Keys(A) /\ At(A, "type") = At(a, "type") /\ Keys(A) \subseteq {"type", "secretName"}
        <3>1. Keys(A) \subseteq {"type"}
            BY KeysOnly
        <3> QED
            BY <1>0, <3>1, OnlyLeads
    <2>3. Keys(B) \subseteq {"secretValue"}
        BY SecretKeys
    <2>4. IsTree(n) /\ IsTree(V) /\ V # {}
        BY AtTree, LimitsTree
    <2>5. /\ Keys(N) \subseteq {"networking"}
          /\ "networking" \in Keys(a) /\ V # Nothing => At(N, "networking") = V
        <3>1. CASE "networking" \in Keys(a)
            <4>1. N = NonEmpty("networking", V)
                BY <3>1 DEF Given
            <4>2. V # Nothing => V \notin {Empty, NoField, Nothing}
                <5>1. V # Nothing => "type" \in Keys(V)
                    <6>1. \A t, L : "type" \in Keys(Variant(t, n, {}, L))
                        BY <2>4, VariantLeads
                    <6> QED
                        BY <6>1 DEF networkingUnion
                <5> QED
                    BY <5>1, KeysNone
            <4> HIDE DEF V, N
            <4>3. Keys(N) \subseteq {"networking"}
                BY <2>4, <4>1, NonEmptyAt
            <4>4. V # Nothing => N = Field("networking", V)
                BY <4>1, <4>2 DEF NonEmpty
            <4> QED
                BY <2>4, <4>3, <4>4, AtField
        <3>2. CASE "networking" \notin Keys(a)
            BY <3>2, KeysNone DEF Given
        <3> QED
            BY <3>1, <3>2
    <2>6. /\ Keys(I) \subseteq {"injectionLocation"}
          /\ "injectionLocation" \in Keys(a) /\ Keys(J) # {} => At(I, "injectionLocation") = J
        BY LocationSent
    <2> HIDE DEF A, B, N, I
    <2>7. /\ IsMap(W) /\ At(W, "type") = At(A, "type") /\ At(W, "networking") = At(N, "networking")
          /\ At(W, "injectionLocation") = At(I, "injectionLocation")
        BY <2>1, <2>2, <2>3, <2>5, <2>6, VariableParts
    <2> QED
        BY <1>3, <2>2, <2>5, <2>6, <2>7 DEF Delivers
<1> QED
    BY <1>1, <1>2, <1>3

\* The type that is sent is the one of the resource.
LEMMA TypeArrives ==
    ASSUME NEW a, IsTree(a), NEW t \in {"static_bearer", "mcp_oauth", "environment_variable"}, Text(a, "type") = t,
           NEW W, IsTree(W), At(W, "type") \in {At(a, "type"), Leaf(t)},
           NEW M, IsTree(M), "type" \notin Deep /\ <<"type">> \in Paths(W) => Below(M, {"type"}) = Below(W, {"type"})
    PROVE  Text(M, "type") = t /\ "type" \in Keys(M) /\ IsSubsetEqual(At(a, "type"), At(M, "type"))
<1> DEFINE r == <<(<<>>), t>>
<1>0. <<(<<"type">>), t>>[1] = <<"type">>
    OBVIOUS
<1>1. IsNode(r) /\ Into("type", r) = <<(<<"type">>), t>>
    BY PathOne DEF IsNode, Into
<1>2. Into("type", r) \in a
    BY <1>1, TextNode
<1>3. r \in Leaf(t)
    BY DEF Leaf
<1> HIDE DEF r
<1>4. r \in At(a, "type")
    BY <1>1, <1>2, AtTree
<1>5. Into("type", r) \in W
    BY <1>1, <1>3, <1>4, AtTree
<1>6. <<"type">> \in Paths(W) /\ "type" \notin Deep
    <2>1. <<"type">> \in Paths(W)
        BY <1>0, <1>1, <1>5 DEF Paths
    <2> QED
        BY <2>1 DEF Deep
<1>7. At(M, "type") = At(W, "type")
    BY <1>6, AtBelow
<1>8. r \in At(M, "type")
    BY <1>3, <1>4, <1>7
<1>9. <<(<<"type">>), t>> \in M
    <2>1. Into("type", r) \in M
        BY <1>1, <1>8, AtTree
    <2> QED
        BY <1>1, <2>1
<1>10. Text(M, "type") = t /\ "type" \in Keys(M)
    <2>1. Text(M, "type") = t
        BY <1>9, TextPath
    <2>2. "type" \in Keys(M)
        BY <1>8, AtNone
    <2> QED
        BY <2>1, <2>2
<1>11. IsSubsetEqual(At(a, "type"), At(M, "type"))
    <2>1. IsTree(At(a, "type"))
        BY AtTree
    <2>2. IsSubsetEqual(At(a, "type"), At(a, "type"))
        BY <2>1, SubsetSame
    <2>3. IsSubsetEqual(At(a, "type"), Leaf(t))
        BY TextSubset
    <2> QED
        BY <1>7, <2>2, <2>3
<1> QED
    BY <1>10, <1>11

\* Where a variable is injected is merged into what the resource has.
LEMMA LocationArrives ==
    ASSUME NEW il, IsTree(il), IsMap(il), Keys(il) \subseteq {"body", "header"},
           \A e \in Elements(il) : Scalar(e),
           NEW G, IsTree(G), injectionLocation(il) \subseteq G
    PROVE  IsSubsetEqual(il, G)
<1>1. injectionLocation(il) = il
    <2>1. ASSUME NEW n \in il PROVE n \in Only(il, {"body", "header"})
        <3>1. CASE n[1] = <<>>
            BY <3>1 DEF Only, Root
        <3>2. CASE n[1] # <<>>
            <4>1. Head(n[1]) \in Keys(il)
                BY <3>2 DEF Keys
            <4> QED
                BY <3>2, <4>1 DEF Only, Below
        <3> QED
            BY <3>1, <3>2
    <2>2. Only(il, {"body", "header"}) \subseteq il
        BY OnlyTree
    <2> QED
        BY <2>1, <2>2 DEF injectionLocation
<1>2. ASSUME NEW n \in il PROVE n[2] # "[]"
    <2>1. IsNode(n)
        BY Nodes
    <2>2. CASE n[1] = <<>>
        <3>1. n \in NoField
            BY <2>2, OneRoot DEF Root
        <3> QED
            BY <3>1, LeafTree DEF NoField
    <2>3. CASE n[1] # <<>>
        <3> DEFINE k == Head(n[1])
                   m == <<Tail(n[1]), n[2]>>
        <3>1. IsNode(m) /\ n = Into(k, m) /\ k \in Keys(il)
            BY <2>1, <2>3, NodeSplit DEF Keys
        <3>2. m \in At(il, k)
            BY <3>1, AtTree
        <3>3. Scalar(At(il, k))
            BY <3>1 DEF Elements
        <3>4. m[2] # "[]"
            BY <3>2, <3>3 DEF Scalar
        <3> QED
            BY <3>4
    <2> QED
        BY <2>2, <2>3
<1> QED
    BY <1>1, <1>2, SubsetInside

\* The auth of a manifest, as the API server admits it.
AuthAdmitted(a) ==
    /\ IsTree(a) /\ IsMap(a) /\ Networked(a)
    /\ OneOf(a, "type", {"static_bearer", "mcp_oauth", "environment_variable"})
    /\ \A k \in {"networking", "injectionLocation"} : k \in Keys(a) => IsTree(At(a, k)) /\ IsMap(At(a, k))
    /\ Keys(At(a, "injectionLocation")) \subseteq {"body", "header"}
    /\ \A e \in Elements(At(a, "injectionLocation")) : Scalar(e)

LEMMA ManifestAuth ==
    ASSUME NEW p, Manifest(p), "auth" \in Keys(p), NEW a, a = At(p, "auth")
    PROVE  AuthAdmitted(a)
<1>1. Admitted("auth", a) /\ IsTree(a)
    BY ManifestMap, AtTree DEF Manifest
<1>2. IsMap(a)
    BY <1>1 DEF Admitted, Structs
<1>3. ASSUME NEW k \in {"networking", "injectionLocation"}, k \in Keys(a) PROVE IsTree(At(a, k)) /\ IsMap(At(a, k))
    <2>1. At(a, k) \in Parts(a, {"networking", "packages", "injectionLocation", "maxListCost"})
        BY <1>3 DEF Parts
    <2>2. \A e \in Structs("auth", a) : IsMap(e)
        BY <1>1 DEF Admitted
    <2> QED
        BY <1>1, <2>1, <2>2, AtTree DEF Structs
<1>4. /\ Networked(a) /\ OneOf(a, "type", {"static_bearer", "mcp_oauth", "environment_variable"})
      /\ Keys(At(a, "injectionLocation")) \subseteq {"body", "header"}
      /\ \A e \in Elements(At(a, "injectionLocation")) : Scalar(e)
    BY <1>1 DEF Admitted
<1> QED
    BY <1>1, <1>2, <1>3, <1>4 DEF AuthAdmitted

\* What an auth with a type asks for is shown, but for what cannot be changed and
\* for networking that it gives no type.
LEMMA AuthFits ==
    ASSUME kind = "credential", NEW x, Valid(x), IsMap(x), NEW a, AuthAdmitted(a), "type" \in Keys(a),
           NEW w, Valid(w), IsMap(w), NEW ex, Delivers(At(w, "auth"), a),
           NEW A, A = At(Updated(x, w, ex), "auth"), Rooted(At(A, "injectionLocation")),
           NEW K, {"mcpServerUrl", "secretName"} \subseteq K,
           "type" \notin Keys(At(a, "networking")) => "networking" \in K
    PROVE  Fits(authFromObservation(A), a, K)
<1> DEFINE W == At(w, "auth")
           M == Patch(At(x, "auth"), W, Deep)
           t == Text(a, "type")
           k == "injectionLocation"
<1>1. /\ A = StoredAuth(M) /\ Valid(M) /\ IsMap(M) /\ Valid(W)
      /\ \A j : j \notin Deep /\ <<j>> \in Paths(W) => Below(M, {j}) = Below(W, {j})
      /\ \A j : j \in Deep /\ <<j>> \in Paths(W) => At(M, j) = Patch(At(At(x, "auth"), j), At(W, j), Deep)
    BY AuthMerged DEF Delivers
<1>2. IsTree(M) /\ IsTree(W) /\ IsTree(A) /\ IsTree(a) /\ IsMap(a)
    BY <1>1, AuthValid DEF Valid, AuthAdmitted
<1>3. t \in {"static_bearer", "mcp_oauth", "environment_variable"}
    BY DEF AuthAdmitted, OneOf
<1> HIDE DEF M, W
<1>4. Text(M, "type") = t /\ "type" \in Keys(M) /\ IsSubsetEqual(At(a, "type"), At(M, "type"))
    <2>1. At(W, "type") \in {At(a, "type"), Leaf(t)}
        BY DEF Delivers, W
    <2> HIDE DEF t
    <2>3. Text(a, "type") = t
        BY DEF t
    <2> QED
        <3>1. "type" \notin Deep /\ <<"type">> \in Paths(W) => Below(M, {"type"}) = Below(W, {"type"})
            BY <1>1
        <3> QED
            BY <1>2, <1>3, <2>1, <2>3, <3>1, TypeArrives
<1>5. CASE t # "environment_variable"
    <2> DEFINE R == {"type", "mcpServerUrl"}
               b == Fields(A, R, {})
    <2>1. A = M /\ authFromObservation(A) = b
        BY <1>1, <1>4, <1>5 DEF StoredAuth, authFromObservation
    <2>2. ASSUME NEW j \in (Keys(a) \cap (R \cup {})) \ K PROVE j \in Keys(A) /\ IsSubsetEqual(At(a, j), At(A, j))
        <3>1. j = "type"
            OBVIOUS
        <3> QED
            BY <1>4, <2>1, <3>1
    <2> HIDE DEF R
    <2>3. Fits(Fields(A, R, {}), a, K)
        BY <1>2, <2>2, FitsPlain
    <2> QED
        BY <2>1, <2>3
<1>6. CASE t = "environment_variable"
    <2> DEFINE given == IF k \in Keys(M) THEN At(M, k) ELSE NoField
               FB == Field("body", Leaf("false"))
               FH == Field("header", Leaf("true"))
               g == given ++ FB ++ FH
               L == {"type", "secretName", "networking", k}
               il == At(a, k)
               n == At(a, "networking")
    <2>1. A = Field(k, g) ++ M
        BY <1>1, <1>4, <1>6 DEF StoredAuth
    <2>2. IsTree(given) /\ IsTree(FB) /\ IsTree(FH) /\ given \subseteq g
        <3>1. IsTree(NoField) /\ IsTree(At(M, k)) /\ IsTree(Leaf("false")) /\ IsTree(Leaf("true"))
            BY <1>2, AtTree, LeafTree DEF NoField
        <3>2. IsTree(given)
            BY <3>1
        <3>3. IsTree(FB) /\ IsTree(FH)
            BY <3>1, FieldTree
        <3> HIDE DEF given, FB, FH
        <3>4. given \subseteq given ++ FB /\ given ++ FB \subseteq (given ++ FB) ++ FH
            BY LeftInside
        <3> QED
            BY <3>2, <3>3, <3>4
    <2>3. IsTree(g)
        <3> HIDE DEF given, FB, FH
        <3>1. IsTree(given ++ FB)
            BY <2>2, BothTree
        <3> QED
            BY <2>2, <3>1, BothTree
    <2>4. Keys(Field(k, g)) \subseteq {k}
        BY <2>3, FieldTree
    <2> HIDE DEF g
    <2>5. \A j : j # k => At(A, j) = At(M, j) /\ (j \in Keys(A) <=> j \in Keys(M))
        BY <2>1, <2>4, AtRight
    <2>6. At(A, k) = IF g # {} THEN g ELSE At(M, k)
        <3>1. g # {} => At(Field(k, g) ++ M, k) = g
            BY <2>3, AtFirst
        <3>2. g = {} => k \notin Keys(Field(k, g))
            <4>1. At(Field(k, g), k) = g
                BY <2>3, AtField
            <4> QED
                BY <4>1, AtNone
        <3>3. g = {} => At(Field(k, g) ++ M, k) = At(M, k)
            BY <3>2, AtRight
        <3> QED
            BY <2>1, <3>1, <3>3
    <2>7. At(M, k) \subseteq At(A, k)
        BY <2>2, <2>6, AtNone
    <2>8. authFromObservation(A) = Only(A, L)
        <3>1. At(A, "type") = At(M, "type")
            BY <2>5
        <3>2. Text(A, "type") = "environment_variable"
            BY <1>2, <1>4, <1>6, <3>1, TextAt
        <3> QED
            BY <3>2 DEF authFromObservation
    <2>9. "type" \in Keys(a) \cap Keys(A) => IsSubsetEqual(At(a, "type"), At(A, "type"))
        BY <1>4, <2>5
    <2>10. ASSUME "networking" \in Keys(a) \ K PROVE IsSubsetEqual(n, At(A, "networking"))
        <3> DEFINE V == networkingUnion(n)
        <3>1. IsTree(n) /\ IsMap(n) /\ Text(n, "type") \in {"unrestricted", "limited"}
            BY <2>10 DEF AuthAdmitted, Networked, OneOf
        <3>2. V # Nothing
            <4>1. \A u, O : Variant(u, n, {}, O) # Nothing
                <5>1. \A u, O : "type" \in Keys(Variant(u, n, {}, O))
                    BY <3>1, VariantLeads
                <5> QED
                    BY <5>1, KeysNone
            <4> QED
                BY <3>1, <4>1 DEF networkingUnion
        <3>3. IsMap(V) /\ Echoes(V, n)
            BY <3>1, <3>2, EchoLimits
        <3>4. At(W, "networking") = V
            BY <1>6, <2>10, <3>2 DEF Delivers, W
        <3>5. <<"networking">> \in Paths(W) /\ "networking" \notin Deep
            BY <1>2, <3>3, <3>4, MapPath DEF Deep
        <3>6. At(M, "networking") = V
            BY <1>1, <3>4, <3>5, AtBelow
        <3> QED
            BY <2>5, <3>3, <3>6 DEF Echoes
    <2>11. ASSUME k \in Keys(a) PROVE IsSubsetEqual(il, At(A, k))
        <3>1. /\ IsTree(il) /\ IsMap(il) /\ Keys(il) \subseteq {"body", "header"}
              /\ \A e \in Elements(il) : Scalar(e)
            BY <2>11 DEF AuthAdmitted
        <3>2. IsTree(At(A, k))
            BY <1>2, AtTree
        <3>3. CASE Keys(il) = {}
            <4>1. <<>> \in Paths(At(A, k)) => IsMap(At(A, k))
                BY DEF Rooted
            <4> QED
                BY <3>1, <3>2, <3>3, <4>1, SubsetMap
        <3>4. CASE Keys(il) # {}
            <4> DEFINE J == injectionLocation(il)
            <4>1. Keys(J) # {} /\ IsMap(J)
                <5>1. Keys(J) = Keys(il) \cap {"body", "header"}
                    BY KeysOnly DEF injectionLocation
                <5> QED
                    BY <3>1, <3>4, <5>1, MapOnly DEF injectionLocation
            <4>2. At(W, k) = J
                BY <1>6, <2>11, <4>1 DEF Delivers, W
            <4>3. <<k>> \in Paths(W) /\ k \in Deep
                BY <1>2, <4>1, <4>2, MapPath DEF Deep
            <4>4. J \subseteq At(M, k)
                BY <1>1, <4>2, <4>3 DEF Patch
            <4>5. J \subseteq At(A, k)
                BY <2>7, <4>4
            <4> QED
                BY <3>1, <3>2, <4>5, LocationArrives
        <3> QED
            BY <3>3, <3>4
    <2>12. ASSUME NEW j \in (Keys(a) \cap Keys(Only(A, L))) \ K
           PROVE  IsSubsetEqual(At(a, j), At(Only(A, L), j))
        <3>1. j \in L /\ j \in Keys(A)
            BY KeysOnly
        <3>2. At(Only(A, L), j) = At(A, j)
            BY <3>1, AtOnly
        <3>3. j \in {"type", "networking", k}
            BY <3>1
        <3> QED
            BY <2>9, <2>10, <2>11, <3>1, <3>2, <3>3
    <2>13. IsTree(Only(A, L))
        BY <1>2, OnlyTree
    <2> QED
        BY <2>8, <2>12, <2>13 DEF Fits
<1> QED
    BY <1>5, <1>6

\* The fields of an auth that an update does not change.
Fixed(a) ==
    {"mcpServerUrl", "secretName"}
        \cup (IF "type" \notin Keys(a) \/ "type" \notin Keys(At(a, "networking")) THEN {"networking"} ELSE {})
        \cup (IF "type" \notin Keys(a) THEN {"injectionLocation"} ELSE {})

\* A request for a credential has the plain fields, and what its type asks for.
LEMMA CredentialDelivers ==
    ASSUME NEW p, Manifest(p), NEW keys,
           NEW w \in {credentialToAnthropicNew(p, keys), credentialToAnthropicUpdate(p, keys)}
    PROVE  /\ \A k \in {"displayName", "metadata"} : Below(w, {k}) = Below(p, {k})
           /\ "auth" \in Keys(p) /\ "type" \in Keys(At(p, "auth")) => Delivers(At(w, "auth"), At(p, "auth"))
<1> DEFINE K == {"displayName", "metadata"}
           a == At(p, "auth")
           ctx == resolveVCContext(a, keys)
           u == updateAuthUnion(a, ctx)
           v == newAuthUnion(a, ctx)
           P == Only(p, K)
<1>1. w \in {Field("auth", v) ++ P, NonEmpty("auth", u) ++ P}
    BY DEF credentialToAnthropicNew, credentialToAnthropicUpdate
<1>2. IsTree(u) /\ IsTree(v) /\ IsTree(a)
    <2>1. IsTree(p) /\ IsTree(a) /\ Resolvable(a)
        BY AtTree, AuthResolvable DEF Manifest
    <2> QED
        BY <2>1, MadeAuth DEF Made
<1>3. \A k \in K : Below(P, {k}) = Below(p, {k})
    BY DEF Only, Below, Root
<1>4. ASSUME "auth" \in Keys(p), "type" \in Keys(a) PROVE Delivers(u, a) /\ Delivers(v, a)
    <2>1. AuthAdmitted(a)
        BY <1>4, ManifestAuth
    <2>2. Text(a, "type") \in {"static_bearer", "mcp_oauth", "environment_variable"} /\ IsMap(a)
        BY <1>4, <2>1 DEF AuthAdmitted, OneOf
    <2> QED
        BY <1>2, <2>2, NewDelivers, UpdateDelivers
<1> HIDE DEF u, v
<1>5. /\ Keys(Field("auth", v)) \subseteq {"auth"} /\ Keys(NonEmpty("auth", u)) \subseteq {"auth"}
    BY <1>2, FieldTree, NonEmptyAt
<1> HIDE DEF P
<1>6. ASSUME NEW k \in K PROVE Below(w, {k}) = Below(p, {k})
    <2>1. k \notin Keys(Field("auth", v)) /\ k \notin Keys(NonEmpty("auth", u))
        BY <1>5
    <2>2. Below(Field("auth", v) ++ P, {k}) = Below(P, {k}) /\ Below(NonEmpty("auth", u) ++ P, {k}) = Below(P, {k})
        BY <2>1, BelowRight
    <2> QED
        BY <1>1, <1>3, <2>2
<1>7. ASSUME "auth" \in Keys(p), "type" \in Keys(a) PROVE Delivers(At(w, "auth"), a)
    <2>1. Delivers(u, a) /\ Delivers(v, a)
        BY <1>4, <1>7
    <2>2. u # {} /\ v # {}
        BY <2>1 DEF Delivers, IsMap
    <2>3. u \notin {Empty, NoField, Nothing}
        <3>1. At(u, "type") # {}
            <4>1. At(a, "type") # {}
                BY <1>7, AtNone
            <4>2. \A t : Leaf(t) # {}
                BY DEF Leaf
            <4> QED
                BY <2>1, <4>1, <4>2 DEF Delivers
        <3>2. "type" \in Keys(u)
            BY <3>1, AtNone
        <3> QED
            BY <3>2, KeysNone
    <2>4. NonEmpty("auth", u) = Field("auth", u)
        BY <2>3 DEF NonEmpty
    <2>5. At(Field("auth", v) ++ P, "auth") = v /\ At(Field("auth", u) ++ P, "auth") = u
        BY <1>2, <2>2, AtFirst
    <2> QED
        BY <1>1, <2>1, <2>4, <2>5
<1> QED
    BY <1>6, <1>7

\* A credential shows what it was sent, but for what cannot be changed.
LEMMA CredentialSettled ==
    ASSUME kind = "credential", NEW x, Valid(x), IsMap(x), NEW p, Manifest(p), NEW keys,
           NEW w \in {credentialToAnthropicNew(p, keys), credentialToAnthropicUpdate(p, keys)},
           Valid(w), IsMap(w), NEW ex, NEW y, y = Updated(x, w, ex),
           Rooted(At(y, "auth")), Rooted(At(At(y, "auth"), "injectionLocation")),
           NEW s, s = credentialFromAnthropicObservation(y),
           NEW a, a = At(p, "auth"), NEW b, b = At(s, "auth")
    PROVE  IsSubsetEqual(p, s) <=> ~Differs(a, b, Fixed(a))
<1> DEFINE R == {"displayName"}
           O == {"metadata"}
           A == At(y, "auth")
           K == Fixed(a)
<1>1. IsTree(y) /\ IsMap(y) /\ IsTree(p) /\ IsMap(p) /\ IsTree(a) /\ IsTree(A)
    BY AfterUpdate, ManifestMap, AtTree DEF Kept, Valid
<1>2. /\ s = CredentialPlain(y) ++ Field("auth", authFromObservation(A))
      /\ b = authFromObservation(A)
    BY <1>1, CredentialSeen
<1>3. IsTree(b)
    BY <1>1, <1>2, SeenAuthTree
<1>4. Fits(CredentialPlain(y), p, {"auth"})
    <2>1. ASSUME NEW k \in (Keys(p) \cap (R \cup O)) \ {"auth"}
          PROVE  k \in Keys(y) /\ IsSubsetEqual(At(p, k), At(y, k))
        <3>1. k \in {"displayName", "metadata"} \cap Keys(p)
            OBVIOUS
        <3>2. New(w, ex) = w
            BY DEF New, Filled
        <3>3. Below(New(w, ex), {k}) = Below(p, {k})
            BY <3>1, <3>2, CredentialDelivers
        <3>4. k \in Keys(p) /\ (k \notin Deep \/ k = "metadata")
            BY <3>1 DEF Deep
        <3> QED
            BY <3>3, <3>4, Arrives
    <2>2. CredentialPlain(y) = Fields(y, R, O)
        BY DEF CredentialPlain
    <2> HIDE DEF R, O
    <2> QED
        BY <1>1, <2>1, <2>2, FitsPlain
<1>5. IsMap(s)
    BY <1>1, MapBoth, MapOnly DEF credentialFromAnthropicObservation
<1> HIDE DEF A, K
<1>6. CASE "auth" \notin Keys(p)
    <2>1. Fits(Field("auth", b), p, {})
        BY <1>3, <1>6, FitsField
    <2>2. Fits(CredentialPlain(y), p, {})
        BY <1>4, <1>6 DEF Fits
    <2>3. Fits(s, p, {})
        BY <1>2, <2>1, <2>2, FitsBoth
    <2>4. IsSubsetEqual(p, s) <=> ~Differs(p, s, {})
        BY <1>1, <1>5, <2>3, FitsDecides
    <2>5. a = {} /\ Keys(a) = {}
        BY <1>6, AtNone DEF Keys
    <2> QED
        BY <2>4, <2>5 DEF Differs
<1>7. CASE "auth" \in Keys(p)
    <2>1. AuthAdmitted(a)
        BY <1>7, ManifestAuth
    <2>2. Fits(b, a, K)
        <3>1. CASE "type" \notin Keys(a)
            <4>1. Keys(b) \subseteq {"type", "secretName", "networking", "injectionLocation", "mcpServerUrl"}
                <5>1. Keys(Only(A, {"type", "secretName", "networking", "injectionLocation"}))
                        \subseteq {"type", "secretName", "networking", "injectionLocation"}
                    BY KeysOnly
                <5>2. Keys(Fields(A, {"type", "mcpServerUrl"}, {})) \subseteq {"type", "mcpServerUrl"} \cup {}
                    BY <1>1, FieldsTree DEF A
                <5> QED
                    BY <1>2, <5>1, <5>2 DEF authFromObservation
            <4>2. Keys(a) \cap Keys(b) \subseteq K
                BY <3>1, <4>1 DEF K, Fixed
            <4> QED
                BY <1>3, <4>2, FitsApart
        <3>2. CASE "type" \in Keys(a)
            <4>1. Delivers(At(w, "auth"), a)
                BY <1>7, <3>2, CredentialDelivers
            <4>2. {"mcpServerUrl", "secretName"} \subseteq K
                BY DEF K, Fixed
            <4>3. "type" \notin Keys(At(a, "networking")) => "networking" \in K
                BY DEF K, Fixed
            <4>4. A = At(Updated(x, w, ex), "auth") /\ Rooted(At(A, "injectionLocation"))
                BY DEF A
            <4>5. Fits(authFromObservation(A), a, K)
                BY <2>1, <3>2, <4>1, <4>2, <4>3, <4>4, AuthFits
            <4> QED
                BY <1>2, <4>5
        <3> QED
            BY <3>1, <3>2
    <2>3. IsMap(a)
        BY <2>1 DEF AuthAdmitted
    <2>4. <<>> \in Paths(b) => IsMap(b)
        <3>1. ASSUME <<>> \in Paths(b) PROVE IsMap(b)
            <4> DEFINE L == {"type", "secretName", "networking", "injectionLocation"}
                       F == {"type", "mcpServerUrl"}
            <4>1. PICK n \in b : n[1] = <<>>
                BY <3>1 DEF Paths
            <4>2. b = Only(A, L) \/ b = Fields(A, F, {})
                BY <1>2 DEF authFromObservation
            <4> HIDE DEF L, F
            <4>3. \A k : <<(<<k>>), "">>[1] # <<>>
                BY PathOne
            <4>4. n \in A
                BY <4>1, <4>2, <4>3 DEF Fields, Only, Root, Below
            <4>5. IsMap(A)
                BY <4>1, <4>4 DEF Rooted, Paths, A
            <4> QED
                BY <4>2, <4>5, MapOnly
        <3> QED
            BY <3>1
    <2>5. IsSubsetEqual(a, b) <=> ~Differs(a, b, K)
        BY <1>1, <2>2, <2>3, <2>4, FitsDecides
    <2>6. Fits(Field("auth", b), p, {"auth"})
        BY <1>3, FitsField
    <2>7. Fits(s, p, {"auth"})
        BY <1>2, <1>4, <2>6, FitsBoth
    <2>8. IsSubsetEqual(p, s) <=> ~Differs(p, s, {"auth"})
        BY <1>1, <1>5, <2>7, FitsDecides
    <2>9. Differs(p, s, {"auth"}) <=> ~IsSubsetEqual(a, b)
        <3>1. "auth" \in Keys(s) <=> b # {}
            BY AtNone
        <3>2. b = {} => IsSubsetEqual(a, b)
            BY DEF IsSubsetEqual, Paths
        <3> QED
            BY <1>7, <3>1, <3>2 DEF Differs
    <2> QED
        BY <2>5, <2>8, <2>9 DEF K
<1> QED
    BY <1>6, <1>7

\* The model that is stored is the one that was sent.
LEMMA ModelStored ==
    ASSUME kind = "agent", NEW x, Valid(x), IsMap(x), NEW p, Manifest(p), NEW keys,
           NEW w, w = agentToAnthropicUpdate(p, System(p, keys)), Valid(w), IsMap(w), NEW ex,
           Keys(p) \cap {"model", "modelEffort", "modelInferenceGeo"} # {},
           NEW I, I = Field("id", Leaf(Text(p, "model"))),
           NEW V, V = I ++ Only(p, {"modelEffort", "modelInferenceGeo"})
    PROVE  /\ At(Updated(x, w, ex), "model") = V
           /\ IsTree(V) /\ IsMap(V) /\ <<(<<"id">>), Text(p, "model")>> \in V /\ Keys(I) \subseteq {"id"}
<1> DEFINE t      == Text(p, "model")
           fields == {"modelEffort", "modelInferenceGeo"}
<1>1. /\ IsTree(p) /\ IsMap(p) /\ At(w, "model") = At(agentModelConfigToParam(p), "model")
    BY ManifestMap, AgentSent
<1>2. IsTree(I) /\ IsMap(I) /\ Keys(I) \subseteq {"id"} /\ <<(<<"id">>), t>> \in I
    <2>1. IsTree(I) /\ IsMap(I) /\ Keys(I) \subseteq {"id"}
        BY LeafNodes
    <2>2. <<(<<"id">>), t>> \in I
        BY LeafField
    <2> QED
        BY <2>1, <2>2
<1>3. IsTree(Only(p, fields))
    BY <1>1, OnlyTree
<1>4. IsTree(V) /\ IsMap(V) /\ I \subseteq V
    BY <1>2, <1>3, BothTree, MapBoth
<1>5. At(w, "model") = V
    <2>1. agentModelConfigToParam(p) = Field("model", V)
        BY DEF agentModelConfigToParam
    <2> QED
        BY <1>1, <1>4, <2>1, AtField
<1>6. At(New(w, ex), "model") = V
    BY <1>5, AgentAt
<1>7. Root(V) # {} /\ "model" \notin Deep
    BY <1>4, MapRoot, LeafTree DEF Root, NoField, Deep, Leaf
<1>8. At(Updated(x, w, ex), "model") = V
    BY <1>4, <1>6, <1>7, AfterPart
<1> QED
    BY <1>2, <1>4, <1>8

\* Whatever the manifest says of the model is shown.
LEMMA ModelFits ==
    ASSUME kind = "agent", NEW x, Valid(x), IsMap(x), NEW p, Manifest(p), NEW keys,
           NEW w, w = agentToAnthropicUpdate(p, System(p, keys)), Valid(w), IsMap(w), NEW ex,
           NEW y, y = Updated(x, w, ex)
    PROVE  Fits(SeenModel(y), p, {}) /\ Fits(SeenSettings(y), p, {})
<1> DEFINE t      == Text(p, "model")
           fields == {"modelEffort", "modelInferenceGeo"}
           I      == Field("id", Leaf(t))
           V      == I ++ Only(p, fields)
           m      == At(y, "model")
           C      == NoField ++ Only(m, {"id"})
<1>1. IsTree(y) /\ IsTree(m) /\ IsTree(p)
    BY AfterUpdate, ManifestMap, AtTree DEF Kept, Valid
<1>2. IsTree(C) /\ NoField \subseteq C /\ IsTree(Only(m, fields)) /\ Keys(Only(m, fields)) \subseteq fields
    <2>1. IsTree(NoField) /\ IsTree(Only(m, {"id"}))
        BY <1>1, OnlyTree, LeafTree DEF NoField
    <2>2. IsTree(C) /\ NoField \subseteq C
        BY <2>1, BothTree
    <2>3. IsTree(Only(m, fields)) /\ Keys(Only(m, fields)) \subseteq fields
        BY <1>1, OnlyTree, KeysOnly
    <2> QED
        BY <2>2, <2>3
<1>3. SeenModel(y) = Field("model", C) /\ SeenSettings(y) = Only(m, fields)
    BY DEF SeenModel, SeenSettings
<1>4. ASSUME Keys(p) \cap {"model", "modelEffort", "modelInferenceGeo"} # {}
      PROVE  m = V /\ IsMap(V) /\ <<(<<"id">>), t>> \in V /\ Keys(I) \subseteq {"id"}
    BY <1>4, ModelStored
<1> HIDE DEF I, V, m
<1>5. ASSUME "model" \in Keys(p) PROVE IsSubsetEqual(At(p, "model"), C)
    <2> DEFINE d == At(p, "model")
               node == <<(<<"id">>), t>>
               root == <<(<<>>), "{}">>
    <2>1. m = V /\ node \in V
        BY <1>4, <1>5
    <2>2. root \in C
        BY <1>2 DEF NoField, Leaf
    <2>3. node \in C
        <3>1. node[1] = <<"id">> /\ node[1] # <<>> /\ Head(node[1]) = "id"
            BY PathOne
        <3>2. Keys(NoField) = {}
            BY KeysNone
        <3> HIDE DEF node
        <3>3. node \in Only(m, {"id"})
            BY <2>1, <3>1 DEF Only, Below
        <3> QED
            BY <3>1, <3>2, <3>3, BothRight
    <2>4. IsTree(d) /\ Scalar(d)
        BY <1>1, <1>5, AtTree DEF Manifest, Admitted
    <2>5. ASSUME NEW n \in d PROVE SameNode(n, d, C)
        <3>1. n[1] = <<>> /\ n[2] \notin {"{}", "[]"}
            BY <2>4 DEF Scalar
        <3>2. n[2] = t
            <4> DEFINE l == <<(<<>>), t>>
            <4>1. l[1] = <<>> /\ l[2] = t
                OBVIOUS
            <4>2. l \in d
                BY <1>1, <3>1, TextThere DEF Paths
            <4> HIDE DEF l
            <4> QED
                BY <2>4, <3>1, <4>1, <4>2 DEF IsTree, Single
        <3>3. Append(n[1], "id") = <<"id">>
            BY <3>1, PathOne
        <3>4. <<n[1], "{}">> \in C /\ <<Append(n[1], "id"), n[2]>> \in C
            BY <2>2, <2>3, <3>1, <3>2, <3>3
        <3>5. SameText(n, C)
            BY <3>4 DEF SameText
        <3> QED
            BY <3>1, <3>5 DEF SameNode
    <2> HIDE DEF C
    <2> QED
        BY <2>5 DEF IsSubsetEqual
<1>6. Fits(SeenModel(y), p, {})
    <2> HIDE DEF C
    <2> QED
        BY <1>2, <1>3, <1>5, FitsField
<1>7. ASSUME NEW k \in fields \cap Keys(p)
      PROVE  IsSubsetEqual(At(p, k), At(Only(m, fields), k))
    <2>1. m = V /\ k \notin Keys(I)
        BY <1>4
    <2>2. At(V, k) = At(Only(p, fields), k)
        BY <2>1, AtRight DEF V
    <2>3. At(Only(p, fields), k) = At(p, k) /\ At(Only(m, fields), k) = At(m, k)
        BY AtOnly
    <2> QED
        BY <1>1, <2>1, <2>2, <2>3, AtTree, SubsetSame
<1>8. Fits(SeenSettings(y), p, {})
    <2> HIDE DEF fields
    <2> QED
        BY <1>2, <1>3, <1>7 DEF Fits
<1> QED
    BY <1>6, <1>8

\* Trees with two texts at the same key differ.
LEMMA TextDiffers ==
    ASSUME NEW e, IsTree(e), IsMap(e), NEW k, NEW t, Text(e, k) = t, t # "", t \notin {"{}", "[]"},
           NEW g, IsTree(g), NEW a, At(g, k) = Leaf(a), a # t, a # "{}"
    PROVE  ~IsSubsetEqual(e, g)
<1> DEFINE root == <<(<<>>), t>>
<1>1. <<(<<k>>), t>> \in e /\ k \in Keys(e)
    BY TextNode
<1>2. IsNode(root) /\ Into(k, root) = <<(<<k>>), t>>
    BY PathOne DEF IsNode, Into
<1>3. root \in At(e, k)
    BY <1>1, <1>2, AtTree
<1>4. ~IsSubsetEqual(At(e, k), Leaf(a))
    BY <1>3, LeafDiffers
<1>5. Leaf(a) # {}
    BY DEF Leaf
<1>6. k \in Keys(e) \cap Keys(g)
    BY <1>1, <1>5, AtNone
<1>7. ~IsSubsetEqual(At(e, k), At(g, k))
    BY <1>4
<1>8. IsSubsetEqual(e, g) => \A i \in Keys(e) \cap Keys(g) : IsSubsetEqual(At(e, i), At(g, i))
    BY SubsetMap
<1> QED
    BY <1>6, <1>7, <1>8

\* What is not settled in a roster is seen otherwise than asked for.
LEMMA RosterDiffers ==
    ASSUME NEW e, IsTree(e), IsMap(e), RosterEntry(e), ~Settled(e),
           NEW g, g = rosterEntryFromObservation(StoredRosterEntry(agentRosterEntryToParam(e))), IsTree(g)
    PROVE  ~IsSubsetEqual(e, g)
<1> DEFINE a  == agentRosterEntryToParam(e)
           r  == StoredRosterEntry(a)
           latest == Field("version", Leaf("latest"))
<1>1. \A k, v : /\ IsTree(Field(k, Leaf(v))) /\ Keys(Field(k, Leaf(v))) = {k}
                /\ Text(Field(k, Leaf(v)), k) = v /\ At(Field(k, Leaf(v)), k) = Leaf(v)
    <2> SUFFICES ASSUME NEW k, NEW v
                 PROVE  /\ IsTree(Field(k, Leaf(v))) /\ Keys(Field(k, Leaf(v))) = {k}
                        /\ Text(Field(k, Leaf(v)), k) = v /\ At(Field(k, Leaf(v)), k) = Leaf(v)
        OBVIOUS
    <2>1. IsTree(Field(k, Leaf(v))) /\ <<(<<k>>), v>> \in Field(k, Leaf(v))
        BY LeafField
    <2>2. Leaf(v) # {} /\ IsTree(Leaf(v))
        BY LeafTree DEF Leaf
    <2> QED
        BY <2>1, <2>2, FieldHas, TextPath, AtField
<1>2. \A t, R, O : Text(Variant(t, e, R, O), "type") = t
    BY <1>1, TextBoth DEF Variant
<1>3. CASE Text(e, "type") = "agent" /\ Text(e, "id") = OwnId
    <2>1. a = Variant("agent", e, {"id"}, {"version"})
        BY <1>3 DEF agentRosterEntryToParam
    <2>2. Text(a, "type") = "agent"
        BY <1>2, <2>1
    <2>3. r = a ++ latest
        BY <2>2 DEF StoredRosterEntry
    <2>4. Text(a, "id") = OwnId
        <3>1. Text(a, "id") = Text(Fields(e, {"id"}, {"version"}), "id")
            BY <1>1, <2>1, TextBoth DEF Variant
        <3>2. <<(<<"id">>), OwnId>> \in e
            BY <1>3, TextAssumption, TextNode
        <3>3. <<(<<"id">>), OwnId>> \in Fields(e, {"id"}, {"version"})
            <4>1. <<(<<"id">>), OwnId>>[1] = <<"id">> /\ <<"id">> # <<>> /\ Head(<<"id">>) = "id"
                BY PathOne
            <4> QED
                BY <3>2, <4>1 DEF Fields, Only, Below
        <3> QED
            BY <3>1, <3>3, FieldsTree, TextPath
    <2>5. "type" \in Keys(a) /\ "id" \in Keys(a)
        <3>1. "type" \in Keys(a)
            BY <1>1, <2>1, KeysBoth DEF Variant
        <3>2. IsTree(a)
            <4>1. IsTree(Field("type", Leaf("agent"))) /\ IsTree(Fields(e, {"id"}, {"version"}))
                BY <1>1, FieldsTree
            <4> QED
                BY <2>1, <4>1, BothTree DEF Variant
        <3>3. "id" \in Keys(a)
            BY <2>4, <3>2, TextAssumption, TextNode
        <3> QED
            BY <3>1, <3>3
    <2>6. Text(r, "type") = "agent" /\ Text(r, "id") = OwnId
        BY <2>2, <2>3, <2>4, <2>5, TextBoth
    <2>7. g = Field("type", Leaf("self")) ++ Only(r, {"id", "version"})
        BY <2>6 DEF rosterEntryFromObservation
    <2>8. At(g, "type") = Leaf("self")
        BY <1>1, <2>7, AtBoth
    <2> QED
        BY <1>3, <2>8, TextDiffers
<1>4. CASE Text(e, "type") = "self" /\ ("version" \in Keys(e) \/ ~OneOf(e, "id", {OwnId}))
    <2> DEFINE own == Field("id", Leaf(OwnId)) ++ Field("type", Leaf("agent"))
    <2>1. a = Variant("self", e, {}, {})
        BY <1>4 DEF agentRosterEntryToParam
    <2>2. r = own ++ latest
        BY <1>2, <2>1 DEF StoredRosterEntry
    <2>3. Text(own, "id") = OwnId /\ Text(own, "type") = "agent" /\ Keys(own) = {"id", "type"}
        BY <1>1, TextBoth, KeysBoth
    <2>4. Text(r, "id") = OwnId /\ Text(r, "type") = "agent"
        BY <2>2, <2>3, TextBoth
    <2>5. g = Field("type", Leaf("self")) ++ Only(r, {"id", "version"})
        BY <2>4 DEF rosterEntryFromObservation
    <2>6. At(r, "id") = Leaf(OwnId) /\ At(r, "version") = Leaf("latest")
        <3>1. At(own, "id") = Leaf(OwnId)
            BY <1>1, AtBoth
        <3>2. At(latest, "version") = Leaf("latest")
            BY <1>1
        <3> HIDE DEF own, latest
        <3> QED
            BY <2>2, <2>3, <3>1, <3>2, AtBoth
    <2>7. \A k \in {"id", "version"} : At(g, k) = At(r, k)
        <3> SUFFICES ASSUME NEW k \in {"id", "version"} PROVE At(g, k) = At(r, k)
            OBVIOUS
        <3>1. k \notin Keys(Field("type", Leaf("self")))
            BY <1>1
        <3>2. At(Only(r, {"id", "version"}), k) = At(r, k)
            BY AtOnly
        <3> HIDE DEF r
        <3> QED
            BY <2>5, <3>1, <3>2, AtRight
    <2>9. \A k \in {"id", "version"} : k \in Keys(e) =>
                /\ <<(<<>>), Text(e, k)>> \in At(e, k) /\ Text(e, k) \notin {"{}", "[]"}
        <3> SUFFICES ASSUME NEW k \in {"id", "version"}, k \in Keys(e)
                     PROVE  <<(<<>>), Text(e, k)>> \in At(e, k) /\ Text(e, k) \notin {"{}", "[]"}
            OBVIOUS
        <3> DEFINE l == <<(<<>>), Text(e, k)>>
        <3>1. At(e, k) # {} /\ Scalar(At(e, k))
            BY AtNone DEF RosterEntry
        <3>2. <<>> \in Paths(At(e, k))
            BY <3>1 DEF Scalar, Paths
        <3>3. l \in At(e, k) /\ l[2] = Text(e, k)
            BY <3>2, TextThere
        <3> HIDE DEF l
        <3>4. l[2] \notin {"{}", "[]"}
            BY <3>1, <3>3 DEF Scalar
        <3> QED
            BY <3>3, <3>4 DEF l
    <2>10. ASSUME NEW k \in {"id", "version"}, k \in Keys(e), NEW b, At(g, k) = Leaf(b),
                  b # Text(e, k), b # "{}"
           PROVE  ~IsSubsetEqual(e, g)
        <3>1. ~IsSubsetEqual(At(e, k), Leaf(b))
            BY <2>9, <2>10, LeafDiffers
        <3>2. Leaf(b) # {}
            BY DEF Leaf
        <3>3. k \in Keys(e) \cap Keys(g)
            BY <2>10, <3>2, AtNone
        <3>4. IsSubsetEqual(e, g) => \A i \in Keys(e) \cap Keys(g) : IsSubsetEqual(At(e, i), At(g, i))
            BY SubsetMap
        <3>5. ~IsSubsetEqual(At(e, k), At(g, k))
            BY <2>10, <3>1
        <3> QED
            BY <3>3, <3>4, <3>5
    <2>11. CASE "version" \in Keys(e)
        <3>1. Text(e, "version") # "latest"
            BY DEF RosterEntry
        <3>2. At(g, "version") = Leaf("latest")
            BY <2>6, <2>7
        <3> QED
            BY <2>10, <2>11, <3>1, <3>2
    <2>12. CASE ~OneOf(e, "id", {OwnId})
        <3>1. "id" \in Keys(e) /\ Text(e, "id") # OwnId
            BY <2>12 DEF OneOf
        <3>2. At(g, "id") = Leaf(OwnId) /\ OwnId # "{}"
            BY <2>6, <2>7, TextAssumption
        <3> QED
            BY <2>10, <3>1, <3>2
    <2> QED
        BY <1>4, <2>11, <2>12
<1> QED
    BY <1>3, <1>4 DEF Settled

\* The prompt of a manifest is a Secret's, or there is none.
LEMMA SystemText ==
    ASSUME NEW p, Manifest(p), NEW keys \in Secrets
    PROVE  System(p, keys) = "" \/ (System(p, keys) # "[]" /\ Leaf(System(p, keys)) \notin {Empty, NoField, Nothing})
<1> DEFINE ref == "systemSecretRef"
           text == System(p, keys)
           t   == Text(p, ref)
<1>1. IsTree(p) /\ IsTree(At(p, ref))
    BY AtTree DEF Manifest
<1>2. CASE t = ""
    BY <1>2 DEF text, System, ResolveLocalSecretKey
<1>3. CASE t # ""
    <2> DEFINE F == Field(ref, At(p, ref))
    <2>1. ref \in Keys(p)
        BY <1>1, <1>3, TextNode
    <2>2. Resolvable(F) /\ IsTree(F) /\ At(F, ref) = At(p, ref)
        BY <1>1, <2>1, FieldTree, AtField DEF Manifest, Admitted
    <2>3. Text(F, ref) = t
        BY <1>1, <2>2, TextAt
    <2>4. "system" \in Purpose /\ SecretFields["system"].ref = ref
        BY RefsByName DEF Purpose, SecretFields
    <2> HIDE DEF F
    <2>5. t \in Key
        BY <1>3, <2>2, <2>3, <2>4, ResolvableText
    <2>6. text = keys[t]
        BY <1>3 DEF System, ResolveLocalSecretKey
    <2>7. text \in SecretValue
        BY <2>5, <2>6 DEF Secrets
    <2>8. text \notin {"{}", "[]", "nothing"}
        BY <2>7, TextAssumption
    <2>9. \A a : Leaf(text) = Leaf(a) => text = a
        <3> DEFINE root == <<(<<>>), text>>
        <3>1. root \in Leaf(text) /\ root[2] = text
            BY DEF Leaf
        <3> HIDE DEF root
        <3> QED
            BY <3>1, LeafTree
    <2> HIDE DEF text
    <2>10. text = "" \/ (text # "[]" /\ Leaf(text) \notin {Empty, NoField, Nothing})
        BY <2>8, <2>9 DEF Empty, NoField, Nothing
    <2> QED
        BY <2>10 DEF text
<1> QED
    BY <1>2, <1>3

\* A string that is sent is stored.
LEMMA TextArrives ==
    ASSUME NEW x, Valid(x), IsMap(x), NEW w, Valid(w), IsMap(w), NEW ex, NEW k, k \notin Deep,
           NEW text, text # "[]", At(New(w, ex), k) = Leaf(text)
    PROVE  At(Updated(x, w, ex), k) = Leaf(text)
<1> DEFINE root == <<(<<>>), text>>
<1>1. IsTree(New(w, ex)) /\ IsTree(x)
    BY AfterUpdate DEF Valid
<1>2. root \in Leaf(text) /\ root[2] = text /\ root[1] = <<>>
    BY DEF Leaf
<1> HIDE DEF root
<1>3. Below(Updated(x, w, ex), {k}) = Below(Merged(x, w, ex), {k})
    <2>1. ~ \A n \in At(New(w, ex), k) : n[1] = <<>> /\ n[2] = "[]"
        BY <1>2
    <2>2. k \notin {"config", "auth"}
        BY DEF Deep
    <2> QED
        BY <2>1, <2>2, AfterBelow
<1>4. <<k>> \in Paths(New(w, ex))
    <2>1. <<>> \in Paths(At(New(w, ex), k))
        BY <1>2 DEF Paths
    <2> QED
        BY <1>1, <2>1, PathAt, PathOne
<1>5. Below(Merged(x, w, ex), {k}) = Below(New(w, ex), {k})
    BY <1>1, <1>4, PatchReplaced DEF Merged
<1> QED
    BY <1>3, <1>5, AtBelow

\* The digest that is shown is that of the prompt that was sent.
LEMMA PromptArrives ==
    ASSUME kind = "agent", NEW x, Valid(x), IsMap(x), NEW w, Valid(w), IsMap(w), NEW ex,
           NEW text, text # "[]", Leaf(text) \notin {Empty, NoField, Nothing},
           At(w, "system") = At(NonEmpty("system", Leaf(text)), "system"),
           NEW s, s = agentFromAnthropicObservation(Updated(x, w, ex))
    PROVE  Text(s, "systemSha256") = text
<1> DEFINE y    == Updated(x, w, ex)
           root == <<(<<>>), text>>
           node == <<(<<"systemSha256">>), text>>
<1>1. IsTree(y) /\ IsMap(y) /\ IsTree(New(w, ex)) /\ IsTree(x)
    BY AfterUpdate DEF Kept, Valid
<1>3. root \in Leaf(text) /\ root[2] = text /\ root[1] = <<>>
    BY DEF Leaf
<1>4. \A k : NonEmpty(k, Leaf(text)) = Field(k, Leaf(text))
    BY DEF NonEmpty
<1>5. At(New(w, ex), "system") = Leaf(text)
    <2>1. At(w, "system") = Leaf(text)
        BY <1>4, LeafTree, AtField
    <2> QED
        BY <2>1, AgentAt
<1> HIDE DEF root
<1>8. At(y, "system") = Leaf(text)
    <2>1. "system" \notin Deep
        BY DEF Deep
    <2> QED
        BY <1>5, <2>1, TextArrives
<1>9. Text(y, "system") = text
    <2> DEFINE there == <<(<<"system">>), text>>
    <2>1. IsNode(root) /\ Into("system", root) = there
        BY PathOne DEF IsNode, Into, root
    <2>2. there \in y
        BY <1>1, <1>3, <1>8, <2>1, AtTree
    <2> QED
        BY <1>1, <2>2, TextPath
<1>10. SeenPrompt(y) = Field("systemSha256", Leaf(text))
    BY <1>4, <1>9 DEF SeenPrompt
<1>11. node \in SeenPrompt(y) /\ node[1] # <<>>
    BY <1>10, LeafField, PathOne
<1> HIDE DEF y, node
<1>12. IsTree(s) /\ node \in s
    BY <1>1, <1>11, AgentSeen DEF y
<1> QED
    BY <1>12, TextPath DEF node

\* The parts of what is seen of an agent are apart.
LEMMA AgentParts ==
    ASSUME NEW r, IsTree(r)
    PROVE  /\ IsTree(SeenPlain(r)) /\ Keys(SeenPlain(r)) \subseteq {"name", "description", "metadata"}
           /\ IsTree(SeenModel(r)) /\ Keys(SeenModel(r)) \subseteq {"model"}
           /\ IsTree(SeenSettings(r)) /\ Keys(SeenSettings(r)) \subseteq {"modelEffort", "modelInferenceGeo"}
           /\ IsTree(SeenPrompt(r)) /\ Keys(SeenPrompt(r)) \subseteq {"systemSha256"}
<1>1. IsTree(SeenPlain(r)) /\ Keys(SeenPlain(r)) \subseteq {"name", "description"} \cup {"metadata"}
    BY FieldsTree DEF SeenPlain
<1>2. IsTree(SeenModel(r)) /\ Keys(SeenModel(r)) \subseteq {"model"}
    <2>1. IsTree(NoField ++ Only(At(r, "model"), {"id"}))
        BY AtTree, OnlyTree, LeafTree, BothTree DEF NoField
    <2> QED
        BY <2>1, FieldTree DEF SeenModel
<1>3. IsTree(SeenSettings(r)) /\ Keys(SeenSettings(r)) \subseteq {"modelEffort", "modelInferenceGeo"}
    BY AtTree, OnlyTree, KeysOnly DEF SeenSettings
<1>4. IsTree(SeenPrompt(r)) /\ Keys(SeenPrompt(r)) \subseteq {"systemSha256"}
    <2>1. IsTree(Leaf(Text(r, "system")))
        BY LeafTree
    <2> QED
        BY <2>1, NonEmptyAt DEF SeenPrompt
<1> QED
    BY <1>1, <1>2, <1>3, <1>4

\* A roster that is not settled is seen otherwise than asked for.
LEMMA TeamDiffers ==
    ASSUME NEW p, Manifest(p), "multiagent" \in Keys(p), NEW v, v = At(p, "multiagent"),
           NEW list, list = At(v, "agents"), NEW i \in Keys(list), ~Settled(At(list, i)),
           NEW t, TeamSeen(t, v, list), NEW s, IsTree(s), At(s, "multiagent") = At(t, "multiagent")
    PROVE  ~IsSubsetEqual(p, s)
<1>1. IsTree(p) /\ IsTree(v) /\ IsTree(list) /\ IsTree(At(list, i)) /\ Admitted("multiagent", v)
    BY ManifestMap, AtTree DEF Manifest
<1>2. RosterEntry(At(list, i)) /\ IsMap(At(list, i))
    BY <1>1 DEF Admitted, Elements, Structs
<1>3. PICK g :
        /\ \A j \in Keys(list) :
            /\ g[j] = rosterEntryFromObservation(StoredRosterEntry(agentRosterEntryToParam(At(list, j))))
            /\ IsTree(g[j]) /\ IsMap(g[j])
        /\ t = Field("multiagent",
                     IF "agents" \in Keys(v) THEN Field("agents", Mapped(list, g)) ELSE NoField)
    BY DEF TeamSeen
<1>4. list # {} /\ "agents" \in Keys(v)
    <2>1. list # {}
        BY DEF Keys
    <2> QED
        BY <2>1, AtNone
<1> DEFINE M == Mapped(list, g)
           A == Field("agents", M)
<1>5. \A j \in Keys(list) : IsTree(g[j]) /\ g[j] # {}
    BY <1>3 DEF IsMap
<1>6. IsTree(M) /\ Keys(M) = Keys(list) /\ At(M, i) = g[i] /\ M # {}
    <2>1. IsTree(M)
        BY <1>1, <1>5, MappedTree
    <2>2. Keys(M) = Keys(list) /\ At(M, i) = g[i]
        BY <1>1, <1>5, MappedAt
    <2>3. M # {}
        BY <1>1, <1>4, <1>5, MappedSome
    <2> QED
        BY <2>1, <2>2, <2>3
<1>7. t = Field("multiagent", A)
    BY <1>3, <1>4
<1> HIDE DEF M
<1>8. IsTree(A) /\ IsMap(A) /\ At(A, "agents") = M /\ "agents" \in Keys(A)
    BY <1>6, FieldTree, AtField, FieldHas
<1> HIDE DEF A
<1>9. At(s, "multiagent") = A /\ "multiagent" \in Keys(s)
    <2>1. At(s, "multiagent") = A
        BY <1>7, <1>8, AtField
    <2>2. A # {}
        BY <1>8 DEF IsMap
    <2> QED
        BY <2>1, <2>2, AtNone
<1>10. ~IsSubsetEqual(At(list, i), g[i])
    BY <1>1, <1>2, <1>3, RosterDiffers
<1>11. ~IsSubsetEqual(list, M)
    <2>1. IsSubsetEqual(list, M) => \A k \in Keys(list) \cap Keys(M) : IsSubsetEqual(At(list, k), At(M, k))
        BY <1>1, <1>6, SubsetByKey
    <2> QED
        BY <1>6, <1>10, <2>1
<1>12. ~IsSubsetEqual(v, A)
    <2>1. IsSubsetEqual(v, A) => \A k \in Keys(v) \cap Keys(A) : IsSubsetEqual(At(v, k), At(A, k))
        BY <1>1, <1>8, SubsetByKey
    <2> QED
        BY <1>4, <1>8, <1>11, <2>1
<1>13. IsSubsetEqual(p, s) => \A k \in Keys(p) \cap Keys(s) : IsSubsetEqual(At(p, k), At(s, k))
    BY <1>1, SubsetByKey
<1> QED
    BY <1>9, <1>12, <1>13

\* The roster names an agent that cannot be had so.
Unsettled(p) ==
    "multiagent" \in Keys(p) /\ \E e \in Elements(At(At(p, "multiagent"), "agents")) : ~Settled(e)

\* An agent shows what it was sent, but for entries of its roster that cannot be had.
LEMMA AgentSettled ==
    ASSUME kind = "agent", NEW x, Valid(x), IsMap(x), NEW p, Manifest(p), NEW keys \in Secrets,
           NEW w, w = agentToAnthropicUpdate(p, System(p, keys)), Valid(w), IsMap(w), NEW ex,
           NEW s, s = agentFromAnthropicObservation(Updated(x, w, ex))
    PROVE  agentIsUpToDate(p, s, System(p, keys)) <=> ~Unsettled(p)
<1> DEFINE y  == Updated(x, w, ex)
           I  == Field("id", Leaf(OwnId))
           R  == {"name", "description"}
           O  == {"metadata"}
           c7 == I ++ SeenPlain(y) ++ SeenModel(y) ++ SeenSettings(y)
                    ++ SeenPrompt(y) ++ SeenServers(y) ++ SeenSkills(y) ++ SeenTools(y)
<1>0. y = Updated(x, w, ex)
    OBVIOUS
<1>1. /\ IsTree(y) /\ IsMap(y) /\ IsTree(p) /\ IsMap(p) /\ IsTree(I) /\ Keys(I) \subseteq {"id"}
    BY AfterUpdate, ManifestMap, LeafTree, FieldTree DEF Kept, Valid
<1>2. s = c7 ++ SeenTeam(y) /\ IsTree(s)
    BY <1>1, AgentSeen
<1>3. IsMap(s)
    BY <1>1, LeafTree, FieldTree, MapBoth DEF agentFromAnthropicObservation
<1>4. {"id", "systemSha256"} \cap Keys(p) = {}
    BY DEF Manifest, Admitted
<1>5. Fits(SeenPlain(y), p, {})
    <2>1. ASSUME NEW k \in (Keys(p) \cap (R \cup O)) \ {}
          PROVE  k \in Keys(y) /\ IsSubsetEqual(At(p, k), At(y, k))
        <3>1. k \in {"name", "description", "metadata"} \cap Keys(p)
            OBVIOUS
        <3>2. Below(New(w, ex), {k}) = Below(w, {k})
            BY <3>1, AgentPlain
        <3>3. Below(w, {k}) = Below(p, {k})
            BY <3>1, AgentSent
        <3>4. k \in Keys(p) /\ (k \notin Deep \/ k = "metadata")
            BY <3>1 DEF Deep
        <3> QED
            BY <3>2, <3>3, <3>4, Arrives
    <2>2. SeenPlain(y) = Fields(y, R, O)
        BY DEF SeenPlain
    <2> HIDE DEF R, O, y
    <2> QED
        BY <1>1, <2>1, <2>2, FitsPlain
<1>6. Fits(SeenModel(y), p, {}) /\ Fits(SeenSettings(y), p, {})
    BY ModelFits
<1> HIDE DEF y
<1>7. Fits(I, p, {}) /\ Fits(SeenPrompt(y), p, {})
    <2>1. IsTree(SeenPrompt(y)) /\ Keys(SeenPrompt(y)) \subseteq {"systemSha256"}
        BY <1>1, AgentParts
    <2> QED
        BY <1>1, <1>4, <2>1, FitsApart
<1>8. /\ "mcpServers" \in Keys(p) => Echoes(SeenServers(y), p)
      /\ "skills" \in Keys(p) => Echoes(SeenSkills(y), p)
      /\ "tools" \in Keys(p) => Echoes(SeenTools(y), p)
    BY <1>0, TopologyStored
<1>9. Fits(SeenServers(y), p, {}) /\ Fits(SeenSkills(y), p, {}) /\ Fits(SeenTools(y), p, {})
    <2>1. /\ IsTree(SeenServers(y)) /\ Keys(SeenServers(y)) \subseteq {"mcpServers"}
          /\ IsTree(SeenSkills(y)) /\ Keys(SeenSkills(y)) \subseteq {"skills"}
          /\ IsTree(SeenTools(y)) /\ Keys(SeenTools(y)) \subseteq {"tools"}
        BY <1>1, SeenParts
    <2>2. Fits(SeenServers(y), p, {})
        BY <1>1, <1>8, <2>1, FitsEcho, FitsApart
    <2>3. Fits(SeenSkills(y), p, {})
        BY <1>1, <1>8, <2>1, FitsEcho, FitsApart
    <2>4. Fits(SeenTools(y), p, {})
        BY <1>1, <1>8, <2>1, FitsEcho, FitsApart
    <2> QED
        BY <2>2, <2>3, <2>4
<1>10. Fits(c7, p, {})
    BY <1>5, <1>6, <1>7, <1>9, FitsBoth
<1>11. "multiagent" \notin Keys(c7)
    <2>1. /\ "multiagent" \notin Keys(SeenServers(y)) /\ "multiagent" \notin Keys(SeenSkills(y))
          /\ "multiagent" \notin Keys(SeenTools(y))
        BY <1>1, SeenParts
    <2>2. /\ "multiagent" \notin Keys(SeenPlain(y)) /\ "multiagent" \notin Keys(SeenModel(y))
          /\ "multiagent" \notin Keys(SeenSettings(y)) /\ "multiagent" \notin Keys(SeenPrompt(y))
          /\ "multiagent" \notin Keys(I)
        BY <1>1, AgentParts
    <2> QED
        BY <2>1, <2>2, KeysBoth
<1> HIDE DEF I, c7
<1>12. System(p, keys) # "" => Text(s, "systemSha256") = System(p, keys)
    <2> DEFINE text == System(p, keys)
    <2>1. text = "" \/ (text # "[]" /\ Leaf(text) \notin {Empty, NoField, Nothing})
        BY SystemText
    <2>2. At(w, "system") = At(NonEmpty("system", Leaf(text)), "system")
        BY AgentSent
    <2> HIDE DEF text
    <2>3. ASSUME text # "" PROVE Text(s, "systemSha256") = text
        <3>1. text # "[]" /\ Leaf(text) \notin {Empty, NoField, Nothing}
            BY <2>1, <2>3
        <3>2. /\ Valid(x) /\ IsMap(x) /\ Valid(w) /\ IsMap(w) /\ kind = "agent"
              /\ s = agentFromAnthropicObservation(Updated(x, w, ex))
            OBVIOUS
        <3> HIDE DEF text
        <3> QED
            BY <2>2, <3>1, <3>2, PromptArrives
    <2> QED
        BY <2>3 DEF text
<1>13. CASE ~Unsettled(p)
    <2>1. Fits(SeenTeam(y), p, {})
        <3>1. CASE "multiagent" \in Keys(p)
            <4>1. Echoes(SeenTeam(y), p)
                BY <1>0, <1>13, <3>1, TopologyStored DEF Unsettled
            <4> QED
                BY <1>1, <4>1, FitsEcho
        <3>2. CASE "multiagent" \notin Keys(p)
            <4>1. IsTree(SeenTeam(y)) /\ Keys(SeenTeam(y)) \subseteq {"multiagent"}
                BY <1>1, SeenParts
            <4> QED
                BY <3>2, <4>1, FitsApart
        <3> QED
            BY <3>1, <3>2
    <2>2. Fits(s, p, {})
        BY <1>2, <1>10, <2>1, FitsBoth
    <2>3. IsSubsetEqual(p, s) <=> ~Differs(p, s, {})
        BY <1>1, <1>3, <2>2, FitsDecides
    <2> QED
        BY <1>12, <1>13, <2>3 DEF Differs, agentIsUpToDate
<1>14. CASE Unsettled(p)
    <2> DEFINE v    == At(p, "multiagent")
               list == At(v, "agents")
               made == At(w, "multiagent")
    <2>1. "multiagent" \in Keys(p)
        BY <1>14 DEF Unsettled
    <2>2. PICK i \in Keys(list) : ~Settled(At(list, i))
        BY <1>14 DEF Unsettled, Elements
    <2>3. /\ made = agentMultiagentToParam(v)
          /\ At(New(w, ex), "multiagent") = Each(made, "agents", StoredRosterEntry) ++ made
        BY <2>1, TeamFilled
    <2>4. v = At(p, "multiagent") /\ list = At(v, "agents") /\ made = At(w, "multiagent")
        OBVIOUS
    <2> HIDE DEF v, list, made
    <2>5. TeamSeen(SeenTeam(y), v, list)
        BY <1>0, <2>1, <2>3, <2>4, TeamStored
    <2>6. At(s, "multiagent") = At(SeenTeam(y), "multiagent")
        BY <1>2, <1>11, AtRight
    <2>7. ~IsSubsetEqual(p, s)
        BY <1>2, <2>1, <2>2, <2>4, <2>5, <2>6, TeamDiffers
    <2> QED
        BY <1>14, <2>7 DEF agentIsUpToDate
<1> QED
    BY <1>13, <1>14

---------------------------------------------------------------------------
(***************************************************************************)
(* Where the comparison expects a map the resource has one, or nothing.    *)
(***************************************************************************)

\* Where a resource of a kind has a map, if it has anything there.
Marks(k) ==
    CASE k = "environment" -> {<<"config", "packages">>}
      [] k = "credential"  -> {<<"auth">>, <<"auth", "injectionLocation">>}
      [] OTHER             -> {}

Formed(k, x) == \A n \in x : n[1] \in Marks(k) => n[2] = "{}"

\* A node below a key, by its path.
LEMMA IntoPath ==
    ASSUME NEW k, NEW m, IsNode(m)
    PROVE  /\ \A a : Into(k, m)[1] = <<a>> => k = a /\ m[1] = <<>>
           /\ \A a, b : Into(k, m)[1] = <<a, b>> => k = a /\ m[1] = <<b>>
<1>1. Head(Into(k, m)[1]) = k /\ Tail(Into(k, m)[1]) = m[1]
    BY IntoNode
<1>2. \A a : Head(<<a>>) = a /\ Tail(<<a>>) = <<>>
    BY PathOne
<1>3. \A a, b : Head(<<a, b>>) = a /\ Tail(<<a, b>>) = <<b>>
    BY TwoKeys
<1> QED
    BY <1>1, <1>2, <1>3

\* The path of a node below a key.
LEMMA PathInto ==
    ASSUME NEW k, NEW m, IsNode(m)
    PROVE  /\ IsNode(Into(k, m)) /\ Into(k, m)[2] = m[2]
           /\ m[1] = <<>> => Into(k, m)[1] = <<k>>
           /\ \A b : m[1] = <<b>> => Into(k, m)[1] = <<k, b>>
<1>1. IsNode(Into(k, m)) /\ Into(k, m)[2] = m[2] /\ Into(k, m)[1] = <<k>> \o m[1]
    BY IntoNode
<1>2. <<k>> \o <<>> = <<k>>
    BY PathOne
<1>3. \A b : <<k>> \o <<b>> = <<k, b>>
    BY TwoKeys
<1>4. ASSUME m[1] = <<>> PROVE Into(k, m)[1] = <<k>>
    BY <1>1, <1>2, <1>4
<1>5. ASSUME NEW b, m[1] = <<b>> PROVE Into(k, m)[1] = <<k, b>>
    BY <1>1, <1>3, <1>5
<1> QED
    BY <1>1, <1>4, <1>5

\* What is formed has a map, or nothing, at the marks.
LEMMA FormedRooted ==
    ASSUME NEW x, IsTree(x), NEW k, Formed(k, x)
    PROVE  /\ \A a : <<a>> \in Marks(k) => Rooted(At(x, a))
           /\ \A a, b : <<a, b>> \in Marks(k) => Rooted(At(At(x, a), b))
<1>1. ASSUME NEW a, <<a>> \in Marks(k) PROVE Rooted(At(x, a))
    <2>1. SUFFICES ASSUME <<>> \in Paths(At(x, a)) PROVE IsMap(At(x, a))
        BY DEF Rooted
    <2>2. PICK m \in At(x, a) : m[1] = <<>>
        BY <2>1 DEF Paths
    <2>3. IsNode(m) /\ Into(a, m) \in x
        BY <2>2, AtTree, Nodes
    <2>4. Into(a, m)[1] = <<a>> /\ Into(a, m)[2] = m[2]
        BY <2>2, <2>3, PathInto
    <2>5. m[2] = "{}"
        BY <1>1, <2>3, <2>4 DEF Formed
    <2>6. m = <<(<<>>), "{}">>
        BY <2>2, <2>3, <2>5 DEF IsNode
    <2> QED
        BY <2>2, <2>6 DEF IsMap
<1>2. ASSUME NEW a, NEW b, <<a, b>> \in Marks(k) PROVE Rooted(At(At(x, a), b))
    <2>0. IsTree(At(x, a)) /\ IsTree(At(At(x, a), b))
        BY AtTree
    <2>1. SUFFICES ASSUME <<>> \in Paths(At(At(x, a), b)) PROVE IsMap(At(At(x, a), b))
        BY DEF Rooted
    <2>2. PICK m \in At(At(x, a), b) : m[1] = <<>>
        BY <2>1 DEF Paths
    <2>3. IsNode(m) /\ Into(b, m) \in At(x, a)
        BY <2>0, <2>2, AtTree, Nodes
    <2>4. IsNode(Into(b, m)) /\ Into(a, Into(b, m)) \in x
        BY <2>0, <2>3, AtTree, Nodes
    <2>5. Into(b, m)[1] = <<b>> /\ Into(b, m)[2] = m[2]
        BY <2>2, <2>3, PathInto
    <2>6. Into(a, Into(b, m))[2] = Into(b, m)[2]
        BY <2>4, PathInto
    <2>7. Into(a, Into(b, m))[1] = <<a, b>>
        BY <2>4, <2>5, PathInto
    <2>8. m[2] = "{}"
        BY <1>2, <2>4, <2>5, <2>6, <2>7 DEF Formed
    <2>9. m = <<(<<>>), "{}">>
        BY <2>2, <2>3, <2>8 DEF IsNode
    <2> QED
        BY <2>2, <2>9 DEF IsMap
<1> QED
    BY <1>1, <1>2

\* The defaults of the API are formed.
LEMMA FormedConfig ==
    ASSUME NEW C, Valid(C), NEW m \in StoredConfig(C), m[1] = <<"packages">>
    PROVE  m \in C \/ m[2] = "{}"
<1> DEFINE S == Sub(C, "networking", StoredNetworking)
           F == Field("networking", Variant("unrestricted", C, {}, {}))
           G == Field("packages", NoField)
<1>1. IsTree(S) /\ IsTree(F) /\ Keys(S) \subseteq {"networking"} /\ Keys(F) \subseteq {"networking"}
    <2>1. IsTree(StoredNetworking(At(C, "networking"))) /\ IsTree(NoField) /\ Keys(NoField) = {}
        BY ValidAt, NetworkingValid, ValidNone, KeysNone DEF Valid
    <2>2. IsTree(S) /\ Keys(S) \subseteq {"networking"}
        BY <2>1, FieldTree DEF Sub
    <2>3. IsTree(Variant("unrestricted", C, {}, {}))
        BY LeafTree, FieldTree, FieldsTree, BothTree DEF Variant, Valid
    <2>4. IsTree(F) /\ Keys(F) \subseteq {"networking"}
        BY <2>3, FieldTree
    <2> QED
        BY <2>2, <2>4
<1>2. m[1] # <<>> /\ Head(m[1]) = "packages"
    BY PathOne
<1>3. m \notin S /\ m \notin F
    BY <1>1, <1>2 DEF Keys
<1>4. m \in S \/ m \in C \/ m \in F \/ m \in G
    BY DEF StoredConfig, ++, Below
<1>5. m \in G => m[2] = "{}"
    <2>1. IsTree(NoField) /\ \A g \in NoField : g[2] = "{}"
        BY LeafTree DEF NoField
    <2>2. \A h \in Field("packages", NoField) : h \in NoField \/ \E g \in NoField : h = Into("packages", g)
        <3> DEFINE v == NoField
        <3>1. IsTree(v)
            BY <2>1
        <3> HIDE DEF v
        <3>2. \A h \in Field("packages", v) : h \in NoField \/ \E g \in v : h = Into("packages", g)
            BY <3>1, FieldTree
        <3> QED
            BY <3>2 DEF v
    <2>3. \A g \in NoField : Into("packages", g)[2] = g[2]
        BY <2>1, Nodes, PathInto
    <2> QED
        BY <2>1, <2>2, <2>3
<1> QED
    BY <1>3, <1>4, <1>5

LEMMA FormedLocation ==
    ASSUME NEW A, Valid(A), NEW m \in StoredAuth(A), m[1] \in {<<>>, <<"injectionLocation">>}
    PROVE  m \in A \/ m[2] = "{}"
<1> DEFINE given == IF "injectionLocation" \in Keys(A) THEN At(A, "injectionLocation") ELSE NoField
           all   == given ++ Field("body", Leaf("false")) ++ Field("header", Leaf("true"))
           f     == Field("injectionLocation", all)
<1>1. IsTree(A) /\ IsTree(given) /\ IsTree(all)
    BY ValidNone, LeafTree, FieldTree, BothTree, AtTree DEF Valid
<1>2. m \in A \/ m \in f
    BY DEF StoredAuth, ++, Below
<1>3. \A g \in all : g[1] = <<>> => g \in given
    BY DEF ++, Below
<1>4. \A g \in given : g[2] = "{}" \/ Into("injectionLocation", g) \in A
    BY <1>1, AtTree, LeafTree, Nodes DEF NoField
<1> HIDE DEF given, all
<1>5. ASSUME m \in f PROVE m[2] = "{}" \/ m \in A
    <2>1. m \in NoField \/ \E g \in all : m = Into("injectionLocation", g)
        BY <1>1, <1>5, FieldTree
    <2>2. m \in NoField => m[2] = "{}"
        BY LeafTree DEF NoField
    <2>3. ASSUME NEW g \in all, m = Into("injectionLocation", g) PROVE m[2] = "{}" \/ m \in A
        <3>1. IsNode(g) /\ m[1] # <<>> /\ m[2] = g[2]
            BY <1>1, <2>3, Nodes, IntoNode
        <3>2. g[1] = <<>>
            BY <2>3, <3>1, IntoPath
        <3> QED
            BY <1>3, <1>4, <2>3, <3>1, <3>2
    <2> QED
        BY <2>1, <2>2, <2>3
<1> QED
    BY <1>2, <1>5

LEMMA FormedCompleted ==
    ASSUME NEW r, Valid(r), IsMap(r), Formed(kind, r)
    PROVE  Formed(kind, Completed(r))
<1>0. SUFFICES ASSUME NEW n \in Completed(r), n[1] \in Marks(kind) PROVE n \in r \/ n[2] = "{}"
    BY DEF Formed
<1>1. CASE kind = "environment"
    <2> DEFINE C == IF "config" \in Keys(r) THEN At(r, "config") ELSE NoField
               f == Field("config", StoredConfig(C))
    <2>1. n \in r \/ n \in f
        BY <1>0, <1>1 DEF Completed, StoredEnvironment, ++, Below
    <2>2. Valid(C) /\ IsTree(StoredConfig(C))
        BY ValidAt, ValidNone, ConfigComplete DEF Valid
    <2>3. n[1] = <<"config", "packages">>
        BY <1>0, <1>1 DEF Marks
    <2>4. \A m \in C : m[2] = "{}" \/ Into("config", m) \in r
        BY AtTree, LeafTree, Nodes DEF NoField, Valid
    <2> HIDE DEF C
    <2>5. ASSUME NEW m \in StoredConfig(C), n = Into("config", m) PROVE n \in r \/ n[2] = "{}"
        <3>1. IsNode(m) /\ n[2] = m[2]
            BY <2>2, <2>5, Nodes, IntoNode
        <3>2. m[1] = <<"packages">>
            BY <2>3, <2>5, <3>1, IntoPath
        <3>3. m \in C \/ m[2] = "{}"
            BY <2>2, <2>5, <3>2, FormedConfig
        <3> QED
            BY <2>4, <2>5, <3>1, <3>3
    <2>6. n \in f => n \in NoField \/ \E m \in StoredConfig(C) : n = Into("config", m)
        BY <2>2, FieldTree
    <2>7. n \in NoField => n[2] = "{}"
        BY LeafTree DEF NoField
    <2> QED
        BY <2>1, <2>5, <2>6, <2>7
<1>2. CASE kind = "credential"
    <2> DEFINE A == At(r, "auth")
               f == IF "auth" \in Keys(r) THEN Field("auth", StoredAuth(A)) ELSE NoField
    <2>1. n \in r \/ n \in f
        BY <1>0, <1>2 DEF Completed, StoredCredential, Sub, ++, Below
    <2>2. Valid(A) /\ IsTree(StoredAuth(A))
        BY ValidAt, AuthValid DEF Valid
    <2>3. n[1] = <<"auth">> \/ n[1] = <<"auth", "injectionLocation">>
        BY <1>0, <1>2 DEF Marks
    <2>4. \A m \in A : Into("auth", m) \in r
        BY AtTree, Nodes DEF Valid
    <2> HIDE DEF A
    <2>5. ASSUME NEW m \in StoredAuth(A), n = Into("auth", m) PROVE n \in r \/ n[2] = "{}"
        <3>1. IsNode(m) /\ n[2] = m[2]
            BY <2>2, <2>5, Nodes, IntoNode
        <3>2. m[1] = <<>> \/ m[1] = <<"injectionLocation">>
            <4>1. /\ \A a : Into("auth", m)[1] = <<a>> => m[1] = <<>>
                  /\ \A a, b : Into("auth", m)[1] = <<a, b>> => m[1] = <<b>>
                BY <3>1, IntoPath
            <4> QED
                BY <2>3, <2>5, <4>1
        <3>3. m \in A \/ m[2] = "{}"
            BY <2>2, <2>5, <3>2, FormedLocation
        <3> QED
            BY <2>4, <2>5, <3>1, <3>3
    <2>6. n \in f => n \in NoField \/ \E m \in StoredAuth(A) : n = Into("auth", m)
        BY <2>2, FieldTree
    <2>7. n \in NoField => n[2] = "{}"
        BY LeafTree DEF NoField
    <2> QED
        BY <2>1, <2>5, <2>6, <2>7
<1>3. CASE kind \notin {"environment", "credential"}
    BY <1>0, <1>3 DEF Marks
<1> QED
    BY <1>1, <1>2, <1>3

\* What is kept of a resource that is formed is formed.
LEMMA FormedStored ==
    ASSUME NEW r, Valid(r), IsMap(r), Formed(kind, r)
    PROVE  Formed(kind, Stored(r)) /\ \A K : Formed(kind, Stored(Without(r, K)))
<1>1. ASSUME NEW v, Valid(v), IsMap(v), Formed(kind, v) PROVE Formed(kind, Stored(v))
    <2>1. Formed(kind, Completed(v))
        BY <1>1, FormedCompleted
    <2> QED
        BY <2>1 DEF Formed, Stored, Without
<1>2. ASSUME NEW K PROVE Formed(kind, Stored(Without(r, K)))
    <2>1. Valid(Without(r, K)) /\ Formed(kind, Without(r, K))
        BY ValidPart DEF Formed, Without
    <2>2. IsMap(Without(r, K))
        BY DEF IsMap, Without, Below
    <2> QED
        BY <1>1, <2>1, <2>2
<1> QED
    BY <1>1, <1>2

\* What a manifest has at the marks is a map, and so is what is sent of it.
LEMMA FormedManifest ==
    ASSUME NEW p, Manifest(p)
    PROVE  Formed(kind, p)
<1>0. SUFFICES ASSUME NEW n \in p, n[1] \in Marks(kind) PROVE n[2] = "{}"
    BY DEF Formed
<1>1. IsTree(p) /\ IsNode(n)
    BY ManifestMap, Nodes
<1>2. \A f \in Keys(p) \cap {"config", "auth"} :
            IsMap(At(p, f)) /\ \A k \in Keys(At(p, f)) \cap {"packages", "injectionLocation"} : IsMap(At(At(p, f), k))
    <2>1. ASSUME NEW f \in Keys(p) \cap {"config", "auth"}
          PROVE  \A e \in {At(p, f)} \cup Parts(At(p, f), {"networking", "packages", "injectionLocation", "maxListCost"}) : IsMap(e)
        <3>1. Admitted(f, At(p, f)) /\ f \in {"budget", "schedule", "config", "auth"}
              /\ f \notin {"skills", "mcpServers"} /\ f # "tools" /\ f # "multiagent"
            BY <2>1 DEF Manifest
        <3>2. \A e \in Structs(f, At(p, f)) : IsMap(e)
            BY <3>1 DEF Admitted
        <3> QED
            BY <3>1, <3>2 DEF Structs
    <2>2. ASSUME NEW f \in Keys(p) \cap {"config", "auth"},
                 NEW k \in Keys(At(p, f)) \cap {"packages", "injectionLocation"}
          PROVE  IsMap(At(p, f)) /\ IsMap(At(At(p, f), k))
        <3>1. At(At(p, f), k) \in Parts(At(p, f), {"networking", "packages", "injectionLocation", "maxListCost"})
            BY DEF Parts
        <3> QED
            BY <2>1, <3>1
    <2> QED
        BY <2>1, <2>2
<1>3. ASSUME NEW a \in {"config", "auth"}, n[1] = <<a>> PROVE n[2] = "{}"
    <2>1. a \in Keys(p) /\ IsMap(At(p, a))
        <3>1. n[1] # <<>> /\ Head(n[1]) = a
            BY <1>3, PathOne
        <3> QED
            BY <1>2, <3>1 DEF Keys
    <2>2. <<(<<>>), "{}">> \in At(p, a)
        BY <2>1 DEF IsMap
    <2> DEFINE root == <<(<<>>), "{}">>
    <2>3. IsNode(root) /\ root[1] = <<>> /\ root[2] = "{}" /\ root \in At(p, a)
        BY <2>2, PathOne DEF IsNode
    <2> HIDE DEF root
    <2>4. Into(a, root) \in p /\ Into(a, root)[1] = <<a>> /\ Into(a, root)[2] = "{}"
        BY <1>1, <2>3, AtTree, PathInto
    <2> QED
        BY <1>1, <1>3, <2>4 DEF IsTree, Single
<1>4. ASSUME NEW a \in {"config", "auth"}, NEW b \in {"packages", "injectionLocation"}, n[1] = <<a, b>>
      PROVE  n[2] = "{}"
    <2> DEFINE A    == At(p, a)
               root == <<(<<>>), "{}">>
    <2>1. n[1] # <<>> /\ Head(n[1]) = a /\ Tail(n[1]) = <<b>>
        BY <1>4, TwoKeys
    <2>2. a \in Keys(p) /\ <<(<<b>>), n[2]>> \in A
        BY <2>1 DEF Keys, At, Below
    <2>3. b \in Keys(A)
        <3>1. <<b>> # <<>> /\ Head(<<b>>) = b
            BY PathOne
        <3>2. \E m \in A : m[1] = <<b>>
            BY <2>2
        <3> HIDE DEF A
        <3> QED
            BY <3>1, <3>2 DEF Keys
    <2>4. IsMap(At(A, b)) /\ IsTree(A)
        BY <1>1, <1>2, <2>2, <2>3, AtTree
    <2>5. IsNode(root) /\ root[1] = <<>> /\ root[2] = "{}" /\ root \in At(A, b)
        BY <2>4, PathOne DEF IsNode, IsMap
    <2> HIDE DEF root
    <2>6. Into(b, root) \in A /\ Into(b, root)[1] = <<b>> /\ Into(b, root)[2] = "{}" /\ IsNode(Into(b, root))
        BY <2>4, <2>5, AtTree, PathInto
    <2>7. Into(a, Into(b, root)) \in p
        BY <1>1, <2>6, AtTree
    <2>8. Into(a, Into(b, root))[1] = <<a, b>> /\ Into(a, Into(b, root))[2] = "{}"
        BY <2>6, PathInto
    <2> QED
        BY <1>1, <1>4, <2>7, <2>8 DEF IsTree, Single
<1>5. kind \in {"environment", "credential"} /\ (n[1] \in {<<"auth">>, <<"auth", "injectionLocation">>} \/ n[1] = <<"config", "packages">>)
    BY <1>0 DEF Marks
<1> QED
    BY <1>3, <1>4, <1>5

LEMMA FormedRequest ==
    ASSUME kind \in DOMAIN Base, NEW p, Manifest(p), NEW keys,
           NEW w \in {ToAnthropicNew(kind, p, keys), ToAnthropicUpdate(kind, p, keys)}, Valid(w)
    PROVE  Formed(kind, w)
<1>0. SUFFICES ASSUME NEW n \in w, n[1] \in Marks(kind) PROVE n[2] = "{}"
    BY DEF Formed
<1>1. Sent(w, p, keys, SecretsFor(kind, p))
    BY RequestSent
<1>2. SentNode(n, p, keys, SecretsFor(kind, p)) /\ IsNode(n)
    BY <1>1, Nodes DEF Sent
<1>3. n[2] \notin {"", "nothing"}
    BY DEF Valid, Rejected
<1>4. /\ n[1] # <<>> /\ Head(n[1]) \in {"config", "auth"}
      /\ Last(n[1]) \in {"packages", "auth", "injectionLocation"}
    <2>1. n[1] \in {<<"config", "packages">>, <<"auth">>, <<"auth", "injectionLocation">>}
        BY <1>0 DEF Marks
    <2>2. /\ <<"config", "packages">> # <<>> /\ Head(<<"config", "packages">>) = "config"
          /\ Last(<<"config", "packages">>) = "packages"
        BY TwoKeys
    <2>3. /\ <<"auth", "injectionLocation">> # <<>> /\ Head(<<"auth", "injectionLocation">>) = "auth"
          /\ Last(<<"auth", "injectionLocation">>) = "injectionLocation"
        BY TwoKeys
    <2>4. <<"auth">> # <<>> /\ Head(<<"auth">>) = "auth" /\ Last(<<"auth">>) = "auth"
        BY PathOne
    <2> QED
        BY <2>1, <2>2, <2>3, <2>4
<1>5. Renamed(n[1]) = n[1]
    BY <1>4, NotRenamed
<1>6. n \in p => n[2] = "{}"
    BY <1>0, FormedManifest DEF Formed
<1>7. ~Added(n, p)
    BY <1>4 DEF Added
<1>8. ~SecretNode(n, p, keys, SecretsFor(kind, p))
    <2>1. SecretsFor(kind, p) \subseteq Purpose
        BY KindsAssumption, SecretsByType DEF SecretsFor, Purpose, SecretFields
    <2>2. Last(n[1]) \notin Purpose
        BY <1>4 DEF Purpose, SecretFields
    <2> QED
        BY <2>1, <2>2 DEF SecretNode
<1>9. n[2] = "{}" \/ n \in p
    <2>1. n = <<n[1], n[2]>>
        BY <1>2 DEF IsNode
    <2> QED
        BY <1>2, <1>3, <1>5, <1>7, <1>8, <2>1 DEF SentNode
<1> QED
    BY <1>6, <1>9

\* A resource stays formed in an update, and is when it is made.
LEMMA FormedAfter ==
    ASSUME NEW x, Valid(x), IsMap(x), Formed(kind, x), NEW w, Valid(w), IsMap(w), Formed(kind, w), NEW ex
    PROVE  Formed(kind, Updated(x, w, ex))
<1>1. Valid(Merged(x, w, ex)) /\ IsMap(Merged(x, w, ex)) /\ Merged(x, w, ex) \subseteq x \cup New(w, ex)
    BY AfterUpdate
<1>2. Formed(kind, New(w, ex))
    <2>1. CASE kind \in {"environment", "credential"}
        BY <2>1 DEF New, Filled
    <2>2. CASE kind \notin {"environment", "credential"}
        BY <2>2 DEF Formed, Marks
    <2> QED
        BY <2>1, <2>2
<1>3. Formed(kind, Merged(x, w, ex))
    BY <1>1, <1>2 DEF Formed
<1> QED
    BY <1>1, <1>3, FormedStored DEF Updated

---------------------------------------------------------------------------
(***************************************************************************)
(* A request that is accepted settles the resource.                        *)
(***************************************************************************)

\* Resource r, seen with the manifest p, is up to date but for what is hopeless.
Settles(k, p, keys, r) ==
    LET s  == FromAnthropicObservation(k, r)
        up == IF k = "agent" THEN agentIsUpToDate(p, s, System(p, keys)) ELSE IsSubsetEqual(p, s)
    IN  up <=> ~Hopeless(k, p, s)

LEMMA AgentSettles ==
    ASSUME kind = "agent", kind \in DOMAIN Base, NEW x, Valid(x), IsMap(x), NEW p, Manifest(p), NEW keys \in Secrets,
           NEW w \in {ToAnthropicNew(kind, p, keys), ToAnthropicUpdate(kind, p, keys)}, Valid(w), IsMap(w), NEW ex
    PROVE  Settles(kind, p, keys, Updated(x, w, ex))
<1> DEFINE s == agentFromAnthropicObservation(Updated(x, w, ex))
<1>1. w = agentToAnthropicUpdate(p, System(p, keys))
    <2>1. ToAnthropicNew(kind, p, keys) = agentToAnthropicNew(p, System(p, keys))
          /\ ToAnthropicUpdate(kind, p, keys) = agentToAnthropicUpdate(p, System(p, keys))
        BY DEF ToAnthropicNew, ToAnthropicUpdate
    <2>2. \A system : Valid(agentToAnthropicNew(p, system)) =>
                agentToAnthropicNew(p, system) = agentToAnthropicUpdate(p, system)
        BY AgentCreated
    <2> QED
        BY <2>1, <2>2
<1>2. agentIsUpToDate(p, s, System(p, keys)) <=> ~Unsettled(p)
    BY <1>1, AgentSettled
<1>3. Hopeless(kind, p, s) <=> Unsettled(p)
    BY DEF Hopeless, Unsettled, Settled
<1>4. FromAnthropicObservation(kind, Updated(x, w, ex)) = s
    BY DEF FromAnthropicObservation
<1> HIDE DEF s
<1> QED
    BY <1>2, <1>3, <1>4 DEF Settles

LEMMA DeploymentSettles ==
    ASSUME kind = "deployment", NEW x, Valid(x), IsMap(x), NEW p, Manifest(p), NEW keys,
           NEW w \in {ToAnthropicNew(kind, p, keys), ToAnthropicUpdate(kind, p, keys)}, Valid(w), IsMap(w), NEW ex
    PROVE  Settles(kind, p, keys, Updated(x, w, ex))
<1> DEFINE s == deploymentFromAnthropicObservation(Updated(x, w, ex))
<1>1. w = deploymentToAnthropicUpdate(p, keys)
    BY DeploymentCreated DEF ToAnthropicNew, ToAnthropicUpdate
<1>2. IsSubsetEqual(p, s) <=> ~("agentId" \notin Keys(p) /\ Differs(p, s, {"agentVersion"}))
    BY <1>1, DeploymentSettled
<1>3. FromAnthropicObservation(kind, Updated(x, w, ex)) = s
    BY DEF FromAnthropicObservation
<1> HIDE DEF s
<1> QED
    BY <1>2, <1>3 DEF Settles, Hopeless

LEMMA SessionSettles ==
    ASSUME kind = "session", NEW x, Valid(x), IsMap(x), NEW p, Manifest(p), NEW keys,
           NEW w \in {ToAnthropicNew(kind, p, keys), ToAnthropicUpdate(kind, p, keys)}, Valid(w), IsMap(w), NEW ex
    PROVE  Settles(kind, p, keys, Updated(x, w, ex))
<1> DEFINE s == sessionFromAnthropicObservation(Updated(x, w, ex))
<1>1. w \in {sessionToAnthropicNew(p, keys), sessionToAnthropicUpdate(p)}
    BY DEF ToAnthropicNew, ToAnthropicUpdate
<1>2. IsSubsetEqual(p, s) <=> ~Differs(p, s, {"agentId", "environmentId", "vaultIds"})
    BY <1>1, SessionSettled
<1>3. FromAnthropicObservation(kind, Updated(x, w, ex)) = s
    BY DEF FromAnthropicObservation
<1> HIDE DEF s
<1> QED
    BY <1>2, <1>3 DEF Settles, Hopeless

LEMMA EnvironmentSettles ==
    ASSUME kind = "environment", NEW x, Valid(x), IsMap(x), Formed(kind, x), NEW p, Manifest(p), NEW keys,
           NEW w \in {ToAnthropicNew(kind, p, keys), ToAnthropicUpdate(kind, p, keys)}, Valid(w), IsMap(w),
           Formed(kind, w), NEW ex
    PROVE  Settles(kind, p, keys, Updated(x, w, ex))
<1> DEFINE y == Updated(x, w, ex)
           s == environmentFromAnthropicObservation(y)
           a == At(p, "config")
           b == At(s, "config")
<1>1. w = environmentToAnthropicUpdate(p)
    BY EnvironmentCreated DEF ToAnthropicNew, ToAnthropicUpdate
<1>2. Rooted(At(At(y, "config"), "packages"))
    <2>1. IsTree(y) /\ Formed(kind, y)
        BY AfterUpdate, FormedAfter DEF Kept, Valid
    <2>2. <<"config", "packages">> \in Marks(kind)
        BY DEF Marks
    <2> HIDE DEF y
    <2> QED
        BY <2>1, <2>2, FormedRooted
<1>3. IsSubsetEqual(p, s) <=> ~("type" \notin Keys(At(a, "networking")) /\ Differs(a, b, {"networking"}))
    BY <1>1, <1>2, EnvironmentSettled
<1>4. FromAnthropicObservation(kind, Updated(x, w, ex)) = s
    BY DEF FromAnthropicObservation
<1> HIDE DEF s
<1> QED
    BY <1>3, <1>4 DEF Settles, Hopeless

LEMMA CredentialSettles ==
    ASSUME kind = "credential", NEW x, Valid(x), IsMap(x), Formed(kind, x), NEW p, Manifest(p), NEW keys,
           NEW w \in {ToAnthropicNew(kind, p, keys), ToAnthropicUpdate(kind, p, keys)}, Valid(w), IsMap(w),
           Formed(kind, w), NEW ex
    PROVE  Settles(kind, p, keys, Updated(x, w, ex))
<1> DEFINE y == Updated(x, w, ex)
           s == credentialFromAnthropicObservation(y)
           a == At(p, "auth")
           b == At(s, "auth")
<1>1. w \in {credentialToAnthropicNew(p, keys), credentialToAnthropicUpdate(p, keys)}
    BY DEF ToAnthropicNew, ToAnthropicUpdate
<1>2. Rooted(At(y, "auth")) /\ Rooted(At(At(y, "auth"), "injectionLocation"))
    <2>1. IsTree(y) /\ Formed(kind, y)
        BY AfterUpdate, FormedAfter DEF Kept, Valid
    <2>2. <<"auth">> \in Marks(kind) /\ <<"auth", "injectionLocation">> \in Marks(kind)
        BY DEF Marks
    <2> HIDE DEF y
    <2> QED
        BY <2>1, <2>2, FormedRooted
<1>3. IsSubsetEqual(p, s) <=> ~Differs(a, b, Fixed(a))
    BY <1>1, <1>2, CredentialSettled
<1>4. FromAnthropicObservation(kind, Updated(x, w, ex)) = s
    BY DEF FromAnthropicObservation
<1> HIDE DEF s
<1>5. Hopeless(kind, p, s) <=>
        \/ Differs(a, b, {"mcpServerUrl", "secretName"})
        \/ ("type" \notin Keys(a) \/ "type" \notin Keys(At(a, "networking"))) /\ Differs(a, b, {"networking"})
        \/ "type" \notin Keys(a) /\ Differs(a, b, {"injectionLocation"})
    BY DEF Hopeless
<1> HIDE DEF a, b
<1>6. Hopeless(kind, p, s) <=> Differs(a, b, Fixed(a))
    BY <1>5 DEF Differs, Fixed
<1> QED
    BY <1>3, <1>4, <1>6 DEF Settles

\* Whatever the resource was, after a request that is accepted it is up to date but
\* for what is hopeless.
LEMMA RequestSettles ==
    ASSUME kind \in DOMAIN Base, NEW x, Valid(x), IsMap(x), Formed(kind, x), NEW p, Manifest(p),
           NEW keys \in Secrets,
           NEW w \in {ToAnthropicNew(kind, p, keys), ToAnthropicUpdate(kind, p, keys)}, Valid(w), IsMap(w), NEW ex
    PROVE  Settles(kind, p, keys, Updated(x, w, ex)) /\ Formed(kind, Updated(x, w, ex))
<1>1. Formed(kind, w)
    BY FormedRequest
<1>2. kind \in {"agent", "deployment", "session", "environment", "credential"}
    BY KindsAssumption
<1>3. Settles(kind, p, keys, Updated(x, w, ex))
    BY <1>1, <1>2, AgentSettles, DeploymentSettles, SessionSettles, EnvironmentSettles, CredentialSettles
<1> QED
    BY <1>1, <1>3, FormedAfter

\* The resource is formed; and since nothing changed after a request was accepted,
\* it is up to date, and the worker has seen it as it is.
QuietIsSettled ==
    /\ ext # Nothing => Formed(kind, ext)
    /\ quiet => ext # Nothing /\ Settles(kind, spec, secrets, ext)
    /\ pc = "observed" /\ quiet => work = spec /\ seen = FromAnthropicObservation(kind, ext)

\* A request that is accepted makes the resource formed and up to date.
LEMMA AcceptedSettles ==
    ASSUME IInv, ext # Nothing => Formed(kind, ext), NEW p, Manifest(p), NEW keys \in Secrets,
           NEW w \in {ToAnthropicNew(kind, p, keys), ToAnthropicUpdate(kind, p, keys)}, Accepted(w, ext), NEW ex
    PROVE  /\ Settles(kind, p, keys, After(w, ext, ex)) /\ Formed(kind, After(w, ext, ex))
           /\ After(w, ext, ex) # Nothing
<1>1. kind \in DOMAIN Base /\ (ext = Nothing \/ Kept(kind, ext))
    BY DEF IInv, TypeOK, ResourceKept
<1>2. Valid(w) /\ IsMap(w) /\ Kept(kind, After(w, ext, ex))
    BY <1>1, AcceptedKept
<1>3. After(w, ext, ex) # Nothing
    BY <1>2, NotNothing DEF Kept
<1>4. CASE ext = Nothing
    <2>1. Valid(NoField) /\ IsMap(NoField) /\ Formed(kind, NoField)
        BY ValidNone, LeafTree DEF Formed, NoField
    <2>2. After(w, ext, ex) = Updated(NoField, w, ex)
        BY <1>2, <1>4, AfterIs
    <2> QED
        BY <1>1, <1>2, <1>3, <2>1, <2>2, RequestSettles
<1>5. CASE ext # Nothing
    <2>1. Valid(ext) /\ IsMap(ext)
        BY <1>1, <1>5 DEF Kept
    <2>2. After(w, ext, ex) = Updated(ext, w, ex)
        BY <1>2, <2>1, AfterIs
    <2> QED
        BY <1>1, <1>2, <1>3, <1>5, <2>1, <2>2, RequestSettles
<1> QED
    BY <1>4, <1>5

LEMMA QuietInit == Init => QuietIsSettled
<1> SUFFICES ASSUME Init PROVE ext # Nothing => Formed(kind, ext)
    BY DEF Init, QuietIsSettled
<1>1. kind \in DOMAIN Base /\ FirstSecrets \in Secrets
    BY SecretsType DEF Init
<1>2. SUFFICES ASSUME ext # Nothing PROVE Formed(kind, ext)
    OBVIOUS
<1>3. PICK other \in Simple[kind] :
        /\ Accepted(ToAnthropicNew(kind, other, FirstSecrets), Nothing)
        /\ ext = After(ToAnthropicNew(kind, other, FirstSecrets), Nothing, FALSE)
    BY <1>2 DEF Init
<1> DEFINE w == ToAnthropicNew(kind, other, FirstSecrets)
<1>4. Manifest(other)
    BY <1>1, SimpleManifest
<1>5. Valid(w) /\ IsMap(w)
    BY <1>1, <1>3, <1>4, AcceptedKept
<1>6. Valid(NoField) /\ IsMap(NoField) /\ Formed(kind, NoField)
    BY ValidNone, LeafTree DEF Formed, NoField
<1>7. ext = Updated(NoField, w, FALSE)
    BY <1>3, <1>5, AfterIs
<1>8. Formed(kind, w)
    BY <1>1, <1>4, <1>5, FormedRequest
<1> HIDE DEF w
<1> QED
    BY <1>5, <1>6, <1>7, <1>8, FormedAfter

LEMMA QuietOutOfBand ==
    ASSUME IInv, QuietIsSettled, OutOfBand
    PROVE  QuietIsSettled'
<1>1. kind \in DOMAIN Base /\ Kept(kind, ext) /\ Formed(kind, ext) /\ FirstSecrets \in Secrets
    BY SecretsType DEF IInv, TypeOK, ResourceKept, OutOfBand, QuietIsSettled
<1>2. UNCHANGED kind /\ quiet' = FALSE
    BY DEF OutOfBand, Edit
<1>3. Formed(kind, ext')
    <2>1. ASSUME NEW params \in OtherUpdates[kind], Accepted(params, ext), ext' = After(params, ext, FALSE)
          PROVE  Formed(kind, ext')
        <3>1. PICK p \in Simple[kind] : params = ToAnthropicUpdate(kind, p, FirstSecrets)
            BY <1>1 DEF OtherUpdates
        <3>2. Manifest(p)
            BY <1>1, SimpleManifest
        <3>3. Formed(kind, After(params, ext, FALSE))
            BY <1>1, <2>1, <3>1, <3>2, AcceptedSettles
        <3> QED
            BY <2>1, <3>3
    <2>2. ASSUME NEW k, ext' = Stored(Without(ext, {k})) PROVE Formed(kind, ext')
        BY <1>1, <2>2, FormedStored DEF Kept
    <2> QED
        BY <2>1, <2>2 DEF OutOfBand
<1> QED
    BY <1>2, <1>3 DEF QuietIsSettled

LEMMA QuietCreate ==
    ASSUME IInv, QuietIsSettled, Create
    PROVE  QuietIsSettled'
<1> DEFINE params == ToAnthropicNew(kind, spec, secrets)
<1>1. /\ Manifest(spec) /\ secrets \in Secrets /\ ext = Nothing /\ pc = "idle"
      /\ UNCHANGED <<kind, spec, secrets, pc, work, seen>>
    BY DEF IInv, TypeOK, Secrets, Create
<1>2. CASE Accepted(params, Nothing)
    <2>1. PICK explicit \in Answers : ext' = After(params, Nothing, explicit) /\ quiet' = TRUE
        BY <1>2 DEF Create
    <2>2. Settles(kind, spec, secrets, ext') /\ Formed(kind, ext') /\ ext' # Nothing
        BY <1>1, <1>2, <2>1, AcceptedSettles
    <2> QED
        BY <1>1, <2>2 DEF QuietIsSettled
<1>3. CASE ~Accepted(params, Nothing)
    BY <1>1, <1>3 DEF Create, QuietIsSettled
<1> QED
    BY <1>2, <1>3

LEMMA QuietUpdate ==
    ASSUME IInv, QuietIsSettled, Update
    PROVE  QuietIsSettled'
<1> DEFINE params == ToAnthropicUpdate(kind, work, secrets)
<1>1. /\ Manifest(work) /\ secrets \in Secrets /\ pc' = "idle"
      /\ UNCHANGED <<kind, spec, secrets>>
    BY DEF IInv, TypeOK, Secrets, WorkAdmitted, Update, Return
<1>2. CASE Accepted(params, ext)
    <2>1. PICK explicit \in Answers : ext' = After(params, ext, explicit) /\ quiet' = (work = spec)
        BY <1>2 DEF Update
    <2>2. Settles(kind, work, secrets, ext') /\ Formed(kind, ext') /\ ext' # Nothing
        BY <1>1, <1>2, <2>1, AcceptedSettles DEF QuietIsSettled
    <2> QED
        BY <1>1, <2>1, <2>2 DEF QuietIsSettled
<1>3. CASE ~Accepted(params, ext)
    BY <1>1, <1>3 DEF Update, QuietIsSettled
<1> QED
    BY <1>2, <1>3

LEMMA QuietNext == IInv /\ QuietIsSettled /\ [Next]_vars => QuietIsSettled'
<1> SUFFICES ASSUME IInv, QuietIsSettled, [Next]_vars PROVE QuietIsSettled'
    OBVIOUS
<1>1. CASE EditSpec \/ Rotate
    BY <1>1 DEF EditSpec, Rotate, Edit, QuietIsSettled
<1>2. CASE Observe
    BY <1>2 DEF Observe, QuietIsSettled
<1>3. CASE Rest
    BY <1>3 DEF Rest, Return, QuietIsSettled
<1>4. CASE UNCHANGED vars
    BY <1>4 DEF vars, QuietIsSettled
<1> QED
    BY <1>1, <1>2, <1>3, <1>4, QuietOutOfBand, QuietCreate, QuietUpdate DEF Next

---------------------------------------------------------------------------
(***************************************************************************)
(* The theorem.                                                            *)
(***************************************************************************)

\* One request is enough: a manifest that the API has accepted, and that nobody has
\* changed since, is found up to date at the next Observe, whatever defaults the API
\* filled in; but for what is hopeless, which is never found so.
THEOREM OneIsEnough == Spec => []OneRequestSettles
<1>1. IInv /\ QuietIsSettled => OneRequestSettles
    BY DEF QuietIsSettled, OneRequestSettles, Settles, IsUpToDate
<1>2. Spec => []QuietIsSettled
    BY QuietInit, QuietNext, IInvAlways, PTL DEF Spec
<1> QED
    BY <1>1, <1>2, IInvAlways, PTL
=============================================================================
