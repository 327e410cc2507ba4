------------------------- MODULE DependenciesProofs -------------------------
(***************************************************************************)
(* Theorems about Dependencies, and with it ProviderAccess, for every set  *)
(* of resources, ProviderConfigs, token files and workspaces, every graph  *)
(* of references, and any number of edits and faults.                      *)
(***************************************************************************)
EXTENDS Dependencies, SequenceTheorems, TLAPS

(***************************************************************************)
(* What makes the safety properties inductive.                             *)
(***************************************************************************)

\* A client is under the key of the setting it was built for, and a worker that
\* is connected to federation finds one under its own key.
ClientsKeyed ==
    /\ \A k \in Key : clients[k] # NoClient =>
            /\ clients[k].of \in Setting /\ clients[k].of.identity = "Federation"
            /\ federationKey(clients[k].of) = k
    /\ \A u \in User : pc[u] = "connected" /\ work[u].identity = "Federation" =>
            clients[federationKey(work[u])] # NoClient

\* While a token is there that this process has exchanged, the client that did
\* has the access token it got for it.
ExchangedHasAccess ==
    \A f \in Source : token[f].ours =>
        /\ token[f].by \in Setting /\ token[f].by.identity = "Federation"
        /\ token[f].by.source = f
        /\ clients[federationKey(token[f].by)].access

\* Whoever is connected, or has created something, is recorded as a user, and a
\* ProviderConfig with a user is there unless it went too early.
UsageRecorded ==
    /\ \A u \in User : pc[u] # "idle" => obj[u].here
    /\ \A u \in User : pc[u] = "connected" => u \in usage
    /\ \A u \in User : obj[u].here /\ obj[u].name # 0 => u \in usage
    /\ \A u \in usage : config[uses[u]].here \/ u \in late

\* Identifiers are of resources that were made, and past the first step of a
\* reconcile none is missing.
ResolvedFirst ==
    /\ \A u, t \in User : obj[u].ids[t] <= Len(ext[t])
    /\ \A u \in User : pc[u] # "idle" /\ ~obj[u].deleting =>
            \A t \in References(u) : obj[u].ids[t] # 0

IInv == TypeOK /\ ClientsKeyed /\ ExchangedHasAccess /\ UsageRecorded /\ ResolvedFirst
            /\ NothingSentUnresolved

---------------------------------------------------------------------------
(***************************************************************************)
(* The types.                                                              *)
(***************************************************************************)
LEMMA InitTyped == Init => TypeOK
<1> SUFFICES ASSUME Init PROVE TypeOK
    OBVIOUS
<1>1. PICK s \in Setups :
        /\ uses = s.uses
        /\ config = [c \in Config |-> [here |-> TRUE, deleting |-> FALSE, spec |-> s.specs[c]]]
    BY DEF Init, AccessInit
<1>2. s.uses \in [User -> Config] /\ s.specs \in [Config -> Setting]
    BY SetupAssumption
<1>3. uses \in [User -> Config] /\ config \in [Config -> [here: BOOLEAN, deleting: BOOLEAN, spec: Setting]]
    BY <1>1, <1>2
<1>4. AccessTypeOK
    BY <1>3, BoundAssumption DEF Init, AccessInit, AccessTypeOK, PC, Unspent, NoClient
<1>5. \A u \in User : ext[u] = <<>> /\ Len(ext[u]) = 0
    BY DEF Init
<1> QED
    BY <1>4, <1>5 DEF Init, TypeOK, Object

\* What a client and a token may become.
LEMMA Authenticated ==
    ASSUME TypeOK, NEW u \in User, pc[u] = "connected", Authenticate(u)
    PROVE  /\ clients' \in [Key -> [of: Setting \cup {NoSetting}, access: BOOLEAN]]
           /\ token' \in [Source -> [by: Setting \cup {NoSetting}, ours: BOOLEAN]]
<1>1. work[u] \in Setting
    BY DEF TypeOK, AccessTypeOK
<1>2. federationKey(work[u]) \in Key /\ work[u].source \in Source
    BY <1>1 DEF federationKey, Key, Setting
<1>3. ClientOf(u).of \in Setting \cup {NoSetting}
    BY <1>1, <1>2 DEF ClientOf, TypeOK, AccessTypeOK
<1>4. CASE Exchanges(u)
    <2> DEFINE k == federationKey(work[u])
    <2>1. /\ clients' = [clients EXCEPT ![k].access = TRUE]
          /\ token' = [token EXCEPT ![work[u].source] = [by |-> ClientOf(u).of, ours |-> TRUE]]
        BY <1>4 DEF Authenticate
    <2> HIDE DEF k
    <2>2. clients' \in [Key -> [of: Setting \cup {NoSetting}, access: BOOLEAN]]
        BY <2>1 DEF TypeOK, AccessTypeOK
    <2>3. [by |-> ClientOf(u).of, ours |-> TRUE] \in [by: Setting \cup {NoSetting}, ours: BOOLEAN]
        BY <1>3
    <2> QED
        BY <2>1, <2>2, <2>3 DEF TypeOK, AccessTypeOK
<1>5. CASE ~Exchanges(u)
    BY <1>5 DEF Authenticate, TypeOK, AccessTypeOK
<1> QED
    BY <1>4, <1>5

LEMMA Connected ==
    ASSUME TypeOK, NEW u \in User, Connect(u)
    PROVE  AccessTypeOK'
<1>1. CASE resolveProviderConfig(u)
    <2>1. config[uses[u]].spec \in Setting
        BY DEF TypeOK, AccessTypeOK
    <2>2. /\ pc' \in [User -> PC] /\ work' \in [User -> Setting \cup {NoSetting}]
          /\ \A v \in User : (work[v] = NoSetting <=> pc[v] \in {"idle", "resolved"})'
        <3>1. PICK p \in {"idle", "read"}, w \in Setting \cup {NoSetting} :
                /\ pc' = [pc EXCEPT ![u] = p] /\ work' = [work EXCEPT ![u] = w]
                /\ w = NoSetting <=> p = "idle"
            BY <1>1, <2>1, SettingAssumption DEF resolveProviderConfig, Goto, Return
        <3> QED
            BY <3>1 DEF PC, TypeOK, AccessTypeOK
    <2> QED
        BY <1>1, <2>2 DEF resolveProviderConfig, Connect, setup, bounds, TypeOK, AccessTypeOK
<1>2. CASE pc[u] = "read" /\ Track(u) /\ buildClientFromSpec(u) /\ UNCHANGED <<setup, token>>
    <2>1. work[u] \in Setting
        BY <1>2 DEF TypeOK, AccessTypeOK
    <2>2. federationKey(work[u]) \in Key
        BY <2>1 DEF federationKey, Key, Setting
    <2>3. clients' \in [Key -> [of: Setting \cup {NoSetting}, access: BOOLEAN]]
        <3> DEFINE c == [of |-> work[u], access |-> FALSE]
        <3>1. c \in [of: Setting \cup {NoSetting}, access: BOOLEAN]
            BY <2>1
        <3>2. clients' = clients \/ clients' = [clients EXCEPT ![federationKey(work[u])] = c]
            BY <1>2 DEF buildClientFromSpec, federationClient
        <3> QED
            BY <2>2, <3>1, <3>2 DEF TypeOK, AccessTypeOK
    <2>4. usage' \subseteq User /\ listed' \subseteq usage' /\ late' \subseteq User
        BY <1>2 DEF Track, TypeOK, AccessTypeOK
    <2>5. /\ pc' \in [User -> PC] /\ work' \in [User -> Setting \cup {NoSetting}]
          /\ \A v \in User : (work[v] = NoSetting <=> pc[v] \in {"idle", "resolved"})'
        <3>1. work[u] # NoSetting
            BY <2>1, SettingAssumption
        <3>2. \/ pc' = [pc EXCEPT ![u] = "connected"] /\ work' = work
              \/ pc' = [pc EXCEPT ![u] = "idle"] /\ work' = [work EXCEPT ![u] = NoSetting]
            BY <1>2 DEF buildClientFromSpec, Goto, Return
        <3> QED
            BY <3>1, <3>2 DEF PC, TypeOK, AccessTypeOK
    <2> QED
        BY <1>2, <2>3, <2>4, <2>5 DEF Connect, setup, bounds, TypeOK, AccessTypeOK
<1> QED
    BY <1>1, <1>2 DEF Connect, NewClient

\* A worker that returns, and a client that may have authenticated itself.
LEMMA Returned ==
    ASSUME TypeOK, NEW u \in User, Return(u),
           (pc[u] = "connected" /\ Authenticate(u)) \/ UNCHANGED <<clients, token>>,
           UNCHANGED <<setup, usage, listed, late>>, edits' \in 0..MaxEdits, faults' \in 0..MaxFaults
    PROVE  AccessTypeOK'
<1>1. /\ clients' \in [Key -> [of: Setting \cup {NoSetting}, access: BOOLEAN]]
      /\ token' \in [Source -> [by: Setting \cup {NoSetting}, ours: BOOLEAN]]
    BY Authenticated DEF TypeOK, AccessTypeOK
<1>2. /\ pc' \in [User -> PC] /\ work' \in [User -> Setting \cup {NoSetting}]
      /\ \A v \in User : (work[v] = NoSetting <=> pc[v] \in {"idle", "resolved"})'
    BY DEF Return, Goto, PC, TypeOK, AccessTypeOK
<1> QED
    BY <1>1, <1>2 DEF setup, TypeOK, AccessTypeOK

---------------------------------------------------------------------------
(***************************************************************************)
(* A client is for the setting that was asked for: there is but one under  *)
(* every key, and identities with the same key are the same.               *)
(***************************************************************************)
LEMMA KeyedAsConfigured == TypeOK /\ ClientsKeyed => CallsAsConfigured
<1> SUFFICES ASSUME TypeOK, ClientsKeyed, NEW u \in User, pc[u] = "connected"
             PROVE  ClientOf(u).of = work[u]
    BY DEF CallsAsConfigured
<1>1. work[u] \in Setting
    BY DEF TypeOK, AccessTypeOK
<1>2. CASE work[u].identity = "Federation"
    <2> DEFINE k == federationKey(work[u])
    <2>1. k \in Key
        BY <1>1 DEF federationKey, Key, Setting
    <2>2. /\ clients[k].of \in Setting /\ clients[k].of.identity = "Federation"
          /\ federationKey(clients[k].of) = k
        BY <1>2, <2>1 DEF ClientsKeyed
    <2>3. clients[k].of = work[u]
        BY <1>1, <1>2, <2>2 DEF federationKey, Setting
    <2> QED
        BY <1>2, <2>3 DEF ClientOf
<1>3. CASE work[u].identity # "Federation"
    BY <1>3 DEF ClientOf
<1> QED
    BY <1>2, <1>3

---------------------------------------------------------------------------
(***************************************************************************)
(* What a call does to the world.                                          *)
(***************************************************************************)
World ==
    /\ obj \in [User -> Object]
    /\ ext \in [User -> Seq(Workspace \cup {Nowhere})]
    /\ told \in [User -> [User -> Nat]]
    /\ \A u \in User :
        /\ obj[u].deleting => obj[u].here
        /\ obj[u].name = Len(ext[u]) /\ obj[u].reported <= obj[u].name

LEMMA Lengths == ASSUME TypeOK, NEW u \in User PROVE Len(ext[u]) \in Nat
BY LenProperties DEF TypeOK

\* Resources are numbered in the order they are made.
LEMMA CreateMakesOne ==
    ASSUME TypeOK, ClientsKeyed, NEW u \in User, pc[u] = "connected", Create(u)
    PROVE  World' /\ \A v \in User : Len(ext'[v]) >= Len(ext[v])
<1> DEFINE w == ClientOf(u).of.workspace
           n == Len(ext[u]) + 1
<1>1. PICK r \in {obj[u].reported, n} :
            /\ obj' = [obj EXCEPT ![u].name = n, ![u].reported = r]
            /\ ext' = [ext EXCEPT ![u] = Append(ext[u], w)]
            /\ told' = [told EXCEPT ![u] = obj[u].ids]
    BY DEF Create, TypeOK
<1>2. w \in Workspace
    BY KeyedAsConfigured DEF CallsAsConfigured, TypeOK, AccessTypeOK, Setting
<1>3. Append(ext[u], w) \in Seq(Workspace \cup {Nowhere}) /\ Len(Append(ext[u], w)) = n
    BY <1>2, AppendProperties DEF TypeOK
<1>4. n \in Nat /\ r \in Nat /\ r <= n
    BY Lengths DEF TypeOK, Object
<1> HIDE DEF w, n
<1>5. ext' \in [User -> Seq(Workspace \cup {Nowhere})]
    BY <1>1, <1>3 DEF TypeOK
<1>6. obj' \in [User -> Object] /\ told' \in [User -> [User -> Nat]]
    BY <1>1, <1>4 DEF TypeOK, Object
<1>7. ASSUME NEW v \in User
      PROVE  /\ obj'[v].deleting => obj'[v].here
             /\ obj'[v].name = Len(ext'[v]) /\ obj'[v].reported <= obj'[v].name
             /\ Len(ext'[v]) >= Len(ext[v])
    <2>1. CASE v = u
        BY <1>1, <1>3, <1>4, <2>1, Lengths DEF TypeOK, Object, n
    <2>2. CASE v # u
        <3>1. obj'[v] = obj[v] /\ ext'[v] = ext[v]
            BY <1>1, <2>2 DEF TypeOK
        <3> QED
            BY <3>1, Lengths DEF TypeOK
    <2> QED
        BY <2>1, <2>2
<1> QED
    BY <1>5, <1>6, <1>7 DEF World

\* None is forgotten when it is archived or deleted.
LEMMA Archived ==
    ASSUME TypeOK, NEW u \in User, obj[u].name # 0,
           ext' = [ext EXCEPT ![u][obj[u].name] = Nowhere], UNCHANGED <<obj, told>>
    PROVE  World' /\ \A v \in User : Len(ext'[v]) = Len(ext[v])
<1> DEFINE e == [ext[u] EXCEPT ![obj[u].name] = Nowhere]
<1>1. obj[u].name \in 1..Len(ext[u]) /\ ext[u] \in Seq(Workspace \cup {Nowhere})
    BY Lengths DEF TypeOK, Object
<1>2. e \in Seq(Workspace \cup {Nowhere}) /\ Len(e) = Len(ext[u])
    BY <1>1, ExceptSeq
<1>3. ext' = [ext EXCEPT ![u] = e]
    OBVIOUS
<1> HIDE DEF e
<1>4. ext' \in [User -> Seq(Workspace \cup {Nowhere})]
    BY <1>2, <1>3 DEF TypeOK
<1>5. \A v \in User : Len(ext'[v]) = Len(ext[v])
    BY <1>2, <1>3 DEF TypeOK
<1> QED
    BY <1>4, <1>5 DEF World, TypeOK

LEMMA CallKeepsWorld ==
    ASSUME TypeOK, ClientsKeyed, NEW u \in User, Call(u)
    PROVE  World' /\ \A v \in User : Len(ext'[v]) >= Len(ext[v])
<1>1. CASE UNCHANGED <<obj, ext, told>>
    BY <1>1, Lengths DEF World, TypeOK
<1>2. CASE Create(u)
    BY <1>2, CreateMakesOne DEF Call
<1>3. CASE ObserveAndUpdate(u)
    <2>1. /\ obj' = [obj EXCEPT ![u].reported = obj[u].name]
          /\ told' = [told EXCEPT ![u] = obj[u].ids] /\ ext' = ext
        BY <1>3 DEF ObserveAndUpdate
    <2>2. obj' \in [User -> Object] /\ told' \in [User -> [User -> Nat]]
        BY <2>1 DEF TypeOK, Object
    <2>3. ASSUME NEW v \in User
          PROVE  /\ obj'[v].here = obj[v].here /\ obj'[v].deleting = obj[v].deleting
                 /\ obj'[v].name = obj[v].name /\ obj'[v].reported \in {obj[v].reported, obj[v].name}
        BY <2>1 DEF TypeOK, Object
    <2>4. \A v \in User : obj[v].name \in Nat
        BY DEF TypeOK, Object
    <2> QED
        BY <2>1, <2>2, <2>3, <2>4, Lengths DEF World, TypeOK
<1>4. CASE Delete(u)
    <2>1. World' /\ \A v \in User : Len(ext'[v]) = Len(ext[v])
        BY <1>4, Archived DEF Delete, Present
    <2> QED
        BY <2>1, Lengths
<1>5. CASE LetGo(u)
    <2>1. /\ obj' = [obj EXCEPT ![u].here = FALSE, ![u].deleting = FALSE]
          /\ ext' = ext /\ told' = told
        BY <1>5 DEF LetGo
    <2>2. obj' \in [User -> Object]
        BY <2>1 DEF TypeOK, Object
    <2>3. ASSUME NEW v \in User
          PROVE  /\ obj'[v].deleting => obj'[v].here
                 /\ obj'[v].name = obj[v].name /\ obj'[v].reported = obj[v].reported
        BY <2>1 DEF TypeOK, Object
    <2> QED
        BY <2>1, <2>2, <2>3, Lengths DEF World, TypeOK
<1> QED
    BY <1>1, <1>2, <1>3, <1>4, <1>5 DEF Call

---------------------------------------------------------------------------
(***************************************************************************)
(* Every step keeps the types, and forgets no resource that was made.      *)
(***************************************************************************)
LEMMA WorldStays ==
    ASSUME TypeOK, UNCHANGED world
    PROVE  World' /\ \A v \in User : Len(ext'[v]) >= Len(ext[v])
BY Lengths DEF world, World, TypeOK

\* The objects and workers, after some objects were asked to go.
LEMMA AfterRequest ==
    ASSUME TypeOK, NEW D \in SUBSET User, RequestDelete(D)
    PROVE  /\ obj' \in [User -> Object]
           /\ pc' \in [User -> PC] /\ work' \in [User -> Setting \cup {NoSetting}]
           /\ \A v \in User :
                /\ obj'[v].name = obj[v].name /\ obj'[v].reported = obj[v].reported
                /\ obj'[v].ids = obj[v].ids
                /\ obj'[v].here => obj[v].here
                /\ obj'[v].deleting => obj'[v].here
                /\ obj[v].deleting => obj'[v].deleting
                /\ \/ pc'[v] = "idle" /\ work'[v] = NoSetting
                   \/ pc'[v] = pc[v] /\ work'[v] = work[v] /\ obj'[v].here = obj[v].here
<1> DEFINE gone == {u \in D : obj[u].name = 0}
<1>1. /\ \A u \in D : obj[u].here /\ ~obj[u].deleting
      /\ obj' = [u \in User |-> CASE u \in gone     -> [obj[u] EXCEPT !.here = FALSE]
                                  [] u \in D \ gone -> [obj[u] EXCEPT !.deleting = TRUE]
                                  [] OTHER          -> obj[u]]
      /\ pc' = [u \in User |-> IF u \in gone THEN "idle" ELSE pc[u]]
      /\ work' = [u \in User |-> IF u \in gone THEN NoSetting ELSE work[u]]
    BY DEF RequestDelete
<1>2. gone \subseteq D
    OBVIOUS
<1> HIDE DEF gone
<1>3. ASSUME NEW v \in User
      PROVE  /\ obj'[v] \in Object
             /\ obj'[v].name = obj[v].name /\ obj'[v].reported = obj[v].reported
             /\ obj'[v].ids = obj[v].ids
             /\ obj'[v].here => obj[v].here
             /\ obj'[v].deleting => obj'[v].here
             /\ obj[v].deleting => obj'[v].deleting
             /\ v \notin gone => obj'[v].here = obj[v].here
    <2>0. obj[v] \in Object /\ (obj[v].deleting => obj[v].here)
        BY DEF TypeOK
    <2>1. CASE v \in gone
        <3>1. obj'[v] = [obj[v] EXCEPT !.here = FALSE] /\ ~obj[v].deleting
            BY <1>1, <1>2, <2>1
        <3> QED
            BY <2>0, <2>1, <3>1 DEF Object
    <2>2. CASE v \in D \ gone
        <3>1. obj'[v] = [obj[v] EXCEPT !.deleting = TRUE] /\ obj[v].here
            BY <1>1, <2>2
        <3> QED
            BY <2>0, <2>2, <3>1 DEF Object
    <2>3. CASE v \notin D
        BY <1>1, <1>2, <2>0, <2>3
    <2> QED
        BY <2>1, <2>2, <2>3
<1>4. obj' \in [User -> Object]
    BY <1>1, <1>3
<1>5. /\ pc' \in [User -> PC] /\ work' \in [User -> Setting \cup {NoSetting}]
      /\ \A v \in User : IF v \in gone THEN pc'[v] = "idle" /\ work'[v] = NoSetting
                                       ELSE pc'[v] = pc[v] /\ work'[v] = work[v]
    BY <1>1 DEF TypeOK, AccessTypeOK, PC
<1> QED
    BY <1>3, <1>4, <1>5

\* ProviderConfigs, after some were asked to go.
LEMMA AfterDeletions ==
    ASSUME TypeOK, Deletions
    PROVE  /\ \E D \in SUBSET User : RequestDelete(D)
           /\ config' \in [Config -> [here: BOOLEAN, deleting: BOOLEAN, spec: Setting]]
           /\ \A c \in Config : config'[c].here = config[c].here
<1>1. ASSUME NEW C, DeleteConfigs(C)
      PROVE  /\ config' \in [Config -> [here: BOOLEAN, deleting: BOOLEAN, spec: Setting]]
             /\ \A c \in Config : config'[c].here = config[c].here
    <2>1. ASSUME NEW c \in Config
          PROVE  /\ config'[c] \in [here: BOOLEAN, deleting: BOOLEAN, spec: Setting]
                 /\ config'[c].here = config[c].here
        <3>1. config[c] \in [here: BOOLEAN, deleting: BOOLEAN, spec: Setting]
            BY DEF TypeOK, AccessTypeOK
        <3>2. config'[c] = config[c] \/ config'[c] = [config[c] EXCEPT !.deleting = TRUE]
            BY <1>1 DEF DeleteConfigs
        <3> QED
            BY <3>1, <3>2
    <2>2. config' = [c \in Config |-> config'[c]]
        BY <1>1 DEF DeleteConfigs
    <2> QED
        BY <2>1, <2>2
<1>2. CASE \E u \in User : RequestDelete({u}) /\ UNCHANGED config
    BY <1>2 DEF TypeOK, AccessTypeOK
<1>3. CASE \E c \in Config : RequestDelete({}) /\ DeleteConfigs({c})
    BY <1>1, <1>3
<1>4. CASE RequestDelete(User) /\ DeleteConfigs(Config)
    BY <1>1, <1>4
<1> QED
    BY <1>2, <1>3, <1>4 DEF Deletions

LEMMA DeletionsTyped ==
    ASSUME TypeOK, Deletions, edits' \in 0..MaxEdits, faults' = faults
    PROVE  AccessTypeOK' /\ graph' = graph /\ World' /\ UNCHANGED ext
<1>1. PICK D \in SUBSET User : RequestDelete(D)
    BY AfterDeletions
<1>2. /\ UNCHANGED <<uses, secret, token, clients, usage, listed, late, graph, ext, told>>
    BY <1>1 DEF RequestDelete
<1>3. /\ obj' \in [User -> Object]
      /\ pc' \in [User -> PC] /\ work' \in [User -> Setting \cup {NoSetting}]
      /\ \A v \in User :
            /\ obj'[v].name = obj[v].name /\ obj'[v].reported = obj[v].reported
            /\ obj'[v].deleting => obj'[v].here
            /\ \/ pc'[v] = "idle" /\ work'[v] = NoSetting
               \/ pc'[v] = pc[v] /\ work'[v] = work[v]
    BY <1>1, AfterRequest
<1>4. \A v \in User : (work[v] = NoSetting <=> pc[v] \in {"idle", "resolved"})'
    BY <1>3 DEF TypeOK, AccessTypeOK
<1>5. World'
    BY <1>2, <1>3 DEF World, TypeOK
<1>6. AccessTypeOK'
    BY <1>2, <1>3, <1>4, AfterDeletions DEF TypeOK, AccessTypeOK
<1> QED
    BY <1>2, <1>5, <1>6

\* What Anthropic, the kubelet and users do to tokens, clients and ProviderConfigs.
LEMMA AccessTyped ==
    ASSUME TypeOK, UNCHANGED bounds,
           \/ \E f \in Source : Rotate(f)
           \/ \E k \in Key : Expire(k)
           \/ \E c \in Config : Release(c)
           \/ \E u \in User : ListUsage(u)
    PROVE  AccessTypeOK'
<1>1. CASE \E f \in Source : Rotate(f)
    BY <1>1 DEF Rotate, Unspent, setup, bounds, TypeOK, AccessTypeOK
<1>2. CASE \E k \in Key : Expire(k)
    <2>1. clients' \in [Key -> [of: Setting \cup {NoSetting}, access: BOOLEAN]]
        <3>1. PICK k \in Key : clients' = [clients EXCEPT ![k].access = FALSE]
            BY <1>2 DEF Expire
        <3> QED
            BY <3>1 DEF TypeOK, AccessTypeOK
    <2> QED
        BY <1>2, <2>1 DEF Expire, setup, bounds, TypeOK, AccessTypeOK
<1>3. CASE \E c \in Config : Release(c)
    <2>1. config' \in [Config -> [here: BOOLEAN, deleting: BOOLEAN, spec: Setting]]
        <3>1. PICK c \in Config :
                config' = [config EXCEPT ![c] = [config[c] EXCEPT !.here = FALSE, !.deleting = FALSE]]
            BY <1>3 DEF Release, SetConfig
        <3> DEFINE e == [config[c] EXCEPT !.here = FALSE, !.deleting = FALSE]
        <3>2. config[c] \in [here: BOOLEAN, deleting: BOOLEAN, spec: Setting]
            BY DEF TypeOK, AccessTypeOK
        <3>3. e \in [here: BOOLEAN, deleting: BOOLEAN, spec: Setting]
            BY <3>2
        <3>4. config' = [config EXCEPT ![c] = e]
            BY <3>1
        <3> HIDE DEF e
        <3> QED
            BY <3>3, <3>4 DEF TypeOK, AccessTypeOK
    <2> QED
        BY <1>3, <2>1 DEF Release, SetConfig, bounds, TypeOK, AccessTypeOK
<1>4. CASE \E u \in User : ListUsage(u)
    BY <1>4 DEF ListUsage, setup, bounds, TypeOK, AccessTypeOK
<1> QED
    BY <1>1, <1>2, <1>3, <1>4

LEMMA EditsTyped ==
    ASSUME TypeOK, Edits
    PROVE  AccessTypeOK' /\ graph' = graph /\ World' /\ \A v \in User : Len(ext'[v]) >= Len(ext[v])
<1>1. edits' \in 0..MaxEdits /\ faults' = faults
    BY BoundAssumption DEF Edits, TypeOK, AccessTypeOK
<1>2. CASE Deletions
    BY <1>1, <1>2, DeletionsTyped, Lengths
<1>3. CASE \E u \in User : Archive(u)
    <2>1. World' /\ \A v \in User : Len(ext'[v]) = Len(ext[v])
        BY <1>3, Archived DEF Archive
    <2>2. AccessTypeOK' /\ graph' = graph
        BY <1>1, <1>3 DEF Archive, access, setup, TypeOK, AccessTypeOK
    <2> QED
        BY <2>1, <2>2, Lengths
<1>4. CASE \E c \in Config, s \in Settings : EditConfig(c, s) /\ UNCHANGED world
    <2>1. PICK c \in Config, s \in Settings : EditConfig(c, s) /\ UNCHANGED world
        BY <1>4
    <2>2. s \in Setting
        BY SetupAssumption
    <2>3. config' \in [Config -> [here: BOOLEAN, deleting: BOOLEAN, spec: Setting]]
        BY <2>1, <2>2 DEF EditConfig, SetConfig, TypeOK, AccessTypeOK
    <2>4. AccessTypeOK'
        BY <1>1, <2>1, <2>3 DEF EditConfig, SetConfig, TypeOK, AccessTypeOK
    <2> QED
        BY <2>1, <2>4, WorldStays DEF world
<1>5. CASE \E s \in Source : EditSecret(s) /\ UNCHANGED world
    <2>1. AccessTypeOK'
        BY <1>1, <1>5 DEF EditSecret, TypeOK, AccessTypeOK
    <2> QED
        BY <1>5, <2>1, WorldStays DEF world
<1> QED
    BY <1>2, <1>3, <1>4, <1>5 DEF Edits

LEMMA FaultsTyped ==
    ASSUME TypeOK, Faults
    PROVE  AccessTypeOK' /\ graph' = graph /\ World' /\ \A v \in User : Len(ext'[v]) >= Len(ext[v])
<1>1. edits' \in 0..MaxEdits /\ faults' \in 0..MaxFaults /\ UNCHANGED world
    BY BoundAssumption DEF Faults, TypeOK, AccessTypeOK
<1>2. CASE Restart
    <2>1. /\ token' \in [Source -> [by: Setting \cup {NoSetting}, ours: BOOLEAN]]
          /\ clients' \in [Key -> [of: Setting \cup {NoSetting}, access: BOOLEAN]]
        BY <1>2 DEF Restart, NoClient, TypeOK, AccessTypeOK
    <2> QED
        BY <1>1, <1>2, <2>1, WorldStays DEF Restart, setup, world, PC, TypeOK, AccessTypeOK
<1>3. CASE \E u \in User : Abandon(u)
    <2>1. AccessTypeOK'
        BY <1>1, <1>3, Returned DEF Abandon
    <2> QED
        BY <1>1, <2>1, WorldStays DEF world
<1> QED
    BY <1>2, <1>3 DEF Faults

LEMMA ResolveTyped ==
    ASSUME TypeOK, NEW u \in User, ResolveReferences(u)
    PROVE  AccessTypeOK' /\ graph' = graph /\ World' /\ UNCHANGED ext
<1> DEFINE ids == [t \in User |-> IF t \in References(u) /\ ~IsNoOp(u, t)
                                  THEN ComputedFieldExtractor(t) ELSE obj[u].ids[t]]
<1>1. obj' = obj \/ obj' = [obj EXCEPT ![u].ids = ids]
    BY DEF ResolveReferences, TypeOK
<1>2. \A v \in User : obj[v] \in Object
    BY DEF TypeOK
<1>3. ids \in [User -> Nat]
    BY <1>2 DEF ComputedFieldExtractor, Object
<1> HIDE DEF ids
<1>4. ASSUME obj' = [obj EXCEPT ![u].ids = ids]
      PROVE  /\ obj' \in [User -> Object]
             /\ \A v \in User :
                    /\ obj'[v].here = obj[v].here /\ obj'[v].deleting = obj[v].deleting
                    /\ obj'[v].name = obj[v].name /\ obj'[v].reported = obj[v].reported
    <2>1. [obj[u] EXCEPT !.ids = ids] \in Object
        BY <1>2, <1>3 DEF Object
    <2>2. obj' = [obj EXCEPT ![u] = [obj[u] EXCEPT !.ids = ids]]
        BY <1>4
    <2>3. obj' \in [User -> Object]
        BY <2>1, <2>2 DEF TypeOK
    <2>4. \A v \in User : obj'[v] = IF v = u THEN [obj[u] EXCEPT !.ids = ids] ELSE obj[v]
        BY <2>2 DEF TypeOK
    <2> QED
        BY <1>2, <2>3, <2>4 DEF Object
<1>5. /\ obj' \in [User -> Object]
      /\ \A v \in User : /\ obj'[v].here = obj[v].here /\ obj'[v].deleting = obj[v].deleting
                          /\ obj'[v].name = obj[v].name /\ obj'[v].reported = obj[v].reported
    BY <1>1, <1>4 DEF TypeOK
<1>6. ext' = ext /\ told' = told /\ graph' = graph
    BY DEF ResolveReferences
<1>7. World'
    BY <1>5, <1>6 DEF World, TypeOK
<1>8. AccessTypeOK'
    BY DEF ResolveReferences, Goto, setup, bounds, PC, TypeOK, AccessTypeOK
<1> QED
    BY <1>6, <1>7, <1>8

LEMMA TypeNext ==
    ASSUME TypeOK, ClientsKeyed, [Next]_vars
    PROVE  TypeOK' /\ \A v \in User : Len(ext'[v]) >= Len(ext[v])
<1> SUFFICES AccessTypeOK' /\ graph' = graph /\ World' /\ \A v \in User : Len(ext'[v]) >= Len(ext[v])
    BY DEF World, TypeOK
<1>1. CASE \E u \in User : Worker(u)
    <2>1. PICK u \in User : Worker(u)
        BY <1>1
    <2>2. CASE ResolveReferences(u)
        BY <2>2, ResolveTyped, Lengths
    <2>3. CASE Connect(u)
        BY <2>3, Connected, WorldStays DEF Connect, world
    <2>4. CASE Call(u)
        <3>1. AccessTypeOK'
            BY <2>4, Returned DEF Call, bounds, TypeOK, AccessTypeOK
        <3> QED
            BY <2>4, <3>1, CallKeepsWorld DEF Call
    <2> QED
        BY <2>1, <2>2, <2>3, <2>4 DEF Worker
<1>2. CASE Edits
    BY <1>2, EditsTyped
<1>3. CASE Faults
    BY <1>3, FaultsTyped
<1>4. CASE Cluster
    <2>1. UNCHANGED <<bounds, world>>
        BY <1>4 DEF Cluster, Housekeeping, Collect
    <2>2. ASSUME NEW u \in User, Collect(u)
          PROVE  AccessTypeOK'
        BY <2>2 DEF Collect, setup, bounds, TypeOK, AccessTypeOK
    <2>3. AccessTypeOK'
        BY <1>4, <2>1, <2>2, AccessTyped DEF Cluster, Housekeeping
    <2> QED
        BY <2>1, <2>3, WorldStays DEF world
<1>5. CASE Expiry
    BY <1>5, AccessTyped, WorldStays DEF Expiry, world
<1>6. CASE UNCHANGED vars
    BY <1>6, WorldStays DEF vars, access, setup, bounds, world, TypeOK, AccessTypeOK
<1> QED
    BY <1>1, <1>2, <1>3, <1>4, <1>5, <1>6 DEF Next

---------------------------------------------------------------------------
(***************************************************************************)
(* Clients and tokens.  What happens to them: a client is put where there  *)
(* was none; one gets or loses its access token; a token is replaced; all  *)
(* clients are lost.                                                       *)
(***************************************************************************)
ClientsInv == ClientsKeyed /\ ExchangedHasAccess

\* Nobody becomes connected, and nobody connected is given another setting.
NoneConnects == \A u \in User : pc'[u] = "connected" => pc[u] = "connected" /\ work'[u] = work[u]

LEMMA Keyed ==
    ASSUME TypeOK, NEW u \in User, work[u] # NoSetting
    PROVE  work[u] \in Setting /\ federationKey(work[u]) \in Key /\ work[u].source \in Source
BY DEF TypeOK, AccessTypeOK, federationKey, Key, Setting

LEMMA ConnectedKnows ==
    ASSUME TypeOK, NEW u \in User, pc[u] = "connected"
    PROVE  work[u] # NoSetting
BY DEF TypeOK, AccessTypeOK

LEMMA ClientsUntouched ==
    ASSUME ClientsInv, UNCHANGED <<clients, token>>, NoneConnects
    PROVE  ClientsInv'
BY DEF ClientsInv, ClientsKeyed, ExchangedHasAccess, NoneConnects

LEMMA ClientBuilt ==
    ASSUME TypeOK, ClientsInv, NEW u \in User, pc[u] = "read",
           buildClientFromSpec(u), UNCHANGED token
    PROVE  ClientsInv'
<1> DEFINE k == federationKey(work[u])
           c == [of |-> work[u], access |-> FALSE]
<1>0. work[u] \in Setting /\ k \in Key
    BY Keyed DEF TypeOK, AccessTypeOK
<1>1. CASE NoneConnects /\ clients' = clients
    BY <1>1, ClientsUntouched
<1>2. CASE work[u].identity = "Federation" /\ federationClient(work[u])
            /\ Goto(u, "connected") /\ UNCHANGED work
    <2>1. \/ clients[k] # NoClient /\ clients' = clients
          \/ clients[k] = NoClient /\ clients' = [clients EXCEPT ![k] = c]
        BY <1>2 DEF federationClient
    <2>2. c # NoClient
        BY <1>0, SettingAssumption DEF NoClient
    <2>3. clients \in [Key -> [of: Setting \cup {NoSetting}, access: BOOLEAN]]
        BY DEF TypeOK, AccessTypeOK
    <2>4. /\ \A j \in Key : clients'[j] = clients[j] \/ (j = k /\ clients'[j] = c /\ ~clients[j].access)
          /\ \A j \in Key : clients[j] # NoClient => clients'[j] = clients[j]
          /\ clients'[k] # NoClient
        BY <1>0, <2>1, <2>2, <2>3 DEF NoClient
    <2>5. ASSUME NEW j \in Key, clients'[j] # NoClient
          PROVE  /\ clients'[j].of \in Setting /\ clients'[j].of.identity = "Federation"
                 /\ federationKey(clients'[j].of) = j
        <3>1. CASE clients'[j] = clients[j]
            BY <2>5, <3>1 DEF ClientsInv, ClientsKeyed
        <3>2. CASE j = k /\ clients'[j] = c
            <4>1. clients'[j].of = work[u]
                BY <3>2
            <4> QED
                BY <1>0, <1>2, <3>2, <4>1
        <3> QED
            BY <2>4, <3>1, <3>2
    <2>6. ASSUME NEW v \in User, pc'[v] = "connected", work'[v].identity = "Federation"
          PROVE  clients'[federationKey(work'[v])] # NoClient
        <3>1. CASE v = u
            BY <1>2, <2>4, <3>1
        <3>2. CASE v # u
            <4>1. pc[v] = "connected" /\ work'[v] = work[v]
                BY <1>2, <2>6, <3>2 DEF Goto, TypeOK, AccessTypeOK
            <4> QED
                BY <2>4, <2>6, <4>1, Keyed, ConnectedKnows DEF ClientsInv, ClientsKeyed
        <3> QED
            BY <3>1, <3>2
    <2>7. ASSUME NEW f \in Source, token'[f].ours
          PROVE  /\ token'[f].by \in Setting /\ token'[f].by.identity = "Federation"
                 /\ token'[f].by.source = f
                 /\ clients'[federationKey(token'[f].by)].access
        <3>1. /\ token[f].by \in Setting /\ token[f].by.identity = "Federation"
              /\ token[f].by.source = f
              /\ clients[federationKey(token[f].by)].access
            BY <2>7 DEF ClientsInv, ExchangedHasAccess
        <3>2. federationKey(token[f].by) \in Key
            BY <3>1 DEF federationKey, Key, Setting
        <3>3. clients[federationKey(token[f].by)] # NoClient
            BY <3>1 DEF NoClient
        <3> QED
            BY <2>4, <3>1, <3>2, <3>3
    <2> QED
        BY <2>5, <2>6, <2>7 DEF ClientsInv, ClientsKeyed, ExchangedHasAccess
<1>3. CASE work[u].identity # "Federation" /\ Goto(u, "connected") /\ UNCHANGED <<clients, work>>
    <2>1. \A v \in User : pc'[v] = "connected" => v = u \/ pc[v] = "connected"
        BY <1>3 DEF Goto, TypeOK, AccessTypeOK
    <2> QED
        BY <1>3, <2>1 DEF ClientsInv, ClientsKeyed, ExchangedHasAccess
<1>4. CASE Return(u) /\ UNCHANGED clients
    BY <1>1, <1>4 DEF Return, Goto, NoneConnects, TypeOK, AccessTypeOK
<1> QED
    BY <1>2, <1>3, <1>4 DEF buildClientFromSpec

LEMMA ClientAuthenticated ==
    ASSUME TypeOK, ClientsInv, NEW u \in User, pc[u] = "connected", Authenticate(u), NoneConnects
    PROVE  ClientsInv'
<1> DEFINE k == federationKey(work[u])
<1>0. work[u] \in Setting /\ k \in Key /\ work[u].source \in Source
    BY Keyed, ConnectedKnows
<1>1. CASE ~Exchanges(u)
    BY <1>1, ClientsUntouched DEF Authenticate
<1>2. CASE Exchanges(u)
    <2>1. /\ clients' = [clients EXCEPT ![k] = [clients[k] EXCEPT !.access = TRUE]]
          /\ token' = [token EXCEPT ![work[u].source] = [by |-> ClientOf(u).of, ours |-> TRUE]]
        BY <1>2 DEF Authenticate
    <2>2. ClientOf(u).of = work[u] /\ work[u].identity = "Federation"
        BY <1>2, KeyedAsConfigured DEF Exchanges, ClientOf, CallsAsConfigured, ClientsInv
    <2>3. \A j \in Key : clients[j] \in [of: Setting \cup {NoSetting}, access: BOOLEAN]
        BY DEF TypeOK, AccessTypeOK
    <2>4. clients[k] # NoClient
        BY <1>2, <2>2 DEF Exchanges, ClientsInv, ClientsKeyed
    <2>5. /\ \A j \in Key : clients'[j].of = clients[j].of
          /\ \A j \in Key : clients[j].access => clients'[j].access
          /\ \A j \in Key : j # k => clients'[j] = clients[j]
          /\ clients'[k].access
        BY <1>0, <2>1, <2>3 DEF TypeOK, AccessTypeOK
    <2>6. \A j \in Key : clients'[j] # NoClient <=> clients[j] # NoClient
        BY <2>4, <2>5 DEF NoClient
    <2>7. ASSUME NEW f \in Source, token'[f].ours
          PROVE  /\ token'[f].by \in Setting /\ token'[f].by.identity = "Federation"
                 /\ token'[f].by.source = f
                 /\ clients'[federationKey(token'[f].by)].access
        <3>1. CASE f = work[u].source
            <4>1. token'[f].by = work[u]
                BY <2>1, <2>2, <3>1 DEF TypeOK, AccessTypeOK
            <4> QED
                BY <1>0, <2>2, <2>5, <3>1, <4>1
        <3>2. CASE f # work[u].source
            <4>1. token'[f] = token[f]
                BY <2>1, <3>2 DEF TypeOK, AccessTypeOK
            <4>2. federationKey(token[f].by) \in Key
                BY <2>7, <4>1 DEF ClientsInv, ExchangedHasAccess, federationKey, Key, Setting
            <4> QED
                BY <2>5, <2>7, <4>1, <4>2 DEF ClientsInv, ExchangedHasAccess
        <3> QED
            BY <3>1, <3>2
    <2>8. ClientsKeyed'
        <3>1. ASSUME NEW v \in User, pc'[v] = "connected", work'[v].identity = "Federation"
              PROVE  clients'[federationKey(work'[v])] # NoClient
            BY <2>6, <3>1, Keyed, ConnectedKnows DEF NoneConnects, ClientsInv, ClientsKeyed
        <3>2. ASSUME NEW j \in Key, clients'[j] # NoClient
              PROVE  /\ clients'[j].of \in Setting /\ clients'[j].of.identity = "Federation"
                     /\ federationKey(clients'[j].of) = j
            BY <2>5, <2>6, <3>2 DEF ClientsInv, ClientsKeyed
        <3> QED
            BY <3>1, <3>2 DEF ClientsKeyed
    <2> QED
        BY <2>7, <2>8 DEF ClientsInv, ExchangedHasAccess
<1> QED
    BY <1>1, <1>2

LEMMA TokenRotated ==
    ASSUME TypeOK, ClientsInv, NEW f \in Source, Rotate(f)
    PROVE  ClientsInv'
<1>1. \A g \in Source : token'[g].ours => token'[g] = token[g]
    BY DEF Rotate, Unspent, TypeOK, AccessTypeOK
<1>2. UNCHANGED <<clients, pc, work>>
    BY DEF Rotate
<1> QED
    BY <1>1, <1>2 DEF ClientsInv, ClientsKeyed, ExchangedHasAccess

\* An access token expires when the token it was exchanged for has been replaced.
LEMMA AccessExpired ==
    ASSUME TypeOK, ClientsInv, NEW k \in Key, Expire(k)
    PROVE  ClientsInv'
<1>1. /\ clients' = [clients EXCEPT ![k] = [clients[k] EXCEPT !.access = FALSE]]
      /\ clients[k].access /\ token[k.file].by # clients[k].of
      /\ UNCHANGED <<token, pc, work>>
    BY DEF Expire
<1>2. \A j \in Key : clients[j] \in [of: Setting \cup {NoSetting}, access: BOOLEAN]
    BY DEF TypeOK, AccessTypeOK
<1>3. clients[k] # NoClient
    BY <1>1 DEF NoClient
<1>4. /\ \A j \in Key : clients'[j].of = clients[j].of
      /\ \A j \in Key : j # k => clients'[j] = clients[j]
    BY <1>1, <1>2 DEF TypeOK, AccessTypeOK
<1>5. clients[k].of \in Setting /\ clients[k].of.identity = "Federation"
        /\ federationKey(clients[k].of) = k
    BY <1>3 DEF ClientsInv, ClientsKeyed
<1>6. clients'[k] # NoClient
    BY <1>4, <1>5, SettingAssumption DEF NoClient
<1>7. ClientsKeyed'
    BY <1>1, <1>4, <1>5, <1>6, Keyed, ConnectedKnows DEF ClientsInv, ClientsKeyed
<1>8. ASSUME NEW f \in Source, token[f].ours
      PROVE  clients'[federationKey(token[f].by)].access
    <2> DEFINE s == token[f].by
    <2>1. /\ s \in Setting /\ s.identity = "Federation" /\ s.source = f
          /\ clients[federationKey(s)].access
        BY <1>8 DEF ClientsInv, ExchangedHasAccess
    <2>2. federationKey(s) \in Key
        BY <2>1 DEF federationKey, Key, Setting
    <2>3. federationKey(s) # k
        <3>1. SUFFICES ASSUME federationKey(s) = k PROVE FALSE
            OBVIOUS
        <3>2. s = clients[k].of /\ k.file = f
            BY <1>5, <2>1, <3>1 DEF federationKey, Setting
        <3> QED
            BY <1>1, <3>2
    <2> QED
        BY <1>4, <2>1, <2>2, <2>3
<1> QED
    BY <1>1, <1>7, <1>8 DEF ClientsInv, ExchangedHasAccess

LEMMA Restarted ==
    ASSUME TypeOK, Restart
    PROVE  ClientsInv'
<1>1. \A f \in Source : ~token'[f].ours
    BY DEF Restart, TypeOK, AccessTypeOK
<1>2. \A k \in Key : clients'[k] = NoClient
    BY DEF Restart
<1>3. \A u \in User : pc'[u] # "connected"
    BY DEF Restart
<1> QED
    BY <1>1, <1>2, <1>3 DEF ClientsInv, ClientsKeyed, ExchangedHasAccess

LEMMA ClientsNext ==
    ASSUME TypeOK, ClientsInv, [Next]_vars
    PROVE  ClientsInv'
<1>1. CASE \E u \in User : Worker(u)
    <2>1. PICK u \in User : Worker(u)
        BY <1>1
    <2>2. CASE ResolveReferences(u)
        BY <2>2, ClientsUntouched DEF ResolveReferences, Goto, NoneConnects, TypeOK, AccessTypeOK
    <2>3. CASE resolveProviderConfig(u)
        BY <2>3, ClientsUntouched
        DEF resolveProviderConfig, Return, Goto, NoneConnects, TypeOK, AccessTypeOK
    <2>4. CASE pc[u] = "read" /\ buildClientFromSpec(u) /\ UNCHANGED token
        BY <2>4, ClientBuilt
    <2>5. CASE Call(u)
        <3>1. NoneConnects /\ pc[u] = "connected"
            BY <2>5 DEF Call, Return, Goto, NoneConnects, TypeOK, AccessTypeOK
        <3> QED
            BY <2>5, <3>1, ClientsUntouched, ClientAuthenticated DEF Call
    <2> QED
        BY <2>1, <2>2, <2>3, <2>4, <2>5 DEF Worker, Connect, NewClient
<1>2. CASE Edits
    <2>1. CASE Deletions
        <3>1. PICK D \in SUBSET User : RequestDelete(D)
            BY <2>1, AfterDeletions
        <3>2. NoneConnects
            BY <3>1, AfterRequest DEF NoneConnects
        <3> QED
            BY <3>1, <3>2, ClientsUntouched DEF RequestDelete
    <2>2. CASE UNCHANGED <<clients, token, pc, work>>
        BY <2>2, ClientsUntouched DEF NoneConnects
    <2> QED
        BY <1>2, <2>1, <2>2
        DEF Edits, Archive, access, EditConfig, SetConfig, EditSecret
<1>3. CASE Faults
    <2>1. CASE Restart
        BY <2>1, Restarted
    <2>2. ASSUME NEW u \in User, Abandon(u)
          PROVE  ClientsInv'
        <3>1. NoneConnects
            BY <2>2 DEF Abandon, Return, Goto, NoneConnects, TypeOK, AccessTypeOK
        <3> QED
            BY <2>2, <3>1, ClientsUntouched, ClientAuthenticated DEF Abandon
    <2> QED
        BY <1>3, <2>1, <2>2 DEF Faults
<1>4. CASE Cluster
    <2>1. CASE UNCHANGED <<clients, token, pc, work>>
        BY <2>1, ClientsUntouched DEF NoneConnects
    <2>2. CASE \E f \in Source : Rotate(f)
        BY <2>2, TokenRotated
    <2> QED
        BY <1>4, <2>1, <2>2 DEF Cluster, Housekeeping, Release, ListUsage, SetConfig, Collect
<1>5. CASE Expiry
    BY <1>5, AccessExpired DEF Expiry
<1>6. CASE UNCHANGED vars
    BY <1>6, ClientsUntouched DEF vars, access, NoneConnects
<1> QED
    BY <1>1, <1>2, <1>3, <1>4, <1>5, <1>6 DEF Next

---------------------------------------------------------------------------
(***************************************************************************)
(* ProviderConfigs and those who use them.                                 *)
(***************************************************************************)
\* The ProviderConfigs are there that were, and so are the uses; the objects are
\* those there were, or fewer, and none has got a name without its worker
\* having been connected.
LEMMA UsageUntouched ==
    ASSUME TypeOK, UsageRecorded, UNCHANGED <<uses, usage, late>>,
           \A c \in Config : config[c].here => config'[c].here,
           \A u \in User : pc'[u] # "idle" => obj'[u].here,
           \A u \in User : pc'[u] = "connected" => pc[u] = "connected",
           \A u \in User : obj'[u].here => obj[u].here,
           \A u \in User : obj'[u].name # 0 => obj[u].name # 0 \/ pc[u] = "connected"
    PROVE  UsageRecorded'
BY DEF UsageRecorded, TypeOK, AccessTypeOK

\* What a step of the worker of u does to the objects.
LEMMA CallOnObjects ==
    ASSUME TypeOK, NEW u \in User, Call(u)
    PROVE  /\ pc[u] = "connected" /\ pc' = [pc EXCEPT ![u] = "idle"]
           /\ \A v \in User : v # u => obj'[v] = obj[v] /\ told'[v] = told[v]
           /\ obj'[u].ids = obj[u].ids
           /\ obj'[u].here => obj[u].here
           /\ \/ told'[u] = told[u] /\ (obj'[u].name # 0 => obj[u].name # 0)
              \/ told'[u] = obj[u].ids /\ ~obj[u].deleting
           /\ obj'[u].deleting = obj[u].deleting \/ ~obj'[u].here
<1>0. obj[u] \in Object
    BY DEF TypeOK
<1>1. pc[u] = "connected" /\ pc' = [pc EXCEPT ![u] = "idle"]
    BY DEF Call, Return, Goto
<1>2. CASE UNCHANGED <<obj, told>>
    BY <1>1, <1>2
<1>3. CASE Create(u)
    <2>1. PICK r : obj' = [obj EXCEPT ![u].name = Len(ext[u]) + 1, ![u].reported = r]
        BY <1>3 DEF Create
    <2>2. told' = [told EXCEPT ![u] = obj[u].ids] /\ ~obj[u].deleting
        BY <1>3 DEF Create
    <2> QED
        BY <1>0, <1>1, <2>1, <2>2 DEF TypeOK, Object
<1>4. CASE ObserveAndUpdate(u)
    <2>1. /\ obj' = [obj EXCEPT ![u].reported = obj[u].name]
          /\ told' = [told EXCEPT ![u] = obj[u].ids] /\ ~obj[u].deleting
        BY <1>4 DEF ObserveAndUpdate
    <2> QED
        BY <1>0, <1>1, <2>1 DEF TypeOK, Object
<1>5. CASE Delete(u)
    BY <1>1, <1>2, <1>5 DEF Delete
<1>6. CASE LetGo(u)
    <2>1. obj' = [obj EXCEPT ![u].here = FALSE, ![u].deleting = FALSE] /\ told' = told
        BY <1>6 DEF LetGo
    <2> QED
        BY <1>0, <1>1, <2>1 DEF TypeOK, Object
<1> QED
    BY <1>2, <1>3, <1>4, <1>5, <1>6 DEF Call

LEMMA ResolveOnObjects ==
    ASSUME TypeOK, NEW u \in User, ResolveReferences(u)
    PROVE  /\ obj[u].here /\ pc' = [pc EXCEPT ![u] = "resolved"]
           /\ \A v \in User : v # u => obj'[v] = obj[v]
           /\ obj'[u].here = obj[u].here /\ obj'[u].name = obj[u].name
           /\ obj'[u].deleting = obj[u].deleting
           /\ \A t \in User : obj'[u].ids[t] \in {obj[u].ids[t], obj[t].reported}
           /\ ~obj[u].deleting => \A t \in References(u) : obj'[u].ids[t] # 0
<1> DEFINE ids == [t \in User |-> IF t \in References(u) /\ ~IsNoOp(u, t)
                                  THEN ComputedFieldExtractor(t) ELSE obj[u].ids[t]]
<1>0. obj[u] \in Object
    BY DEF TypeOK
<1>1. obj[u].here /\ pc' = [pc EXCEPT ![u] = "resolved"]
    BY DEF ResolveReferences, Goto
<1>2. CASE obj[u].deleting /\ obj' = obj
    BY <1>1, <1>2
<1>3. CASE /\ ~obj[u].deleting
           /\ \A t \in References(u) : Resolved(u, t)
           /\ obj' = [obj EXCEPT ![u].ids = ids]
    <2>1. /\ \A t \in User : ids[t] \in {obj[u].ids[t], obj[t].reported}
          /\ \A t \in References(u) : ids[t] # 0
        BY <1>3 DEF Resolved, IsNoOp, ComputedFieldExtractor, References
    <2> HIDE DEF ids
    <2>2. /\ obj'[u].ids = ids /\ obj'[u].here = obj[u].here
          /\ obj'[u].name = obj[u].name /\ obj'[u].deleting = obj[u].deleting
          /\ \A v \in User : v # u => obj'[v] = obj[v]
        BY <1>0, <1>3 DEF TypeOK, Object
    <2> QED
        BY <1>1, <2>1, <2>2
<1> QED
    BY <1>2, <1>3 DEF ResolveReferences

LEMMA UsageNext ==
    ASSUME TypeOK, UsageRecorded, [Next]_vars
    PROVE  UsageRecorded'
<1>1. CASE \E u \in User : Worker(u)
    <2>1. PICK u \in User : Worker(u)
        BY <1>1
    <2>2. CASE ResolveReferences(u)
        <3>1. UNCHANGED <<config, uses, usage, late>>
            BY <2>2 DEF ResolveReferences, setup
        <3>2. /\ \A v \in User : obj'[v].here = obj[v].here /\ obj'[v].name = obj[v].name
              /\ obj[u].here /\ pc' = [pc EXCEPT ![u] = "resolved"]
            BY <2>2, ResolveOnObjects
        <3>3. \A v \in User : pc'[v] = IF v = u THEN "resolved" ELSE pc[v]
            BY <3>2 DEF TypeOK, AccessTypeOK
        <3> QED
            BY <3>1, <3>2, <3>3, UsageUntouched DEF UsageRecorded
    <2>3. CASE Connect(u) /\ resolveProviderConfig(u)
        <3>1. UNCHANGED <<obj, config, uses, usage, late>> /\ pc[u] = "resolved"
            BY <2>3 DEF Connect, resolveProviderConfig, setup, world
        <3>2. \A v \in User : pc'[v] # pc[v] => v = u /\ pc'[v] \in {"read", "idle"}
            BY <2>3 DEF resolveProviderConfig, Goto, Return, TypeOK, AccessTypeOK
        <3> QED
            BY <3>1, <3>2, UsageUntouched DEF UsageRecorded
    <2>4. CASE Connect(u) /\ pc[u] = "read" /\ Track(u) /\ buildClientFromSpec(u) /\ UNCHANGED setup
        <3>1. UNCHANGED <<obj, config, uses>>
            BY <2>4 DEF Connect, setup, world
        <3>2. \A v \in User : pc'[v] # pc[v] => v = u
            BY <2>4 DEF buildClientFromSpec, Goto, Return, TypeOK, AccessTypeOK
        <3>3. usage' = usage \cup {u}
            BY <2>4 DEF Track
        <3>4. /\ \A v \in User : v # u /\ v \in late => v \in late'
              /\ config[uses[u]].here \/ u \in late'
            BY <2>4 DEF Track
        <3>5. \A v \in User : pc'[v] # "idle" => pc[v] # "idle"
            BY <2>4, <3>2
        <3>6. \A v \in User : pc'[v] = "connected" => v = u \/ pc[v] = "connected"
            BY <3>2
        <3> QED
            BY <3>1, <3>3, <3>4, <3>5, <3>6 DEF UsageRecorded, TypeOK, AccessTypeOK
    <2>5. CASE Call(u)
        <3>1. UNCHANGED <<config, uses, usage, late>>
            BY <2>5 DEF Call, setup
        <3>2. /\ pc[u] = "connected" /\ pc' = [pc EXCEPT ![u] = "idle"]
              /\ \A v \in User : v # u => obj'[v] = obj[v]
              /\ obj'[u].here => obj[u].here
            BY <2>5, CallOnObjects
        <3>3. \A v \in User : pc'[v] = IF v = u THEN "idle" ELSE pc[v]
            BY <3>2 DEF TypeOK, AccessTypeOK
        <3> QED
            BY <3>1, <3>2, <3>3, UsageUntouched DEF UsageRecorded
    <2> QED
        BY <2>1, <2>2, <2>3, <2>4, <2>5 DEF Worker, Connect, NewClient
<1>2. CASE Edits
    <2>1. CASE Deletions
        <3>1. PICK D \in SUBSET User : RequestDelete(D)
            BY <2>1, AfterDeletions
        <3>2. UNCHANGED <<uses, usage, late>>
            BY <3>1 DEF RequestDelete
        <3> QED
            BY <2>1, <3>1, <3>2, AfterDeletions, AfterRequest, UsageUntouched DEF UsageRecorded
    <2>2. CASE \E u \in User : Archive(u)
        BY <2>2, UsageUntouched DEF Archive, access, setup, UsageRecorded
    <2>3. CASE (\E c \in Config, s \in Settings : EditConfig(c, s)) /\ UNCHANGED world
        <3>1. \A c \in Config : config[c].here => config'[c].here
            BY <2>3 DEF EditConfig, SetConfig, TypeOK, AccessTypeOK
        <3> QED
            BY <2>3, <3>1, UsageUntouched DEF EditConfig, SetConfig, world, UsageRecorded
    <2>4. CASE (\E s \in Source : EditSecret(s)) /\ UNCHANGED world
        BY <2>4, UsageUntouched DEF EditSecret, world, UsageRecorded
    <2> QED
        BY <1>2, <2>1, <2>2, <2>3, <2>4 DEF Edits
<1>3. CASE Faults
    <2>1. UNCHANGED <<config, uses, usage, late, obj>>
        BY <1>3 DEF Faults, Restart, Abandon, setup, world
    <2>2. \A u \in User : pc'[u] \in {"idle", pc[u]}
        BY <1>3 DEF Faults, Restart, Abandon, Return, Goto, TypeOK, AccessTypeOK
    <2> QED
        BY <2>1, <2>2, UsageUntouched DEF UsageRecorded
<1>4. CASE Cluster
    <2>1. CASE UNCHANGED <<config, uses, usage, late, obj, pc>>
        BY <2>1, UsageUntouched DEF UsageRecorded
    <2>2. ASSUME NEW c \in Config, Release(c), UNCHANGED world
          PROVE  UsageRecorded'
        <3>1. /\ config' = [config EXCEPT ![c] = [config[c] EXCEPT !.here = FALSE, !.deleting = FALSE]]
              /\ late' = late \cup {u \in usage : uses[u] = c}
              /\ UNCHANGED <<uses, usage, pc, obj>>
            BY <2>2 DEF Release, SetConfig, world
        <3>2. \A u \in usage : config'[uses[u]] = config[uses[u]] \/ u \in late'
            BY <3>1 DEF TypeOK, AccessTypeOK
        <3> QED
            BY <3>1, <3>2 DEF UsageRecorded
    <2>3. ASSUME NEW u \in User, Collect(u)
          PROVE  UsageRecorded'
        BY <2>3 DEF Collect, setup, world, UsageRecorded
    <2> QED
        BY <1>4, <2>1, <2>2, <2>3 DEF Cluster, Housekeeping, Rotate, ListUsage, setup, world
<1>5. CASE Expiry
    BY <1>5, UsageUntouched DEF Expiry, Expire, setup, world, UsageRecorded
<1>6. CASE UNCHANGED vars
    BY <1>6, UsageUntouched DEF vars, access, setup, world, UsageRecorded
<1> QED
    BY <1>1, <1>2, <1>3, <1>4, <1>5, <1>6 DEF Next

---------------------------------------------------------------------------
(***************************************************************************)
(* References.                                                             *)
(***************************************************************************)
LEMMA Numbers ==
    ASSUME TypeOK, NEW u \in User, NEW t \in User
    PROVE  /\ obj[u].ids[t] \in Nat /\ told[u][t] \in Nat /\ Len(ext[t]) \in Nat
           /\ obj[t].reported \in Nat /\ obj[t].reported <= Len(ext[t])
<1>1. obj[u] \in Object /\ obj[t] \in Object /\ told[u] \in [User -> Nat]
    BY DEF TypeOK
<1> QED
    BY <1>1, Lengths DEF TypeOK, Object

Grows == \A v \in User : Len(ext'[v]) >= Len(ext[v]) /\ Len(ext'[v]) \in Nat

LEMMA ReferencesUntouched ==
    ASSUME TypeOK, ResolvedFirst, NothingSentUnresolved, Grows, UNCHANGED <<graph, told>>,
           \A v \in User : /\ obj'[v].ids = obj[v].ids
                           /\ obj'[v].name # 0 => obj[v].name # 0
                           /\ pc'[v] # "idle" => pc[v] # "idle"
                           /\ pc'[v] # "idle" /\ obj[v].deleting => obj'[v].deleting
    PROVE  ResolvedFirst' /\ NothingSentUnresolved'
<1>1. \A u, t \in User : obj'[u].ids[t] <= Len(ext'[t])
    BY Numbers DEF ResolvedFirst, Grows
<1>2. ResolvedFirst'
    BY <1>1 DEF ResolvedFirst, References
<1>3. NothingSentUnresolved'
    BY Numbers DEF NothingSentUnresolved, Grows, References
<1> QED
    BY <1>2, <1>3

LEMMA ReferencesNext ==
    ASSUME TypeOK, ClientsInv, ResolvedFirst, NothingSentUnresolved, [Next]_vars
    PROVE  ResolvedFirst' /\ NothingSentUnresolved'
<1>0. Grows
    BY TypeNext, LenProperties DEF ClientsInv, Grows, TypeOK
<1>1. CASE \E u \in User : Worker(u)
    <2>1. PICK u \in User : Worker(u)
        BY <1>1
    <2>2. CASE ResolveReferences(u)
        <3>1. UNCHANGED <<graph, ext, told>>
            BY <2>2 DEF ResolveReferences
        <3>2. /\ \A v \in User : v # u => obj'[v] = obj[v]
              /\ obj'[u].name = obj[u].name /\ obj'[u].deleting = obj[u].deleting
              /\ \A t \in User : obj'[u].ids[t] \in {obj[u].ids[t], obj[t].reported}
              /\ ~obj[u].deleting => \A t \in References(u) : obj'[u].ids[t] # 0
              /\ pc' = [pc EXCEPT ![u] = "resolved"]
            BY <2>2, ResolveOnObjects
        <3>3. \A v \in User : v # u => pc'[v] = pc[v]
            BY <3>2 DEF TypeOK, AccessTypeOK
        <3>4. \A v, t \in User : obj'[v].ids[t] <= Len(ext'[t])
            BY <3>1, <3>2, Numbers DEF ResolvedFirst
        <3>5. ResolvedFirst'
            BY <3>1, <3>2, <3>3, <3>4 DEF ResolvedFirst, References
        <3>6. NothingSentUnresolved'
            BY <3>1, <3>2 DEF NothingSentUnresolved, References
        <3> QED
            BY <3>5, <3>6
    <2>3. CASE Connect(u)
        <3>1. UNCHANGED world
            BY <2>3 DEF Connect
        <3>2. \A v \in User : pc'[v] # "idle" => pc[v] # "idle"
            BY <2>3 DEF Connect, NewClient, resolveProviderConfig, buildClientFromSpec, Goto, Return,
                        TypeOK, AccessTypeOK
        <3> QED
            BY <1>0, <3>1, <3>2, ReferencesUntouched DEF world
    <2>4. CASE Call(u)
        <3>1. /\ pc[u] = "connected" /\ pc' = [pc EXCEPT ![u] = "idle"]
              /\ \A v \in User : v # u => obj'[v] = obj[v] /\ told'[v] = told[v]
              /\ obj'[u].ids = obj[u].ids
              /\ \/ told'[u] = told[u] /\ (obj'[u].name # 0 => obj[u].name # 0)
                 \/ told'[u] = obj[u].ids /\ ~obj[u].deleting
              /\ graph' = graph
            BY <2>4, CallOnObjects DEF Call
        <3>2. \A v \in User : pc'[v] = IF v = u THEN "idle" ELSE pc[v]
            BY <3>1 DEF TypeOK, AccessTypeOK
        <3>3. \A v, t \in User : obj'[v].ids[t] <= Len(ext'[t])
            BY <1>0, <3>1, Numbers DEF ResolvedFirst, Grows
        <3>4. ResolvedFirst'
            BY <3>1, <3>2, <3>3 DEF ResolvedFirst, References
        <3>5. ASSUME NEW v \in User, obj'[v].name # 0, NEW t \in References(v)
              PROVE  told'[v][t] \in 1..Len(ext'[t])
            <4>0. t \in User
                BY DEF References
            <4>1. CASE told'[v] = told[v] /\ obj[v].name # 0
                BY <1>0, <4>0, <4>1, Numbers DEF NothingSentUnresolved, Grows
            <4>2. CASE v = u /\ told'[u] = obj[u].ids /\ ~obj[u].deleting
                <5>1. obj[u].ids[t] # 0 /\ obj[u].ids[t] <= Len(ext[t])
                    BY <3>1, <3>5, <4>0, <4>2 DEF ResolvedFirst
                <5> QED
                    BY <1>0, <4>0, <4>2, <5>1, Numbers DEF Grows
            <4> QED
                BY <3>1, <3>5, <4>1, <4>2
        <3>6. NothingSentUnresolved'
            BY <3>1, <3>5 DEF NothingSentUnresolved, References
        <3> QED
            BY <3>4, <3>6
    <2> QED
        BY <2>1, <2>2, <2>3, <2>4 DEF Worker
<1>2. CASE Edits
    <2>1. CASE Deletions
        <3>1. PICK D \in SUBSET User : RequestDelete(D)
            BY <2>1, AfterDeletions
        <3>2. UNCHANGED <<graph, told>>
            BY <3>1 DEF RequestDelete
        <3> QED
            BY <1>0, <3>1, <3>2, AfterRequest, ReferencesUntouched
    <2>2. CASE UNCHANGED <<graph, told, obj, pc>>
        BY <1>0, <2>2, ReferencesUntouched
    <2> QED
        BY <1>2, <2>1, <2>2
        DEF Edits, Archive, access, EditConfig, SetConfig, EditSecret, world
<1>3. CASE Faults
    <2>1. UNCHANGED world
        BY <1>3 DEF Faults
    <2>2. \A u \in User : pc'[u] \in {"idle", pc[u]}
        BY <1>3 DEF Faults, Restart, Abandon, Return, Goto, TypeOK, AccessTypeOK
    <2> QED
        BY <1>0, <2>1, <2>2, ReferencesUntouched DEF world
<1>4. CASE Cluster \/ Expiry \/ UNCHANGED vars
    <2>1. UNCHANGED <<graph, told, obj, pc>>
        BY <1>4 DEF Cluster, Housekeeping, Rotate, Release, ListUsage, SetConfig, Collect,
                   Expiry, Expire, vars, access, world, setup
    <2> QED
        BY <1>0, <2>1, ReferencesUntouched
<1> QED
    BY <1>1, <1>2, <1>3, <1>4 DEF Next

---------------------------------------------------------------------------
(***************************************************************************)
(* The theorems.                                                           *)
(***************************************************************************)
LEMMA IInvInit == Init => IInv
<1> SUFFICES ASSUME Init PROVE IInv
    OBVIOUS
<1>1. TypeOK
    BY InitTyped
<1>2. /\ \A u \in User : pc[u] = "idle"
      /\ \A k \in Key : clients[k] = NoClient
      /\ \A f \in Source : ~token[f].ours
      /\ usage = {}
    BY DEF Init, AccessInit, Unspent
<1>3. \A u \in User : obj[u].name = 0 /\ (\A t \in User : obj[u].ids[t] = 0)
    BY DEF Init
<1>4. ClientsKeyed /\ ExchangedHasAccess
    BY <1>2 DEF ClientsKeyed, ExchangedHasAccess
<1>5. UsageRecorded
    BY <1>2, <1>3 DEF UsageRecorded
<1>6. ResolvedFirst /\ NothingSentUnresolved
    BY <1>1, <1>2, <1>3, Lengths DEF ResolvedFirst, NothingSentUnresolved
<1> QED
    BY <1>1, <1>4, <1>5, <1>6 DEF IInv

LEMMA IInvNext == IInv /\ [Next]_vars => IInv'
BY TypeNext, ClientsNext, UsageNext, ReferencesNext DEF IInv, ClientsInv

\* The strengthened invariant always holds.
THEOREM IInvAlways == Spec => []IInv
BY IInvInit, IInvNext, PTL DEF Spec

\* Clients, tokens, ProviderConfigs, workers and objects are what they are
\* declared to be; a name is that of a resource that was made.
THEOREM TypeCorrect == Spec => []TypeOK
<1>1. IInv => TypeOK
    BY DEF IInv
<1> QED
    BY <1>1, IInvAlways, PTL

\* NewClient: a reconcile calls with the client of the ProviderConfig it has
\* read, although clients are shared by all controllers.
THEOREM RightClient == Spec => []CallsAsConfigured
<1>1. IInv => CallsAsConfigured
    BY KeyedAsConfigured DEF IInv
<1> QED
    BY <1>1, IInvAlways, PTL

\* federationClient: a process never offers a token a second time for the same
\* identity, however many resources and controllers share the identity.
THEOREM NoReplay == Spec => []NoNeedlessReplay
<1>1. IInv => NoNeedlessReplay
    <2> SUFFICES ASSUME IInv, NEW u \in User, Refused(u),
                        token[work[u].source].by = work[u], token[work[u].source].ours
                 PROVE  FALSE
        BY DEF NoNeedlessReplay
    <2>1. work[u].source \in Source
        BY Keyed, ConnectedKnows DEF IInv, Refused, Exchanges
    <2>2. clients[federationKey(work[u])].access /\ work[u].identity = "Federation"
        BY <2>1 DEF IInv, ExchangedHasAccess
    <2> QED
        BY <2>2 DEF Refused, Exchanges, ClientOf
<1> QED
    BY <1>1, IInvAlways, PTL

\* resolveProviderConfig and Track: what was created with a ProviderConfig keeps
\* it there, unless it went before the usage could be
\* known to the controller of ProviderConfigs.
THEOREM ConfigStays == Spec => []ConfigOutlivesUse
<1>1. IInv => ConfigOutlivesUse
    BY DEF IInv, UsageRecorded, ConfigOutlivesUse, Exists
<1> QED
    BY <1>1, IInvAlways, PTL

\* ResolveReferences: no Create or Update is sent before every reference of the
\* object has an identifier, in every graph of references.
THEOREM SentResolved == Spec => []NothingSentUnresolved
<1>1. IInv => NothingSentUnresolved
    BY DEF IInv
<1> QED
    BY <1>1, IInvAlways, PTL
=============================================================================
