--------------------------- MODULE MCDependencies ---------------------------
(***************************************************************************)
(* Two resources for model checking module Dependencies: the second refers *)
(* to the first, with either policy, or they refer to each other.  They    *)
(* share a ProviderConfig, or have one each for the same token file.       *)
(***************************************************************************)
EXTENDS Dependencies, TLC

CONSTANTS a, d, c1, c2, s1, w1, w2

MCUser   == {a, d}
MCConfig == {c1, c2}

Federated(w) == [identity |-> "Federation", source |-> s1, workspace |-> w]
KeyFor(w)    == [identity |-> "APIKey", source |-> s1, workspace |-> w]

MCSettings == {Federated(w1), Federated(w2), KeyFor(w1)}

Setup(u, v) == [uses  |-> [r \in MCUser |-> IF u = v \/ r = a THEN c1 ELSE c2],
                specs |-> [c \in MCConfig |-> IF c = c1 THEN u ELSE v]]

\* One identity or one API key for both, or two identities for one token file;
\* edits give every resource any of the settings.
MCSetups == {Setup(Federated(w1), Federated(w1)), Setup(Federated(w1), Federated(w2)),
             Setup(KeyFor(w1), KeyFor(w1))}

Refer(p, q) == (a :> ((a :> "none") @@ (d :> p))) @@ (d :> ((a :> q) @@ (d :> "none")))

MCGraphs == {Refer("none", "IfNotPresent"), Refer("none", "Always"), Refer("Always", "IfNotPresent")}
============================================================================
