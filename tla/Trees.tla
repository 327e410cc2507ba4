------------------------------- MODULE Trees -------------------------------
(***************************************************************************)
(* Nested values: the fields of spec.forProvider, the parameters of a      *)
(* request and status.atProvider, as JSON has them.  A tree is the set of  *)
(* its nodes, a node its path from the root and its text: that of a        *)
(* scalar, or a mark that says that it is a map, a list or a union without *)
(* a variant.  The keys in a list are its positions; a field that is nil   *)
(* is a key that is not there.                                             *)
(***************************************************************************)
EXTENDS Naturals, Sequences, SequencesExt

\* A path is a sequence of keys.
IsPath(p) == p \in Seq(Range(p))

\* One text for every path.
Single(v) == \A n, m \in v : n[1] = m[1] => n = m

IsTree(v) == (\A n \in v : IsPath(n[1]) /\ n = <<n[1], n[2]>>) /\ Single(v)

Leaf(a) == {<<(<<>>), a>>}
Empty   == Leaf("")
NoField == Leaf("{}")

\* The zero value of a union that must have a variant; the API rejects it.
Nothing == Leaf("nothing")

Root(v)   == {n \in v : n[1] = <<>>}
Paths(v)  == {n[1] : n \in v}
IsMap(v)  == <<(<<>>), "{}">> \in v
IsList(v) == <<(<<>>), "[]">> \in v

\* The nodes of v that are under one of the keys K.
Below(v, K) == {n \in v : n[1] # <<>> /\ Head(n[1]) \in K}

Keys(v)  == {Head(n[1]) : n \in {m \in v : m[1] # <<>>}}
At(v, k) == {<<Tail(n[1]), n[2]>> : n \in Below(v, {k})}

\* The scalars of v, each with its path, and where its lists are.
Leaves(v) == {n \in v : n[2] # "{}"}

\* A string field, the empty string when it is nil.
Text(v, k) ==
    LET there == {n \in v : n[1] = <<k>>}
    IN  IF there = {} THEN "" ELSE (CHOOSE n \in there : TRUE)[2]

Under(k, v) == {<<(<<k>> \o n[1]), n[2]>> : n \in v}
Field(k, v) == NoField \cup Under(k, v)

Without(v, K) == v \ Below(v, K)
Only(v, K)    == Root(v) \cup Below(v, K)

\* v with the fields of w that it does not have.
v ++ w == v \cup Below(w, Keys(w) \ Keys(v))

\* List v with f[i] in place of element i.
Mapped(v, f) == Root(v) \cup UNION {Under(i, f[i]) : i \in Keys(v)}

List(s) == Leaf("[]") \cup UNION {Under(ToString(i), s[i]) : i \in DOMAIN s}

\* The keys of v that have an empty list.
EmptyLists(v) == {n[1][1] : n \in {m \in v : Len(m[1]) = 1 /\ m[2] = "[]" /\ Below(v, {m[1][1]}) = {m}}}

Elements(v) == {At(v, i) : i \in Keys(v)}

\* Field k by way of Op, and the elements of list k by way of Op, if there.
Sub(v, k, Op(_))  == IF k \in Keys(v) THEN Field(k, Op(At(v, k))) ELSE NoField
Each(v, k, Op(_)) ==
    IF k \notin Keys(v) THEN NoField
    ELSE LET list == At(v, k) IN Field(k, Mapped(list, [i \in Keys(list) |-> Op(At(list, i))]))

\* The parameters of a request: a required string is sent even when it is nil,
\* as "", an optional one is left out.
Fields(v, required, optional) ==
    Only(v, required \cup optional) \cup {<<(<<k>>), "">> : k \in required \ Keys(v)}

Variant(type, v, required, optional) ==
    Field("type", Leaf(type)) ++ Fields(v, required, optional)

\* A field that is sent when it is not empty.
NonEmpty(k, v) == IF v \in {Empty, NoField, Nothing} THEN NoField ELSE Field(k, v)

\* Field k by way of Op, if it is there and Op leaves anything of it.
Given(v, k, Op(_)) == IF k \in Keys(v) THEN NonEmpty(k, Op(At(v, k))) ELSE NoField

---------------------------------------------------------------------------
\* The API rejects a request with a required string that is empty or a union
\* without a variant (external).
Rejected(v) == \E n \in v : n[2] \in {"", "nothing"}

\* What the API makes of an update of old by new (external): what is left out
\* stays, the maps named deep are merged, all else is replaced.  A node stays that
\* new does not have, if it is below maps that are merged and a key it does not have.
Patch(old, new, deep) ==
    LET paths    == Paths(new)
        stays(p) == \E i \in DOMAIN p : /\ SubSeq(p, 1, i) \notin paths
                                        /\ \A j \in 1..i-1 : p[j] \in deep
    IN  new \cup {n \in old : n[1] \notin paths /\ stays(n[1])}

---------------------------------------------------------------------------
(***************************************************************************)
(* The comparison (internal/clients/diff.go).  The code descends from key  *)
(* to key as long as both sides have a map; all that it compares on the    *)
(* way is two nodes at the same path, and it succeeds if they all agree.   *)
(***************************************************************************)
\* The element of a list at path p: it is there on both sides, and compared as a
\* subset only if it is a map.
SameElement(d, o, p) ==
    LET below(v) == {n \in v : IsPrefix(p, n[1])}
    IN  <<p, "{}">> \in d \cap o \/ below(d) = below(o)

SameList(d, o, p) ==
    /\ <<p, "[]">> \in o
    /\ \A q \in Paths(d) \cup Paths(o) : q # <<>> /\ Front(q) = p => SameElement(d, o, q)

\* A plain string stands for the id of a typed object.
SameText(n, o) ==
    IF <<n[1], "{}">> \in o
    THEN <<Append(n[1], "id"), n[2]>> \in o \/ (n[2] = "" /\ Append(n[1], "id") \notin Paths(o))
    ELSE n \in o

\* One node of desired at a path that both have.
SameNode(n, d, o) ==
    CASE n[2] = "{}" -> n \in o
      [] n[2] = "[]" -> SameList(d, o, n[1])
      [] OTHER       -> SameText(n, o)

\* Every key of desired is equal in observed, or is not there at all.
IsSubsetEqual(desired, observed) ==
    LET both == Paths(desired) \cap Paths(observed)
    IN  \A n \in desired : n[1] \in both => SameNode(n, desired, observed)
============================================================================
