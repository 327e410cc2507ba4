-------------------------- MODULE ConversionProofs --------------------------
(***************************************************************************)
(* Theorems about Conversion, for every manifest the CRD admits, however   *)
(* deep, and any Secrets.  What a request says is followed through every   *)
(* conversion: each operator makes its parameters of the part of the       *)
(* manifest it is given (Made), and parts compose.                         *)
(***************************************************************************)
EXTENDS Conversion, SequenceTheorems, TLAPS

---------------------------------------------------------------------------
(***************************************************************************)
(* What the operators of module Trees do, for trees of any depth.          *)
(***************************************************************************)

IsNode(n) == IsPath(n[1]) /\ n = <<n[1], n[2]>>

\* Node n of what is under key k, as a node of the whole.
Into(k, n) == <<(<<k>> \o n[1]), n[2]>>

---------------------------------------------------------------------------
(* Paths. *)

LEMMA PathOf ==
    ASSUME NEW S, NEW p \in Seq(S)
    PROVE  IsPath(p)
BY SeqOfRange DEF IsPath

\* A path and a key are a sequence of the same elements.
LEMMA PathWith ==
    ASSUME NEW p, IsPath(p), NEW k
    PROVE  p \in Seq(Range(p) \cup {k}) /\ k \in Range(p) \cup {k}
BY SeqMonotonic DEF IsPath

LEMMA PathCons ==
    ASSUME NEW k, NEW p, IsPath(p)
    PROVE  /\ IsPath(<<k>> \o p) /\ <<k>> \o p # <<>>
           /\ Head(<<k>> \o p) = k /\ Tail(<<k>> \o p) = p
<1>1. PICK S : k \in S /\ p \in Seq(S)
    BY PathWith
<1>2. <<k>> \in Seq(S)
    BY <1>1
<1>3. <<k>> \o p \in Seq(S) /\ <<k>> \o p # <<>>
    BY <1>1, <1>2
<1>4. Head(<<k>> \o p) = k
    BY <1>1
<1>5. Tail(<<k>> \o p) = p
    BY <1>1
<1> QED
    BY <1>3, <1>4, <1>5, PathOf

LEMMA PathSplit ==
    ASSUME NEW p, IsPath(p), p # <<>>
    PROVE  IsPath(Tail(p)) /\ p = <<Head(p)>> \o Tail(p)
<1>1. PICK S : p \in Seq(S)
    BY DEF IsPath
<1>2. Tail(p) \in Seq(S) /\ p = <<Head(p)>> \o Tail(p)
    BY <1>1
<1> QED
    BY <1>2, PathOf

LEMMA PathLast ==
    ASSUME NEW k, NEW p, IsPath(p), p # <<>>
    PROVE  /\ IsPath(Front(p))
           /\ Last(<<k>> \o p) = Last(p) /\ Front(<<k>> \o p) = <<k>> \o Front(p)
<1>1. PICK S : k \in S /\ p \in Seq(S)
    BY PathWith
<1>2. Front(p) \in Seq(S)
    BY <1>1 DEF Front
<1>3. Last(<<k>> \o p) = Last(p)
    BY <1>1 DEF Last
<1>4. Front(<<k>> \o p) = <<k>> \o Front(p)
    BY <1>1 DEF Front
<1> QED
    BY <1>2, <1>3, <1>4, PathOf

LEMMA PathAppend ==
    ASSUME NEW k, NEW p, IsPath(p), NEW a
    PROVE  IsPath(Append(p, a)) /\ Append(<<k>> \o p, a) = <<k>> \o Append(p, a)
<1>1. PICK S : k \in S /\ a \in S /\ p \in Seq(S)
    <2> DEFINE S == Range(p) \cup {k, a}
    <2>1. p \in Seq(S) /\ k \in S /\ a \in S
        BY SeqMonotonic DEF IsPath
    <2> QED
        BY <2>1
<1>2. Append(p, a) \in Seq(S)
    BY <1>1
<1>3. Append(<<k>> \o p, a) = <<k>> \o Append(p, a)
    BY <1>1
<1> QED
    BY <1>2, <1>3, PathOf

LEMMA PathSecond ==
    ASSUME NEW k, NEW i, NEW p, IsPath(p)
    PROVE  (<<k>> \o (<<i>> \o p))[2] = i
<1>1. PICK S : k \in S /\ i \in S /\ p \in Seq(S)
    <2> DEFINE S == Range(p) \cup {k, i}
    <2>1. p \in Seq(S) /\ k \in S /\ i \in S
        BY SeqMonotonic DEF IsPath
    <2> QED
        BY <2>1
<1>2. <<i>> \o p \in Seq(S) /\ (<<i>> \o p)[1] = i /\ Len(<<i>> \o p) >= 1
    BY <1>1
<1> QED
    BY <1>1, <1>2

LEMMA PathFirst ==
    ASSUME NEW p, IsPath(p), p # <<>>
    PROVE  1 \in DOMAIN p /\ SubSeq(p, 1, 1) = <<Head(p)>>
<1>1. PICK S : p \in Seq(S)
    BY DEF IsPath
<1>2. Len(p) \in Nat /\ Len(p) >= 1 /\ DOMAIN p = 1..Len(p) /\ Head(p) = p[1] /\ p[1] \in S
    BY <1>1
<1>3. /\ SubSeq(p, 1, 1) \in Seq(S) /\ Len(SubSeq(p, 1, 1)) = 1 - 1 + 1
      /\ \A i \in 1..(1 - 1 + 1) : SubSeq(p, 1, 1)[i] = p[1 + i - 1]
    BY <1>1, <1>2, SubSeqProperties
<1>4. SubSeq(p, 1, 1)[1] = p[1] /\ Len(SubSeq(p, 1, 1)) = 1
    BY <1>3
<1>5. <<p[1]>> \in Seq(S) /\ Len(<<p[1]>>) = 1 /\ <<p[1]>>[1] = p[1]
    BY <1>2
<1>6. \A i \in 1..1 : SubSeq(p, 1, 1)[i] = <<p[1]>>[i]
    BY <1>4, <1>5
<1>7. SubSeq(p, 1, 1) = <<p[1]>>
    BY <1>3, <1>4, <1>5, <1>6, SeqEqual
<1> QED
    BY <1>2, <1>7

\* The path of the root, and one with one key.
LEMMA PathOne ==
    ASSUME NEW k
    PROVE  /\ IsPath(<<>>) /\ Append(<<>>, k) = <<k>>
           /\ IsPath(<<k>>) /\ <<k>> # <<>> /\ <<k>> \o <<>> = <<k>>
           /\ Head(<<k>>) = k /\ Tail(<<k>>) = <<>> /\ Last(<<k>>) = k /\ Front(<<k>>) = <<>>
<1>1. <<>> \in Seq({k}) /\ <<k>> \in Seq({k}) /\ <<k>> # <<>> /\ Head(<<k>>) = k
    OBVIOUS
<1>2. Tail(<<k>>) = <<>>
    OBVIOUS
<1>3. Last(<<k>>) = k
    BY DEF Last
<1>4. Front(<<k>>) = <<>>
    BY DEF Front
<1>5. <<k>> \o <<>> = <<k>> /\ <<>> \o <<k>> = <<k>>
    BY <1>1, ConcatEmptySeq
<1>6. Append(<<>>, k) = <<k>>
    BY <1>1, <1>5, AppendIsConcat
<1> QED
    BY <1>1, <1>2, <1>3, <1>4, <1>5, <1>6, PathOf

---------------------------------------------------------------------------
(* Nodes. *)

LEMMA Nodes ==
    ASSUME NEW v
    PROVE  /\ IsTree(v) => \A n \in v : IsNode(n)
           /\ IsTree(v) <=> (\A n \in v : IsNode(n)) /\ Single(v)
BY DEF IsTree, IsNode

LEMMA IntoNode ==
    ASSUME NEW k, NEW n, IsNode(n)
    PROVE  /\ IsNode(Into(k, n))
           /\ Into(k, n)[1] = <<k>> \o n[1] /\ Into(k, n)[2] = n[2]
           /\ Into(k, n)[1] # <<>> /\ Head(Into(k, n)[1]) = k /\ Tail(Into(k, n)[1]) = n[1]
<1>1. Into(k, n)[1] = <<k>> \o n[1] /\ Into(k, n)[2] = n[2]
    BY DEF Into
<1> QED
    BY <1>1, PathCons DEF IsNode, Into

\* A node other than the root is a node of what is under its first key.
LEMMA NodeSplit ==
    ASSUME NEW n, IsNode(n), n[1] # <<>>
    PROVE  /\ IsNode(<<Tail(n[1]), n[2]>>)
           /\ n = Into(Head(n[1]), <<Tail(n[1]), n[2]>>)
<1>1. IsPath(Tail(n[1])) /\ n[1] = <<Head(n[1])>> \o Tail(n[1])
    BY PathSplit DEF IsNode
<1> QED
    BY <1>1 DEF IsNode, Into

LEMMA IntoSame ==
    ASSUME NEW k, NEW n, IsNode(n), NEW m, IsNode(m), Into(k, n) = Into(k, m)
    PROVE  n = m
<1>1. Tail(Into(k, n)[1]) = n[1] /\ Tail(Into(k, m)[1]) = m[1]
    BY IntoNode
<1>2. Into(k, n)[2] = n[2] /\ Into(k, m)[2] = m[2]
    BY DEF Into
<1> QED
    BY <1>1, <1>2 DEF IsNode

LEMMA Subtree ==
    ASSUME NEW v, IsTree(v), NEW w \in SUBSET v
    PROVE  IsTree(w)
BY DEF IsTree, Single

LEMMA LeafTree ==
    ASSUME NEW a
    PROVE  IsTree(Leaf(a)) /\ \A n \in Leaf(a) : n[1] = <<>> /\ n[2] = a
<1>1. IsPath(<<>>)
    BY PathOne
<1> QED
    BY <1>1 DEF IsTree, Single, Leaf

---------------------------------------------------------------------------
(* What is under a key. *)

LEMMA UnderTree ==
    ASSUME NEW k, NEW v, IsTree(v)
    PROVE  /\ IsTree(Under(k, v))
           /\ Under(k, v) = {Into(k, n) : n \in v}
           /\ \A n : IsNode(n) => (Into(k, n) \in Under(k, v) <=> n \in v)
<1>1. Under(k, v) = {Into(k, n) : n \in v}
    BY DEF Under, Into
<1>2. IsTree(Under(k, v))
    <2>1. \A n \in v : IsNode(Into(k, n)) /\ Tail(Into(k, n)[1]) = n[1]
        BY IntoNode, Nodes
    <2>2. Single(Under(k, v))
        BY <1>1, <2>1 DEF Single, IsTree
    <2> QED
        BY <1>1, <2>1, <2>2, Nodes
<1>3. ASSUME NEW n, IsNode(n), Into(k, n) \in Under(k, v) PROVE n \in v
    <2>1. PICK m \in v : Into(k, n) = Into(k, m)
        BY <1>1, <1>3
    <2> QED
        BY <2>1, <1>3, IntoSame, Nodes
<1> QED
    BY <1>1, <1>2, <1>3

LEMMA FieldTree ==
    ASSUME NEW k, NEW v, IsTree(v)
    PROVE  /\ IsTree(Field(k, v)) /\ IsMap(Field(k, v)) /\ Root(Field(k, v)) = NoField
           /\ Keys(Field(k, v)) \subseteq {k}
           /\ \A n : IsNode(n) => (Into(k, n) \in Field(k, v) <=> n \in v)
           /\ \A n \in Field(k, v) : n \in NoField \/ \E m \in v : n = Into(k, m)
<1>1. NoField = {<<(<<>>), "{}">>} /\ \A n \in NoField : n[1] = <<>>
    BY LeafTree DEF NoField, Leaf
<1>0. /\ IsTree(Under(k, v)) /\ Under(k, v) = {Into(k, n) : n \in v}
      /\ \A n : IsNode(n) => (Into(k, n) \in Under(k, v) <=> n \in v)
    BY UnderTree
<1>2. \A n \in Under(k, v) : n[1] # <<>> /\ Head(n[1]) = k
    <2>1. \A n \in v : Into(k, n)[1] # <<>> /\ Head(Into(k, n)[1]) = k
        BY IntoNode, Nodes
    <2> QED
        BY <1>0, <2>1
<1>3. Root(Field(k, v)) = NoField
    BY <1>1, <1>2 DEF Root, Field
<1>4. IsMap(Field(k, v))
    BY DEF IsMap, Field, NoField, Leaf
<1>5. Keys(Field(k, v)) \subseteq {k}
    BY <1>1, <1>2 DEF Keys, Field
<1>6. IsTree(Field(k, v))
    BY <1>0, <1>1, <1>2, LeafTree DEF IsTree, Single, Field, NoField
<1>7. \A n : IsNode(n) => (Into(k, n) \in Field(k, v) <=> n \in v)
    <2>1. \A n : IsNode(n) => Into(k, n) \notin NoField
        BY <1>1, IntoNode
    <2> QED
        BY <1>0, <2>1 DEF Field
<1>8. \A n \in Field(k, v) : n \in NoField \/ \E m \in v : n = Into(k, m)
    BY <1>0 DEF Field
<1> QED
    BY <1>3, <1>4, <1>5, <1>6, <1>7, <1>8

LEMMA LeafField ==
    ASSUME NEW k, NEW a
    PROVE  /\ IsTree(Field(k, Leaf(a)))
           /\ \A n \in Field(k, Leaf(a)) : n[2] = "{}" \/ n = <<(<<k>>), a>>
           /\ <<(<<k>>), a>> \in Field(k, Leaf(a))
<1>1. Into(k, <<(<<>>), a>>) = <<(<<k>>), a>>
    BY PathOne DEF Into
<1>2. IsTree(Leaf(a)) /\ Leaf(a) = {<<(<<>>), a>>} /\ IsNode(<<(<<>>), a>>)
    BY LeafTree, Nodes DEF Leaf
<1>3. \A n \in NoField : n[2] = "{}"
    BY LeafTree DEF NoField
<1>4. /\ IsTree(Field(k, Leaf(a)))
      /\ \A n : IsNode(n) => (Into(k, n) \in Field(k, Leaf(a)) <=> n \in Leaf(a))
      /\ \A n \in Field(k, Leaf(a)) : n \in NoField \/ \E m \in Leaf(a) : n = Into(k, m)
    BY LeafTree, FieldTree
<1>5. <<(<<k>>), a>> \in Field(k, Leaf(a))
    BY <1>1, <1>2, <1>4
<1>6. \A n \in Field(k, Leaf(a)) : n[2] = "{}" \/ n = <<(<<k>>), a>>
    BY <1>1, <1>2, <1>3, <1>4
<1> QED
    BY <1>4, <1>5, <1>6

LEMMA AtTree ==
    ASSUME NEW k, NEW v, IsTree(v)
    PROVE  /\ IsTree(At(v, k))
           /\ \A n : IsNode(n) => (n \in At(v, k) <=> Into(k, n) \in v)
<1>1. \A n \in At(v, k) : IsNode(n) /\ Into(k, n) \in v
    <2> SUFFICES ASSUME NEW n \in Below(v, {k}), NEW m, m = <<Tail(n[1]), n[2]>>
                 PROVE  IsNode(m) /\ Into(k, m) \in v
        BY DEF At
    <2>1. n \in v /\ n[1] # <<>> /\ Head(n[1]) = k
        BY DEF Below
    <2> QED
        BY <2>1, NodeSplit, Nodes
<1>2. ASSUME NEW n, IsNode(n), Into(k, n) \in v PROVE n \in At(v, k)
    <2>1. Into(k, n) \in Below(v, {k})
        BY <1>2, IntoNode DEF Below
    <2>2. n = <<Tail(Into(k, n)[1]), Into(k, n)[2]>>
        BY <1>2, IntoNode DEF IsNode
    <2> QED
        BY <2>1, <2>2 DEF At
<1>3. Single(At(v, k))
    <2> SUFFICES ASSUME NEW n \in At(v, k), NEW m \in At(v, k), n[1] = m[1] PROVE n = m
        BY DEF Single
    <2>1. IsNode(n) /\ Into(k, n) \in v /\ IsNode(m) /\ Into(k, m) \in v
        BY <1>1
    <2>2. Into(k, n)[1] = Into(k, m)[1]
        BY DEF Into
    <2>3. Into(k, n) = Into(k, m)
        BY <2>1, <2>2 DEF IsTree, Single
    <2> QED
        BY <2>1, <2>3, IntoSame
<1> QED
    BY <1>1, <1>2, <1>3, Nodes

LEMMA AtField ==
    ASSUME NEW k, NEW v, IsTree(v)
    PROVE  At(Field(k, v), k) = v
<1>1. IsTree(Field(k, v)) /\ \A n : IsNode(n) => (Into(k, n) \in Field(k, v) <=> n \in v)
    BY FieldTree
<1>2. IsTree(At(Field(k, v), k))
    BY <1>1, AtTree
<1>3. \A n : IsNode(n) => (n \in At(Field(k, v), k) <=> Into(k, n) \in Field(k, v))
    BY <1>1, AtTree
<1>4. \A n : n \in At(Field(k, v), k) <=> n \in v
    BY <1>1, <1>2, <1>3, Nodes
<1> QED
    BY <1>4

\* What is under a key depends only on what is below it.
LEMMA AtBelow ==
    ASSUME NEW k, NEW v, NEW w, Below(v, {k}) = Below(w, {k})
    PROVE  At(v, k) = At(w, k) /\ (k \in Keys(v) <=> k \in Keys(w))
<1>1. At(v, k) = At(w, k)
    BY DEF At
<1>2. \A u : k \in Keys(u) <=> Below(u, {k}) # {}
    BY DEF Keys, Below
<1> QED
    BY <1>1, <1>2

---------------------------------------------------------------------------
(* Keys and texts. *)

LEMMA KeysLeaf ==
    ASSUME NEW a
    PROVE  Keys(Leaf(a)) = {} /\ Root(Leaf(a)) = Leaf(a) /\ \A k : Below(Leaf(a), {k}) = {}
BY LeafTree DEF Keys, Root, Below

LEMMA KeysNone == Keys(NoField) = {} /\ Keys(Nothing) = {} /\ Keys(Empty) = {}
BY KeysLeaf DEF NoField, Nothing, Empty

\* Without, Only and ++ take and leave whole fields.
LEMMA KeysBoth ==
    ASSUME NEW v, NEW w
    PROVE  Keys(v ++ w) = Keys(v) \cup Keys(w)
BY DEF Keys, Below, ++

LEMMA KeysOnly ==
    ASSUME NEW v, NEW K
    PROVE  Keys(Only(v, K)) = Keys(v) \cap K /\ Keys(Without(v, K)) = Keys(v) \ K
BY DEF Keys, Only, Without, Below, Root

LEMMA BelowBoth ==
    ASSUME NEW v, NEW w, NEW k
    PROVE  /\ Below(v ++ w, {k}) = IF k \in Keys(v) THEN Below(v, {k}) ELSE Below(w, {k})
           /\ k \in Keys(v) <=> Below(v, {k}) # {}
BY DEF Keys, Below, ++

LEMMA BelowWithout ==
    ASSUME NEW v, NEW K, NEW k, k \notin K
    PROVE  Below(Without(v, K), {k}) = Below(v, {k})
BY DEF Without, Below

LEMMA RootBoth ==
    ASSUME NEW v, NEW w
    PROVE  Root(v ++ w) = Root(v)
BY DEF Root, Below, ++

LEMMA RootOnly ==
    ASSUME NEW v, NEW K
    PROVE  Root(Only(v, K)) = Root(v) /\ Root(Without(v, K)) = Root(v)
BY DEF Root, Only, Without, Below

LEMMA BothTree ==
    ASSUME NEW v, IsTree(v), NEW w, IsTree(w)
    PROVE  IsTree(v ++ w) /\ v ++ w \subseteq v \cup w /\ v \subseteq v ++ w
<1>1. v ++ w \subseteq v \cup w /\ v \subseteq v ++ w
    BY DEF ++, Below
<1>2. ASSUME NEW n \in v, NEW m \in Below(w, Keys(w) \ Keys(v)) PROVE n[1] # m[1]
    <2>1. m[1] # <<>> /\ Head(m[1]) \notin Keys(v)
        BY DEF Below
    <2>2. n[1] # <<>> => Head(n[1]) \in Keys(v)
        BY DEF Keys
    <2> QED
        BY <2>1, <2>2
<1>3. Below(w, Keys(w) \ Keys(v)) \subseteq w
    BY DEF Below
<1>4. Single(v ++ w)
    BY <1>2, <1>3 DEF ++, Single, IsTree
<1> QED
    BY <1>1, <1>4 DEF IsTree

\* What w has under a key that v does not have.
LEMMA BothRight ==
    ASSUME NEW v, NEW w, NEW n \in w, n[1] # <<>>, Head(n[1]) \notin Keys(v)
    PROVE  n \in v ++ w
BY DEF ++, Below, Keys

LEMMA OnlyTree ==
    ASSUME NEW v, IsTree(v), NEW K
    PROVE  /\ IsTree(Only(v, K)) /\ IsTree(Without(v, K))
           /\ Only(v, K) \subseteq v /\ Without(v, K) \subseteq v
BY DEF IsTree, Single, Only, Without, Root, Below

LEMMA TextNode ==
    ASSUME NEW v, IsTree(v), NEW k
    PROVE  /\ Text(v, k) # "" => <<(<<k>>), Text(v, k)>> \in v
           /\ k \notin Keys(v) => Text(v, k) = ""
<1> DEFINE there == {n \in v : n[1] = <<k>>}
<1>1. <<k>> # <<>> /\ Head(<<k>>) = k
    BY PathOne
<1>2. CASE there = {}
    BY <1>2 DEF Text
<1>3. CASE there # {}
    <2>1. PICK n : n = CHOOSE m \in there : TRUE
        OBVIOUS
    <2>2. n \in there /\ Text(v, k) = n[2]
        BY <1>3, <2>1 DEF Text
    <2>3. n = <<(<<k>>), n[2]>>
        BY <2>2 DEF IsTree
    <2>4. k \in Keys(v)
        BY <2>2, <1>1 DEF Keys
    <2> QED
        BY <2>2, <2>3, <2>4
<1> QED
    BY <1>2, <1>3

\* The texts of two trees that have the same nodes at <<k>>.
LEMMA TextSame ==
    ASSUME NEW v, NEW w, NEW k, {n \in v : n[1] = <<k>>} = {n \in w : n[1] = <<k>>}
    PROVE  Text(v, k) = Text(w, k)
<1> DEFINE of(there) == IF there = {} THEN "" ELSE (CHOOSE n \in there : TRUE)[2]
<1>1. Text(v, k) = of({n \in v : n[1] = <<k>>}) /\ Text(w, k) = of({n \in w : n[1] = <<k>>})
    BY DEF Text
<1> HIDE DEF of
<1> QED
    BY <1>1

LEMMA FieldHas ==
    ASSUME NEW k, NEW v, IsTree(v), v # {}
    PROVE  Keys(Field(k, v)) = {k}
<1>1. PICK n \in v : IsNode(n)
    BY Nodes
<1>2. /\ Into(k, n) \in Field(k, v) /\ Into(k, n)[1] # <<>> /\ Head(Into(k, n)[1]) = k
      /\ Keys(Field(k, v)) \subseteq {k}
    BY <1>1, FieldTree, IntoNode
<1> QED
    BY <1>2 DEF Keys

\* A field in front of the others.
LEMMA AtFirst ==
    ASSUME NEW k, NEW v, IsTree(v), v # {}, NEW w
    PROVE  k \in Keys(Field(k, v) ++ w) /\ At(Field(k, v) ++ w, k) = v
<1>1. k \in Keys(Field(k, v)) /\ At(Field(k, v), k) = v
    BY FieldHas, AtField
<1>2. Below(Field(k, v) ++ w, {k}) = Below(Field(k, v), {k})
    BY <1>1, BelowBoth
<1> QED
    BY <1>1, <1>2, AtBelow

\* A field in front of those that have it.
LEMMA FieldSame ==
    ASSUME NEW w, IsTree(w), IsMap(w), NEW k \in Keys(w)
    PROVE  Field(k, At(w, k)) ++ w = w
<1>1. IsTree(At(w, k)) /\ \A n : IsNode(n) => (n \in At(w, k) <=> Into(k, n) \in w)
    BY AtTree
<1>2. ASSUME NEW n \in w, n[1] # <<>>, Head(n[1]) = k PROVE n \in Field(k, At(w, k))
    <2>1. IsNode(n)
        BY Nodes
    <2> DEFINE m == <<Tail(n[1]), n[2]>>
    <2>2. IsNode(m) /\ n = Into(k, m)
        BY <1>2, <2>1, NodeSplit
    <2>3. m \in At(w, k)
        BY <1>1, <2>2
    <2> QED
        BY <1>1, <2>2, <2>3, FieldTree
<1>3. At(w, k) # {}
    BY DEF Keys, At, Below
<1>4. Keys(Field(k, At(w, k))) = {k}
    BY <1>1, <1>3, FieldHas
<1>5. NoField \subseteq w
    BY DEF IsMap, NoField, Leaf
<1>6. Field(k, At(w, k)) \subseteq w
    <2>1. \A n \in Field(k, At(w, k)) : n \in NoField \/ \E m \in At(w, k) : n = Into(k, m)
        BY <1>1, FieldTree
    <2>2. \A m \in At(w, k) : Into(k, m) \in w
        BY <1>1, Nodes
    <2> QED
        BY <1>5, <2>1, <2>2
<1>7. \A n \in w : n[1] = <<>> => n \in Field(k, At(w, k))
    <2> DEFINE root == <<(<<>>), "{}">>
    <2>1. root \in w /\ root[1] = <<>> /\ root \in Field(k, At(w, k))
        BY DEF IsMap, Field, NoField, Leaf
    <2> HIDE DEF root
    <2> QED
        BY <2>1 DEF IsTree, Single
<1>8. \A n \in w : n[1] # <<>> /\ Head(n[1]) # k => n \in Below(w, Keys(w) \ {k})
    BY DEF Below, Keys
<1>9. Below(w, Keys(w) \ {k}) \subseteq w
    BY DEF Below
<1> QED
    BY <1>2, <1>4, <1>6, <1>7, <1>8, <1>9 DEF ++

\* A field behind those that have it.
LEMMA SameField ==
    ASSUME NEW w, NEW k \in Keys(w), NEW v, IsTree(v)
    PROVE  w ++ Field(k, v) = w
<1>1. Keys(Field(k, v)) \ Keys(w) = {}
    BY FieldTree
<1> QED
    BY <1>1 DEF ++, Below

LEMMA TextBoth ==
    ASSUME NEW v, NEW w, NEW k
    PROVE  Text(v ++ w, k) = IF k \in Keys(v) THEN Text(v, k) ELSE Text(w, k)
<1>1. <<k>> # <<>> /\ Head(<<k>>) = k
    BY PathOne
<1>2. {n \in v ++ w : n[1] = <<k>>} =
        IF k \in Keys(v) THEN {n \in v : n[1] = <<k>>} ELSE {n \in w : n[1] = <<k>>}
    BY <1>1 DEF ++, Below, Keys
<1> QED
    BY <1>2, TextSame

\* A list that is empty is gone once it is taken away.
LEMMA NoEmptyLists ==
    ASSUME NEW v
    PROVE  EmptyLists(Without(v, EmptyLists(v))) = {}
<1> DEFINE E == EmptyLists(v)
           w == Without(v, E)
<1> SUFFICES ASSUME NEW n \in w, Len(n[1]) = 1, n[2] = "[]", Below(w, {n[1][1]}) = {n}
             PROVE  FALSE
    BY DEF EmptyLists
<1> DEFINE e == n[1][1]
<1>1. n \in v
    BY DEF Without
<1>2. n[1] # <<>> /\ Head(n[1]) = e
    <2>1. n \in Below(w, {e})
        OBVIOUS
    <2> QED
        BY <2>1 DEF Below
<1>3. e \notin E
    BY <1>1, <1>2 DEF Without, Below
<1>4. Below(v, {e}) = {n}
    BY <1>3, BelowWithout
<1>5. e \in E
    BY <1>1, <1>4 DEF EmptyLists
<1> QED
    BY <1>3, <1>5

LEMMA NoEmptyMap ==
    ASSUME NEW v, IsTree(v), NEW k, IsMap(At(v, k))
    PROVE  k \notin EmptyLists(v)
<1> SUFFICES ASSUME NEW m \in v, m[2] = "[]", m[1][1] = k, Below(v, {m[1][1]}) = {m}
             PROVE  FALSE
    BY DEF EmptyLists
<1> DEFINE n == Into(k, <<(<<>>), "{}">>)
<1>1. IsNode(<<(<<>>), "{}">>) /\ <<(<<>>), "{}">>[2] = "{}"
    BY PathOne DEF IsNode
<1>2. n \in v /\ n[1] # <<>> /\ Head(n[1]) = k /\ n[2] = "{}"
    <2> DEFINE root == <<(<<>>), "{}">>
    <2>1. root \in At(v, k)
        BY DEF IsMap
    <2> HIDE DEF root
    <2>2. Into(k, root) \in v
        BY <1>1, <2>1, AtTree DEF root
    <2>3. Into(k, root)[1] # <<>> /\ Head(Into(k, root)[1]) = k /\ Into(k, root)[2] = root[2]
        BY <1>1, IntoNode DEF root
    <2> QED
        BY <1>1, <2>2, <2>3 DEF root
<1>3. n \in Below(v, {k})
    BY <1>2 DEF Below
<1> QED
    BY <1>2, <1>3

LEMMA FieldsTree ==
    ASSUME NEW v, IsTree(v), NEW required, NEW optional
    PROVE  /\ IsTree(Fields(v, required, optional))
           /\ Keys(Fields(v, required, optional)) \subseteq required \cup optional
           /\ \A n \in Fields(v, required, optional) :
                n \in Only(v, required \cup optional) \/ n[2] = ""
<1> DEFINE blank == {<<(<<k>>), "">> : k \in required \ Keys(v)}
<1>1. \A n \in blank : IsNode(n) /\ n[1] # <<>> /\ Head(n[1]) \in required /\ n[2] = ""
    <2> SUFFICES ASSUME NEW k \in required, NEW n, n = <<(<<k>>), "">>
                 PROVE  IsNode(n) /\ n[1] # <<>> /\ Head(n[1]) \in required /\ n[2] = ""
        OBVIOUS
    <2>1. IsPath(<<k>>) /\ <<k>> # <<>> /\ Head(<<k>>) = k
        BY PathOne
    <2>2. n[1] = <<k>> /\ n[2] = ""
        OBVIOUS
    <2> QED
        BY <2>1, <2>2 DEF IsNode
<1>2. IsTree(blank) /\ IsTree(Only(v, required \cup optional))
    <2>1. Single(blank)
        BY <1>1 DEF Single, IsNode
    <2> QED
        BY <1>1, <2>1, Nodes, OnlyTree
<1>3. Keys(Only(v, required \cup optional)) \subseteq required \cup optional
    <2> DEFINE K == required \cup optional
    <2>1. Keys(Only(v, K)) = Keys(v) \cap K
        BY KeysOnly
    <2> QED
        BY <2>1
<1>4. ASSUME NEW n \in blank, NEW m \in Only(v, required \cup optional) PROVE n[1] # m[1]
    <2>1. PICK k \in required \ Keys(v) : n = <<(<<k>>), "">>
        OBVIOUS
    <2>2. n[1] = <<k>> /\ <<k>> # <<>> /\ Head(<<k>>) = k
        BY <2>1, PathOne
    <2>3. m[1] # <<>> => Head(m[1]) \in Keys(v)
        BY OnlyTree DEF Keys
    <2> QED
        BY <2>1, <2>2, <2>3
<1> HIDE DEF blank
<1>5. IsTree(Only(v, required \cup optional) \cup blank)
    BY <1>2, <1>4 DEF IsTree, Single
<1>6. Fields(v, required, optional) = Only(v, required \cup optional) \cup blank
    BY DEF Fields, blank
<1> QED
    BY <1>1, <1>3, <1>5, <1>6 DEF Keys

LEMMA MappedTree ==
    ASSUME NEW v, IsTree(v), NEW f, \A i \in Keys(v) : IsTree(f[i])
    PROVE  /\ IsTree(Mapped(v, f)) /\ Root(Mapped(v, f)) = Root(v)
           /\ \A n \in Mapped(v, f) : n \in Root(v) \/ \E i \in Keys(v) : \E m \in f[i] : n = Into(i, m)
           /\ \A i \in Keys(v) : \A m \in f[i] : Into(i, m) \in Mapped(v, f)
<1>1. \A i \in Keys(v) : /\ IsTree(Under(i, f[i])) /\ Under(i, f[i]) = {Into(i, m) : m \in f[i]}
                         /\ \A n \in Under(i, f[i]) : n[1] # <<>>
    <2> SUFFICES ASSUME NEW i \in Keys(v)
                 PROVE  /\ IsTree(Under(i, f[i])) /\ Under(i, f[i]) = {Into(i, m) : m \in f[i]}
                        /\ \A n \in Under(i, f[i]) : n[1] # <<>>
        OBVIOUS
    <2>1. \A m \in f[i] : Into(i, m)[1] # <<>>
        BY IntoNode, Nodes
    <2> QED
        BY <2>1, UnderTree
<1>2. IsTree(Root(v))
    BY DEF IsTree, Single, Root
<1>3. IsTree(Mapped(v, f))
    <2>1. ASSUME NEW i \in Keys(v), NEW n \in Under(i, f[i]) PROVE Head(n[1]) = i
        <3>1. PICK m \in f[i] : n = Into(i, m)
            BY <1>1
        <3>2. IsNode(m)
            BY Nodes
        <3> QED
            BY <3>1, <3>2, IntoNode
    <2>2. \A n \in Mapped(v, f) : \/ n \in Root(v) /\ n[1] = <<>>
                                 \/ \E i \in Keys(v) : n \in Under(i, f[i])
        BY DEF Mapped, Root
    <2>3. ASSUME NEW n \in Mapped(v, f) PROVE IsNode(n)
        BY <1>1, <1>2, <2>2, Nodes
    <2>4. Single(Mapped(v, f))
        <3> SUFFICES ASSUME NEW n \in Mapped(v, f), NEW m \in Mapped(v, f), n[1] = m[1] PROVE n = m
            BY DEF Single
        <3>1. CASE n[1] = <<>>
            <4>1. n \in Root(v) /\ m \in Root(v)
                BY <1>1, <2>2, <3>1
            <4> QED
                BY <1>2, <4>1 DEF IsTree, Single
        <3>2. CASE n[1] # <<>>
            <4>1. PICK i \in Keys(v) : n \in Under(i, f[i])
                BY <2>2, <3>2
            <4>2. PICK j \in Keys(v) : m \in Under(j, f[j])
                BY <2>2, <3>2
            <4>3. i = j
                BY <2>1, <4>1, <4>2
            <4> QED
                BY <1>1, <4>1, <4>2, <4>3 DEF IsTree, Single
        <3> QED
            BY <3>1, <3>2
    <2> QED
        BY <2>3, <2>4, Nodes
<1>4. Root(Mapped(v, f)) = Root(v)
    BY <1>1 DEF Mapped, Root
<1>5. \A n \in Mapped(v, f) : n \in Root(v) \/ \E i \in Keys(v) : \E m \in f[i] : n = Into(i, m)
    <2> SUFFICES ASSUME NEW i \in Keys(v), NEW n \in Under(i, f[i])
                 PROVE  \E m \in f[i] : n = Into(i, m)
        BY DEF Mapped
    <2> QED
        BY <1>1
<1>6. \A i \in Keys(v) : \A m \in f[i] : Into(i, m) \in Mapped(v, f)
    <2> SUFFICES ASSUME NEW i \in Keys(v), NEW m \in f[i]
                 PROVE  Into(i, m) \in Mapped(v, f)
        OBVIOUS
    <2>1. Into(i, m) \in Under(i, f[i])
        BY <1>1
    <2> QED
        BY <2>1 DEF Mapped
<1> QED
    BY <1>3, <1>4, <1>5, <1>6


LEMMA MappedKeys ==
    ASSUME NEW v, IsTree(v), NEW f, \A i \in Keys(v) : IsTree(f[i]), NEW k
    PROVE  Keys(Field(k, Mapped(v, f))) \subseteq {k}
BY MappedTree, FieldTree


---------------------------------------------------------------------------
(* What a tree has at a key. *)

LEMMA AtBoth ==
    ASSUME NEW v, NEW w, NEW k
    PROVE  At(v ++ w, k) = IF k \in Keys(v) THEN At(v, k) ELSE At(w, k)
<1>1. CASE k \in Keys(v)
    <2>1. Below(v ++ w, {k}) = Below(v, {k})
        BY <1>1, BelowBoth
    <2> QED
        BY <1>1, <2>1 DEF At
<1>2. CASE k \notin Keys(v)
    <2>1. Below(v ++ w, {k}) = Below(w, {k})
        BY <1>2, BelowBoth
    <2> QED
        BY <1>2, <2>1 DEF At
<1> QED
    BY <1>1, <1>2

LEMMA AtNone ==
    ASSUME NEW v, NEW k
    PROVE  k \in Keys(v) <=> At(v, k) # {}
BY DEF At, Below, Keys

LEMMA AtOnly ==
    ASSUME NEW v, NEW K, NEW k
    PROVE  /\ k \in K => At(Only(v, K), k) = At(v, k) /\ At(Without(v, K), k) = {}
           /\ k \notin K => At(Without(v, K), k) = At(v, k)
<1>1. k \in K => Below(Only(v, K), {k}) = Below(v, {k}) /\ Below(Without(v, K), {k}) = {}
    BY DEF Below, Only, Without, Root
<1> QED
    BY <1>1, BelowWithout DEF At

\* A path below a key.
LEMMA PathAt ==
    ASSUME NEW v, IsTree(v), NEW k, NEW p, IsPath(p)
    PROVE  <<k>> \o p \in Paths(v) <=> p \in Paths(At(v, k))
<1>1. ASSUME <<k>> \o p \in Paths(v) PROVE p \in Paths(At(v, k))
    <2>1. PICK n \in v : n[1] = <<k>> \o p
        BY <1>1 DEF Paths
    <2>2. n \in Below(v, {k}) /\ Tail(n[1]) = p
        BY <2>1, PathCons DEF Below
    <2>3. <<p, n[2]>> \in At(v, k)
        BY <2>2 DEF At
    <2> QED
        BY <2>3 DEF Paths
<1>2. ASSUME p \in Paths(At(v, k)) PROVE <<k>> \o p \in Paths(v)
    <2>1. PICK n \in At(v, k) : n[1] = p
        BY <1>2 DEF Paths
    <2>2. Into(k, n) \in v /\ Into(k, n)[1] = <<k>> \o p
        BY <2>1, AtTree, Nodes DEF Into
    <2> QED
        BY <2>2 DEF Paths
<1> QED
    BY <1>1, <1>2

\* The text of a field that is there.
LEMMA TextPath ==
    ASSUME NEW v, IsTree(v), NEW k
    PROVE  /\ <<k>> \in Paths(v) => <<(<<k>>), Text(v, k)>> \in v /\ k \in Keys(v)
           /\ \A a : <<(<<k>>), a>> \in v => Text(v, k) = a
<1> DEFINE there == {n \in v : n[1] = <<k>>}
<1>1. <<k>> # <<>> /\ Head(<<k>>) = k
    BY PathOne
<1>2. ASSUME <<k>> \in Paths(v) PROVE <<(<<k>>), Text(v, k)>> \in v /\ k \in Keys(v)
    <2>1. there # {}
        BY <1>2 DEF Paths
    <2>2. PICK n : n = CHOOSE m \in there : TRUE
        OBVIOUS
    <2>3. n \in there
        BY <2>1, <2>2
    <2>4. Text(v, k) = n[2]
        BY <2>1, <2>2 DEF Text
    <2>5. n = <<(<<k>>), n[2]>>
        BY <2>3 DEF IsTree
    <2> QED
        BY <2>3, <2>4, <2>5, <1>1 DEF Keys
<1>3. ASSUME NEW a, <<(<<k>>), a>> \in v PROVE Text(v, k) = a
    <2>1. <<k>> \in Paths(v)
        BY <1>3 DEF Paths
    <2>2. <<(<<k>>), Text(v, k)>> \in v
        BY <1>2, <2>1
    <2>3. <<(<<k>>), a>> = <<(<<k>>), Text(v, k)>>
        BY <1>3, <2>2 DEF IsTree, Single
    <2> QED
        BY <2>3
<1> QED
    BY <1>2, <1>3

\* The text of a field that is not there, and of one that is at its place.
LEMMA TextAt ==
    ASSUME NEW v, NEW w, NEW k, At(v, k) = At(w, k), IsTree(v), IsTree(w)
    PROVE  Text(v, k) = Text(w, k)
<1>1. \A u : IsTree(u) => (<<k>> \in Paths(u) <=> <<>> \in Paths(At(u, k)))
    BY PathAt, PathOne
<1>2. \A u, a : IsTree(u) => (<<(<<k>>), a>> \in u <=> <<(<<>>), a>> \in At(u, k))
    <2> SUFFICES ASSUME NEW u, NEW a, IsTree(u)
                 PROVE  <<(<<k>>), a>> \in u <=> <<(<<>>), a>> \in At(u, k)
        OBVIOUS
    <2>1. IsNode(<<(<<>>), a>>) /\ Into(k, <<(<<>>), a>>) = <<(<<k>>), a>>
        BY PathOne DEF IsNode, Into
    <2> QED
        BY <2>1, AtTree
<1>3. CASE <<k>> \in Paths(v)
    <2>1. <<(<<k>>), Text(v, k)>> \in w
        BY <1>2, <1>3, TextPath
    <2> QED
        BY <2>1, TextPath
<1>4. CASE <<k>> \notin Paths(v)
    <2>1. {n \in v : n[1] = <<k>>} = {} /\ {n \in w : n[1] = <<k>>} = {}
        BY <1>1, <1>4 DEF Paths
    <2> QED
        BY <2>1 DEF Text
<1> QED
    BY <1>3, <1>4

LEMMA MappedAt ==
    ASSUME NEW v, IsTree(v), NEW f, \A i \in Keys(v) : IsTree(f[i]) /\ f[i] # {}
    PROVE  /\ Keys(Mapped(v, f)) = Keys(v) /\ Root(Mapped(v, f)) = Root(v)
           /\ \A i \in Keys(v) : At(Mapped(v, f), i) = f[i]
<1> DEFINE w == Mapped(v, f)
<1>1. /\ IsTree(w) /\ Root(w) = Root(v)
      /\ \A n \in w : n \in Root(v) \/ \E i \in Keys(v) : \E m \in f[i] : n = Into(i, m)
      /\ \A i \in Keys(v) : \A m \in f[i] : Into(i, m) \in w
    BY MappedTree
<1> HIDE DEF w
<1>2. ASSUME NEW i \in Keys(v), NEW m \in f[i]
      PROVE  IsNode(m) /\ Into(i, m)[1] # <<>> /\ Head(Into(i, m)[1]) = i
    BY IntoNode, Nodes
<1>3. Keys(v) \subseteq Keys(w)
    <2> SUFFICES ASSUME NEW i \in Keys(v) PROVE i \in Keys(w)
        OBVIOUS
    <2>1. PICK m : m \in f[i]
        OBVIOUS
    <2> QED
        BY <1>1, <1>2, <2>1 DEF Keys
<1>4. Keys(w) \subseteq Keys(v)
    <2> SUFFICES ASSUME NEW n \in w, n[1] # <<>> PROVE Head(n[1]) \in Keys(v)
        BY DEF Keys
    <2>1. PICK i \in Keys(v) : \E m \in f[i] : n = Into(i, m)
        BY <1>1 DEF Root
    <2> QED
        BY <2>1, <1>2
<1>5. ASSUME NEW i \in Keys(v) PROVE At(w, i) = f[i]
    <2>1. ASSUME NEW n \in f[i] PROVE n \in At(w, i)
        BY <1>1, <1>2, <2>1, AtTree
    <2>2. ASSUME NEW n \in At(w, i) PROVE n \in f[i]
        <3>1. IsNode(n) /\ Into(i, n) \in w
            BY <1>1, <2>2, AtTree, Nodes
        <3>2. Into(i, n)[1] # <<>> /\ Head(Into(i, n)[1]) = i
            BY <3>1, IntoNode
        <3>3. PICK j \in Keys(v) : \E m \in f[j] : Into(i, n) = Into(j, m)
            BY <1>1, <3>1, <3>2 DEF Root
        <3>4. PICK m \in f[j] : Into(i, n) = Into(j, m)
            BY <3>3
        <3>5. i = j
            BY <1>2, <3>2, <3>4
        <3> QED
            BY <1>2, <3>1, <3>4, <3>5, IntoSame
    <2> QED
        BY <2>1, <2>2
<1> QED
    BY <1>1, <1>3, <1>4, <1>5 DEF w

\* A list of a list.
LEMMA MappedAgain ==
    ASSUME NEW v, IsTree(v), NEW f, \A i \in Keys(v) : IsTree(f[i]) /\ f[i] # {}, NEW g
    PROVE  Mapped(Mapped(v, f), g) = Mapped(v, g)
<1>1. Keys(Mapped(v, f)) = Keys(v) /\ Root(Mapped(v, f)) = Root(v)
    BY MappedAt
<1> QED
    BY <1>1 DEF Mapped

LEMMA MappedSame ==
    ASSUME NEW v, NEW f, NEW g, \A i \in Keys(v) : f[i] = g[i]
    PROVE  Mapped(v, f) = Mapped(v, g)
BY DEF Mapped

\* What an update replaces, and what is merged.
LEMMA PatchReplaced ==
    ASSUME NEW old, IsTree(old), NEW new, NEW deep, NEW k, k \notin deep, <<k>> \in Paths(new)
    PROVE  Below(Patch(old, new, deep), {k}) = Below(new, {k})
<1>1. ASSUME NEW n \in old, n[1] # <<>>, Head(n[1]) = k,
             NEW i \in DOMAIN n[1], SubSeq(n[1], 1, i) \notin Paths(new),
             \A j \in 1..(i - 1) : n[1][j] \in deep
      PROVE  FALSE
    <2>1. IsPath(n[1]) /\ SubSeq(n[1], 1, 1) = <<k>> /\ n[1] \in Seq(Range(n[1]))
        BY <1>1, PathFirst DEF IsTree, IsPath
    <2>2. i # 1
        BY <1>1, <2>1
    <2>3. i \in Nat /\ i >= 1 /\ 1 \in 1..(i - 1)
        BY <1>1, <2>1, <2>2
    <2>4. n[1][1] = k
        BY <1>1, <2>1
    <2> QED
        BY <1>1, <2>3, <2>4
<1>2. Below(Patch(old, new, deep), {k}) \subseteq Below(new, {k})
    BY <1>1 DEF Patch, Below
<1>3. Below(new, {k}) \subseteq Below(Patch(old, new, deep), {k})
    BY DEF Patch, Below
<1> QED
    BY <1>2, <1>3


---------------------------------------------------------------------------
(* The comparison, level by level. *)

LEMMA PrefixOf ==
    ASSUME NEW S, NEW p \in Seq(S), NEW q \in Seq(S)
    PROVE  IsPrefix(p, q) <=> Len(p) <= Len(q) /\ \A i \in 1..Len(p) : p[i] = q[i]
<1> DEFINE l == Len(p)
<1>1. l \in Nat /\ Len(q) \in Nat
    OBVIOUS
<1>2. CASE l <= Len(q)
    <2>1. SubSeq(p, 1, l) = p
        <3>1. /\ SubSeq(p, 1, l) \in Seq(S) /\ Len(SubSeq(p, 1, l)) = l
              /\ \A i \in 1..l : SubSeq(p, 1, l)[i] = p[i]
            BY <1>1, SubSeqProperties
        <3> QED
            BY <3>1, SeqEqual
    <2>2. /\ SubSeq(q, 1, l) \in Seq(S) /\ Len(SubSeq(q, 1, l)) = l
          /\ \A i \in 1..l : SubSeq(q, 1, l)[i] = q[i]
        BY <1>1, <1>2, SubSeqProperties
    <2>3. (\A i \in 1..l : p[i] = q[i]) => p = SubSeq(q, 1, l)
        BY <2>2, SeqEqual
    <2>4. p = SubSeq(q, 1, l) => \A i \in 1..l : p[i] = q[i]
        BY <2>2
    <2> QED
        BY <1>2, <2>1, <2>3, <2>4 DEF IsPrefix
<1>3. CASE ~(l <= Len(q))
    BY <1>3 DEF IsPrefix
<1> QED
    BY <1>2, <1>3

LEMMA PathPrefix ==
    ASSUME NEW k, NEW p, IsPath(p), NEW q, IsPath(q)
    PROVE  IsPrefix(<<k>> \o p, <<k>> \o q) <=> IsPrefix(p, q)
<1>1. PICK S : k \in S /\ p \in Seq(S) /\ q \in Seq(S)
    <2> DEFINE S == Range(p) \cup Range(q) \cup {k}
    <2>1. p \in Seq(S) /\ q \in Seq(S) /\ k \in S
        BY SeqMonotonic DEF IsPath
    <2> QED
        BY <2>1
<1> DEFINE a == <<k>> \o p
           b == <<k>> \o q
<1>2. /\ a \in Seq(S) /\ Len(a) = Len(p) + 1 /\ a[1] = k /\ \A i \in 1..Len(p) : a[i + 1] = p[i]
      /\ b \in Seq(S) /\ Len(b) = Len(q) + 1 /\ b[1] = k /\ \A i \in 1..Len(q) : b[i + 1] = q[i]
      /\ Len(p) \in Nat /\ Len(q) \in Nat
    BY <1>1
<1> HIDE DEF a, b
<1>3. IsPrefix(a, b) <=> Len(a) <= Len(b) /\ \A i \in 1..Len(a) : a[i] = b[i]
    BY <1>2, PrefixOf
<1>4. IsPrefix(p, q) <=> Len(p) <= Len(q) /\ \A i \in 1..Len(p) : p[i] = q[i]
    BY <1>1, PrefixOf
<1>5. ASSUME Len(p) <= Len(q), \A i \in 1..Len(p) : p[i] = q[i], NEW i \in 1..Len(a) PROVE a[i] = b[i]
    <2>1. CASE i = 1
        BY <2>1, <1>2
    <2>2. CASE i # 1
        <3>1. i - 1 \in 1..Len(p) /\ i - 1 \in 1..Len(q) /\ i = (i - 1) + 1
            BY <1>2, <1>5, <2>2
        <3> QED
            BY <1>2, <1>5, <3>1
    <2> QED
        BY <2>1, <2>2
<1>6. ASSUME Len(a) <= Len(b), \A i \in 1..Len(a) : a[i] = b[i], NEW i \in 1..Len(p) PROVE p[i] = q[i]
    <2>1. i + 1 \in 1..Len(a) /\ i \in 1..Len(q)
        BY <1>2, <1>6
    <2> QED
        BY <1>2, <1>6, <2>1
<1>7. Len(a) <= Len(b) <=> Len(p) <= Len(q)
    BY <1>2
<1> QED
    BY <1>3, <1>4, <1>5, <1>6, <1>7 DEF a, b

LEMMA PrefixHead ==
    ASSUME NEW k, NEW p, IsPath(p), NEW q, IsPath(q), IsPrefix(<<k>> \o p, q)
    PROVE  q # <<>> /\ Head(q) = k
<1>1. PICK S : k \in S /\ p \in Seq(S) /\ q \in Seq(S)
    <2> DEFINE S == Range(p) \cup Range(q) \cup {k}
    <2>1. p \in Seq(S) /\ q \in Seq(S) /\ k \in S
        BY SeqMonotonic DEF IsPath
    <2> QED
        BY <2>1
<1> DEFINE a == <<k>> \o p
<1>2. a \in Seq(S) /\ Len(a) = Len(p) + 1 /\ a[1] = k /\ Len(p) \in Nat
    BY <1>1
<1>3. IsPrefix(a, q)
    OBVIOUS
<1> HIDE DEF a
<1>5. Len(a) <= Len(q) /\ \A i \in 1..Len(a) : a[i] = q[i]
    BY <1>1, <1>2, <1>3, PrefixOf
<1>4. q[1] = k /\ Len(q) >= 1
    <2>1. 1 \in 1..Len(a)
        BY <1>2
    <2> QED
        BY <1>1, <1>2, <1>5, <2>1
<1> QED
    BY <1>1, <1>4

\* The part of v at path p and below.
From(v, p) == {n \in v : IsPrefix(p, n[1])}

LEMMA FromUnder ==
    ASSUME NEW v, IsTree(v), NEW k, NEW p, IsPath(p)
    PROVE  From(v, <<k>> \o p) = Under(k, From(At(v, k), p))
<1> DEFINE F == From(At(v, k), p)
<1>1. /\ IsTree(At(v, k)) /\ \A n : IsNode(n) => (n \in At(v, k) <=> Into(k, n) \in v)
      /\ (\A n \in v : IsNode(n)) /\ \A n \in At(v, k) : IsNode(n)
    BY AtTree, Nodes
<1>2. IsTree(F) /\ \A n : IsNode(n) => (Into(k, n) \in Under(k, F) <=> n \in F)
    BY <1>1, Subtree, UnderTree DEF From
<1>3. Under(k, F) = {Into(k, n) : n \in F}
    BY <1>2, UnderTree
<1>4. ASSUME NEW n \in v, IsPrefix(<<k>> \o p, n[1]) PROVE n \in Under(k, F)
    <2>1. IsNode(n) /\ n[1] # <<>> /\ Head(n[1]) = k
        BY <1>1, <1>4, PrefixHead DEF IsNode
    <2> DEFINE m == <<Tail(n[1]), n[2]>>
    <2>2. IsNode(m) /\ n = Into(k, m)
        BY <2>1, NodeSplit
    <2> HIDE DEF m
    <2>4. n[1] = <<k>> \o m[1]
        BY <2>2, IntoNode
    <2>3. m \in At(v, k) /\ IsPrefix(p, m[1])
        BY <1>1, <1>4, <2>2, <2>4, PathPrefix DEF IsNode
    <2> QED
        BY <1>2, <2>2, <2>3 DEF From
<1>5. ASSUME NEW m \in F PROVE Into(k, m) \in From(v, <<k>> \o p)
    <2>1. m \in At(v, k) /\ IsPrefix(p, m[1]) /\ IsNode(m)
        BY <1>1 DEF From
    <2>2. Into(k, m) \in v /\ Into(k, m)[1] = <<k>> \o m[1]
        BY <1>1, <2>1, IntoNode
    <2>3. IsPrefix(<<k>> \o p, Into(k, m)[1])
        BY <2>1, <2>2, PathPrefix DEF IsNode
    <2> QED
        BY <2>2, <2>3 DEF From
<1> QED
    BY <1>3, <1>4, <1>5 DEF From

LEMMA UnderSame ==
    ASSUME NEW k, NEW v, IsTree(v), NEW w, IsTree(w), Under(k, v) = Under(k, w)
    PROVE  v = w
<1>1. \A n : IsNode(n) => (n \in v <=> n \in w)
    BY UnderTree
<1> QED
    BY <1>1, Nodes

LEMMA ElementAt ==
    ASSUME NEW d, IsTree(d), NEW o, IsTree(o), NEW k, NEW q, IsPath(q)
    PROVE  SameElement(d, o, <<k>> \o q) <=> SameElement(At(d, k), At(o, k), q)
<1> DEFINE n == <<q, "{}">>
<1>1. IsNode(n) /\ Into(k, n) = <<(<<k>> \o q), "{}">>
    BY DEF IsNode, Into
<1> HIDE DEF n
<1>2. /\ <<(<<k>> \o q), "{}">> \in d <=> n \in At(d, k)
      /\ <<(<<k>> \o q), "{}">> \in o <=> n \in At(o, k)
    BY <1>1, AtTree
<1>3. From(d, <<k>> \o q) = From(o, <<k>> \o q) <=> From(At(d, k), q) = From(At(o, k), q)
    <2>1. /\ From(d, <<k>> \o q) = Under(k, From(At(d, k), q))
          /\ From(o, <<k>> \o q) = Under(k, From(At(o, k), q))
        BY FromUnder
    <2>2. IsTree(From(At(d, k), q)) /\ IsTree(From(At(o, k), q))
        BY AtTree, Subtree DEF From
    <2> QED
        BY <2>1, <2>2, UnderSame
<1>4. /\ SameElement(d, o, <<k>> \o q) <=>
            \/ <<(<<k>> \o q), "{}">> \in d \cap o
            \/ From(d, <<k>> \o q) = From(o, <<k>> \o q)
      /\ SameElement(At(d, k), At(o, k), q) <=>
            n \in At(d, k) \cap At(o, k) \/ From(At(d, k), q) = From(At(o, k), q)
    BY DEF SameElement, From, n
<1> QED
    BY <1>2, <1>3, <1>4

LEMMA ListAt ==
    ASSUME NEW d, IsTree(d), NEW o, IsTree(o), NEW k, NEW p, IsPath(p)
    PROVE  SameList(d, o, <<k>> \o p) <=> SameList(At(d, k), At(o, k), p)
<1> DEFINE n == <<p, "[]">>
           D == At(d, k)
           O == At(o, k)
<1>1. IsNode(n) /\ Into(k, n) = <<(<<k>> \o p), "[]">>
    BY DEF IsNode, Into
<1> HIDE DEF n
<1>2. <<(<<k>> \o p), "[]">> \in o <=> n \in O
    BY <1>1, AtTree
<1>3. IsTree(D) /\ IsTree(O)
    BY AtTree
<1>4. \A v : IsTree(v) => \A q \in Paths(v) : IsPath(q)
    BY DEF Paths, IsTree
<1>5. ASSUME SameList(d, o, <<k>> \o p), NEW q \in Paths(D) \cup Paths(O), q # <<>>, Front(q) = p
      PROVE  SameElement(D, O, q)
    <2>1. IsPath(q)
        BY <1>3, <1>4, <1>5
    <2>2. <<k>> \o q \in Paths(d) \cup Paths(o)
        BY <1>5, <2>1, PathAt
    <2>3. <<k>> \o q # <<>> /\ Front(<<k>> \o q) = <<k>> \o p
        BY <1>5, <2>1, PathLast, PathCons
    <2>4. SameElement(d, o, <<k>> \o q)
        BY <1>5, <2>2, <2>3 DEF SameList
    <2> QED
        BY <2>1, <2>4, ElementAt
<1>6. ASSUME n \in O, \A q \in Paths(D) \cup Paths(O) : q # <<>> /\ Front(q) = p => SameElement(D, O, q),
             NEW q \in Paths(d) \cup Paths(o), q # <<>>, Front(q) = <<k>> \o p
      PROVE  SameElement(d, o, q)
    <2>1. IsPath(q)
        BY <1>4, <1>6
    <2> DEFINE r == Tail(q)
    <2>2. IsPath(r) /\ q = <<Head(q)>> \o r
        BY <1>6, <2>1, PathSplit
    <2> HIDE DEF r
    <2>3. <<k>> \o p # <<>> /\ Head(<<k>> \o p) = k /\ Tail(<<k>> \o p) = p
        BY PathCons
    <2>4. r # <<>>
        BY <1>6, <2>2, <2>3, PathOne
    <2>5. Front(q) = <<Head(q)>> \o Front(r) /\ IsPath(Front(r))
        BY <2>2, <2>4, PathLast
    <2>6. Head(q) = k /\ Front(r) = p
        BY <1>6, <2>3, <2>5, PathCons
    <2>7. r \in Paths(D) \cup Paths(O)
        BY <1>6, <2>2, <2>6, PathAt
    <2> QED
        BY <1>6, <2>2, <2>4, <2>6, <2>7, ElementAt
<1> QED
    BY <1>2, <1>5, <1>6 DEF SameList, n

LEMMA NodeAt ==
    ASSUME NEW d, IsTree(d), NEW o, IsTree(o), NEW k, NEW n, IsNode(n)
    PROVE  SameNode(Into(k, n), d, o) <=> SameNode(n, At(d, k), At(o, k))
<1> DEFINE O == At(o, k)
<1>1. Into(k, n)[1] = <<k>> \o n[1] /\ Into(k, n)[2] = n[2] /\ IsPath(n[1]) /\ n = <<n[1], n[2]>>
    BY IntoNode DEF IsNode
<1>2. Into(k, n) \in o <=> n \in O
    BY AtTree
<1>3. SameList(d, o, Into(k, n)[1]) <=> SameList(At(d, k), O, n[1])
    BY <1>1, ListAt
<1>4. SameText(Into(k, n), o) <=> SameText(n, O)
    <2>1. Append(<<k>> \o n[1], "id") = <<k>> \o Append(n[1], "id") /\ IsPath(Append(n[1], "id"))
        BY <1>1, PathAppend
    <2>2. Append(<<k>> \o n[1], "id") \in Paths(o) <=> Append(n[1], "id") \in Paths(O)
        BY <2>1, PathAt
    <2>3. ASSUME NEW p, IsPath(p), NEW t PROVE <<(<<k>> \o p), t>> \in o <=> <<p, t>> \in O
        <3> DEFINE m == <<p, t>>
        <3>1. IsNode(m) /\ Into(k, m) = <<(<<k>> \o p), t>>
            BY <2>3 DEF IsNode, Into
        <3> QED
            BY <3>1, AtTree
    <2>4. /\ <<(<<k>> \o n[1]), "{}">> \in o <=> <<n[1], "{}">> \in O
          /\ <<Append(<<k>> \o n[1], "id"), n[2]>> \in o <=> <<Append(n[1], "id"), n[2]>> \in O
        BY <1>1, <2>1, <2>3
    <2> QED
        BY <1>1, <1>2, <2>2, <2>4 DEF SameText
<1> QED
    BY <1>1, <1>2, <1>3, <1>4 DEF SameNode

\* The comparison, at the root and key by key.
LEMMA SubsetByKey ==
    ASSUME NEW d, IsTree(d), NEW o, IsTree(o)
    PROVE  IsSubsetEqual(d, o) <=>
                /\ \A n \in Root(d) : n[1] \in Paths(o) => SameNode(n, d, o)
                /\ \A k \in Keys(d) \cap Keys(o) : IsSubsetEqual(At(d, k), At(o, k))
<1>1. /\ \A n \in d : IsNode(n)
      /\ IsSubsetEqual(d, o) <=> (\A n \in d : n[1] \in Paths(o) => SameNode(n, d, o))
    BY Nodes DEF IsSubsetEqual, Paths
<1>2. ASSUME IsSubsetEqual(d, o), NEW k, NEW n \in At(d, k), n[1] \in Paths(At(o, k))
      PROVE  SameNode(n, At(d, k), At(o, k))
    <2>1. IsNode(n) /\ Into(k, n) \in d /\ Into(k, n)[1] = <<k>> \o n[1]
        BY AtTree, Nodes, IntoNode
    <2>2. Into(k, n)[1] \in Paths(o)
        BY <1>2, <2>1, PathAt DEF IsNode
    <2> QED
        BY <1>1, <1>2, <2>1, <2>2, NodeAt
<1>3. IsSubsetEqual(d, o) => \A k \in Keys(d) \cap Keys(o) : IsSubsetEqual(At(d, k), At(o, k))
    BY <1>2 DEF IsSubsetEqual
<1>4. ASSUME \A k \in Keys(d) \cap Keys(o) : IsSubsetEqual(At(d, k), At(o, k)),
             NEW n \in d, n[1] # <<>>, n[1] \in Paths(o)
      PROVE  SameNode(n, d, o)
    <2> DEFINE k == Head(n[1])
               m == <<Tail(n[1]), n[2]>>
    <2>1. IsNode(n) /\ IsNode(m) /\ n = Into(k, m)
        BY <1>1, <1>4, NodeSplit
    <2>2. k \in Keys(d)
        BY <1>4 DEF Keys
    <2>2a. k \in Keys(o)
        BY <1>4 DEF Keys, Paths
    <2> HIDE DEF m, k
    <2>3. m \in At(d, k) /\ n[1] = <<k>> \o m[1]
        BY <2>1, AtTree, IntoNode
    <2>4. m[1] \in Paths(At(o, k))
        BY <1>4, <2>1, <2>3, PathAt DEF IsNode
    <2>5. SameNode(m, At(d, k), At(o, k))
        BY <1>4, <2>2, <2>2a, <2>3, <2>4 DEF IsSubsetEqual, Paths
    <2> QED
        BY <2>1, <2>5, NodeAt
<1> QED
    BY <1>1, <1>3, <1>4 DEF Root

LEMMA SubsetMaps ==
    ASSUME NEW d, IsTree(d), IsMap(d), NEW o, IsTree(o), IsMap(o)
    PROVE  IsSubsetEqual(d, o) <=> \A k \in Keys(d) \cap Keys(o) : IsSubsetEqual(At(d, k), At(o, k))
<1>1. ASSUME NEW n \in Root(d) PROVE SameNode(n, d, o)
    <2> DEFINE r == <<(<<>>), "{}">>
    <2>1. r \in d /\ r \in o /\ r[1] = <<>> /\ r[2] = "{}"
        BY DEF IsMap
    <2> HIDE DEF r
    <2>2. n = r
        BY <2>1 DEF IsTree, Single, Root
    <2> QED
        BY <2>1, <2>2 DEF SameNode
<1> QED
    BY <1>1, SubsetByKey

LEMMA SubsetSame ==
    ASSUME NEW v, IsTree(v)
    PROVE  IsSubsetEqual(v, v)
<1> SUFFICES ASSUME NEW n \in v PROVE SameNode(n, v, v)
    BY DEF IsSubsetEqual
<1>1. n = <<n[1], n[2]>>
    BY DEF IsTree
<1>2. n[2] = "[]" => SameList(v, v, n[1])
    BY <1>1 DEF SameList, SameElement
<1>3. n[2] # "{}" => SameText(n, v)
    <2> DEFINE m == <<n[1], "{}">>
    <2>1. m[1] = n[1] /\ m[2] = "{}"
        OBVIOUS
    <2> HIDE DEF m
    <2>2. n[2] # "{}" => m \notin v
        BY <2>1 DEF IsTree, Single
    <2> QED
        BY <2>2 DEF SameText, m
<1> QED
    BY <1>2, <1>3 DEF SameNode

\* What is all there, without a list.
LEMMA SubsetInside ==
    ASSUME NEW o, IsTree(o), NEW d \in SUBSET o, \A n \in d : n[2] # "[]"
    PROVE  IsSubsetEqual(d, o)
<1> SUFFICES ASSUME NEW n \in d PROVE SameNode(n, d, o)
    BY DEF IsSubsetEqual
<1>1. n \in o /\ n[2] # "[]"
    OBVIOUS
<1>3. n[2] # "{}" => SameText(n, o)
    <2> DEFINE m == <<n[1], "{}">>
    <2>1. m[1] = n[1] /\ m[2] = "{}"
        OBVIOUS
    <2> HIDE DEF m
    <2>2. n[2] # "{}" => m \notin o
        BY <1>1, <2>1 DEF IsTree, Single
    <2> QED
        BY <1>1, <2>2 DEF SameText, m
<1> QED
    BY <1>1, <1>3 DEF SameNode

\* Where nothing is asked for that is there.
LEMMA SubsetApart ==
    ASSUME NEW d, NEW o, Paths(d) \cap Paths(o) = {}
    PROVE  IsSubsetEqual(d, o)
BY DEF IsSubsetEqual

LEMMA SubsetOnly ==
    ASSUME NEW v, IsTree(v), IsMap(v), NEW K
    PROVE  IsSubsetEqual(v, Only(v, K))
<1>1. IsTree(Only(v, K)) /\ IsMap(Only(v, K))
    BY OnlyTree, RootOnly DEF IsMap, Only, Root
<1>2. ASSUME NEW k \in Keys(Only(v, K)) PROVE At(Only(v, K), k) = At(v, k)
    BY KeysOnly, AtOnly
<1>3. \A k : IsSubsetEqual(At(v, k), At(v, k))
    BY AtTree, SubsetSame
<1> QED
    BY <1>1, <1>2, <1>3, SubsetMaps

\* A list, or a map, of maps.
LEMMA SubsetMapped ==
    ASSUME NEW v, IsTree(v), NEW f,
           \A i \in Keys(v) : IsTree(f[i]) /\ IsMap(f[i]) /\ IsMap(At(v, i)) /\ IsSubsetEqual(At(v, i), f[i])
    PROVE  IsSubsetEqual(v, Mapped(v, f))
<1> DEFINE o == Mapped(v, f)
<1>1. \A i \in Keys(v) : f[i] # {}
    BY DEF IsMap
<1>2. IsTree(o) /\ Keys(o) = Keys(v) /\ Root(o) = Root(v) /\ \A i \in Keys(v) : At(o, i) = f[i]
    BY <1>1, MappedTree, MappedAt
<1> HIDE DEF o
<1>3. ASSUME NEW n \in Root(v) PROVE SameNode(n, v, o)
    <2>1. n \in o /\ n \in v /\ n[1] = <<>> /\ n = <<n[1], n[2]>>
        BY <1>2 DEF Root, IsTree
    <2>2. n[2] # "{}" => SameText(n, o)
        <3> DEFINE m == <<n[1], "{}">>
        <3>1. m[1] = n[1] /\ m[2] = "{}"
            OBVIOUS
        <3> HIDE DEF m
        <3>2. n[2] # "{}" => m \notin o
            BY <1>2, <2>1, <3>1 DEF IsTree, Single
        <3> QED
            BY <2>1, <3>2 DEF SameText, m
    <2>3. ASSUME NEW q \in Paths(v) \cup Paths(o), q # <<>>, Front(q) = <<>>
          PROVE  SameElement(v, o, q)
        <3> DEFINE k == Head(q)
        <3>1. IsPath(q)
            BY <1>2 DEF Paths, IsTree
        <3>2. k \in Keys(v)
            BY <1>2, <2>3 DEF Paths, Keys
        <3>3. IsPath(Tail(q)) /\ q = <<k>> \o Tail(q)
            BY <2>3, <3>1, PathSplit
        <3>4. Tail(q) = <<>>
            <4>1. CASE Tail(q) # <<>>
                <5>1. Front(q) = <<k>> \o Front(Tail(q)) /\ IsPath(Front(Tail(q)))
                    BY <3>3, <4>1, PathLast
                <5> QED
                    BY <2>3, <5>1, PathCons
            <4> QED
                BY <4>1
        <3>5. q = <<k>>
            BY <3>3, <3>4, PathOne
        <3> HIDE DEF k
        <3> DEFINE r == <<(<<>>), "{}">>
        <3>6. IsNode(r) /\ Into(k, r) = <<q, "{}">>
            BY <3>3, <3>4, PathOne DEF IsNode, Into
        <3>7. r \in At(v, k) /\ r \in At(o, k)
            BY <1>2, <3>2 DEF IsMap
        <3> HIDE DEF r
        <3>8. <<q, "{}">> \in v /\ <<q, "{}">> \in o
            BY <1>2, <3>6, <3>7, AtTree
        <3> QED
            BY <3>8 DEF SameElement
    <2>4. n[2] = "[]" => SameList(v, o, n[1])
        BY <2>1, <2>3 DEF SameList
    <2> QED
        BY <2>1, <2>2, <2>4 DEF SameNode
<1>4. \A k \in Keys(v) \cap Keys(o) : IsSubsetEqual(At(v, k), At(o, k))
    BY <1>2
<1> QED
    BY <1>2, <1>3, <1>4, SubsetByKey DEF o

\* A scalar that is there, and below a scalar nothing is.
LEMMA SubsetLeaf ==
    ASSUME NEW d, IsTree(d), NEW t, t \notin {"{}", "[]"}, <<(<<>>), t>> \in d
    PROVE  IsSubsetEqual(d, Leaf(t))
<1> DEFINE r == <<(<<>>), t>>
<1>1. r[1] = <<>> /\ r[2] = t /\ r \in d /\ Leaf(t) = {r}
    BY DEF Leaf
<1> HIDE DEF r
<1>2. ASSUME NEW n \in d, n[1] \in Paths(Leaf(t)) PROVE SameNode(n, d, Leaf(t))
    <2>1. n[1] = r[1]
        BY <1>1, <1>2 DEF Paths
    <2>2. n = r
        BY <1>1, <2>1 DEF IsTree, Single
    <2>3. <<n[1], "{}">> \notin Leaf(t)
        <3> DEFINE m == <<n[1], "{}">>
        <3>1. m[2] = "{}"
            OBVIOUS
        <3> HIDE DEF m
        <3>2. m \notin Leaf(t)
            BY <1>1, <3>1
        <3> QED
            BY <3>2 DEF m
    <2> QED
        BY <1>1, <2>2, <2>3 DEF SameNode, SameText
<1> QED
    BY <1>2 DEF IsSubsetEqual, Paths

---------------------------------------------------------------------------
(* What comes back of v: w says at no path of v anything else than v does, *)
(* and the comparison finds what v asks for.                               *)

Echoes(w, v) ==
    /\ IsTree(w) /\ \A n \in w : n[1] \in Paths(v) => n \in v
    /\ IsSubsetEqual(v, w)

LEMMA MapRoot ==
    ASSUME NEW v
    PROVE  IsMap(v) <=> NoField \subseteq v
<1> DEFINE root == <<(<<>>), "{}">>
<1>1. NoField = {root}
    BY DEF NoField, Leaf
<1>2. IsMap(v) <=> root \in v
    BY DEF IsMap
<1> HIDE DEF root
<1> QED
    BY <1>1, <1>2

LEMMA OneRoot ==
    ASSUME NEW v, IsTree(v), IsMap(v)
    PROVE  Root(v) = NoField
<1> DEFINE root == <<(<<>>), "{}">>
<1>1. NoField = {root} /\ root[1] = <<>>
    BY DEF NoField, Leaf
<1>2. root \in v
    BY DEF IsMap
<1> HIDE DEF root
<1> QED
    BY <1>1, <1>2 DEF Root, IsTree, Single

\* Key by key, when a map is asked for.
LEMMA SubsetMap ==
    ASSUME NEW v, IsTree(v), IsMap(v), NEW w, IsTree(w)
    PROVE  IsSubsetEqual(v, w) <=>
                /\ <<>> \in Paths(w) => IsMap(w)
                /\ \A k \in Keys(v) \cap Keys(w) : IsSubsetEqual(At(v, k), At(w, k))
<1> DEFINE root == <<(<<>>), "{}">>
<1>1. Root(v) = {root} /\ root[1] = <<>> /\ root[2] = "{}" /\ (IsMap(w) <=> root \in w)
    BY OneRoot DEF NoField, Leaf, IsMap
<1> HIDE DEF root
<1>2. SameNode(root, v, w) <=> root \in w
    BY <1>1 DEF SameNode
<1> QED
    BY <1>1, <1>2, SubsetByKey

LEMMA SubsetPart ==
    ASSUME NEW v, IsTree(v), IsMap(v), NEW w, IsTree(w), IsSubsetEqual(v, w), NEW K
    PROVE  IsSubsetEqual(v, Only(w, K)) /\ IsSubsetEqual(v, Without(w, K))
<1>1. \A u : Root(u) = Root(w) => (IsMap(u) <=> IsMap(w)) /\ (<<>> \in Paths(u) <=> <<>> \in Paths(w))
    <2> DEFINE root == <<(<<>>), "{}">>
    <2>1. root[1] = <<>> /\ \A u : IsMap(u) <=> root \in u
        BY DEF IsMap
    <2> HIDE DEF root
    <2> QED
        BY <2>1 DEF Root, Paths
<1>2. /\ IsTree(Only(w, K)) /\ Root(Only(w, K)) = Root(w)
      /\ IsTree(Without(w, K)) /\ Root(Without(w, K)) = Root(w)
    BY OnlyTree, RootOnly
<1>3. \A k \in Keys(Only(w, K)) : k \in Keys(w) /\ At(Only(w, K), k) = At(w, k)
    BY KeysOnly, AtOnly
<1>4. \A k \in Keys(Without(w, K)) : k \in Keys(w) /\ At(Without(w, K), k) = At(w, k)
    BY KeysOnly, AtOnly
<1>5. (<<>> \in Paths(w) => IsMap(w)) /\ \A k \in Keys(v) \cap Keys(w) : IsSubsetEqual(At(v, k), At(w, k))
    BY SubsetMap
<1>6. IsSubsetEqual(v, Only(w, K))
    BY <1>1, <1>2, <1>3, <1>5, SubsetMap
<1>7. IsSubsetEqual(v, Without(w, K))
    BY <1>1, <1>2, <1>4, <1>5, SubsetMap
<1> QED
    BY <1>6, <1>7

LEMMA SubsetBoth ==
    ASSUME NEW v, IsTree(v), IsMap(v), NEW a, IsTree(a), IsSubsetEqual(v, a),
           NEW b, IsTree(b), IsSubsetEqual(v, b)
    PROVE  IsSubsetEqual(v, a ++ b)
<1>1. IsTree(a ++ b) /\ Root(a ++ b) = Root(a)
    BY BothTree, RootBoth
<1>2. <<>> \in Paths(a ++ b) => IsMap(a ++ b)
    <2> DEFINE root == <<(<<>>), "{}">>
    <2>1. root[1] = <<>> /\ \A u : IsMap(u) <=> root \in u
        BY DEF IsMap
    <2> HIDE DEF root
    <2>2. <<>> \in Paths(a) => IsMap(a)
        BY SubsetMap
    <2> QED
        BY <1>1, <2>1, <2>2 DEF Root, Paths
<1>3. \A k \in Keys(a ++ b) : At(a ++ b, k) = IF k \in Keys(a) THEN At(a, k) ELSE At(b, k)
    BY AtBoth
<1>4. Keys(a ++ b) = Keys(a) \cup Keys(b)
    BY KeysBoth
<1>5. \A k \in Keys(v) : /\ k \in Keys(a) => IsSubsetEqual(At(v, k), At(a, k))
                         /\ k \in Keys(b) => IsSubsetEqual(At(v, k), At(b, k))
    BY SubsetMap
<1> QED
    BY <1>1, <1>2, <1>3, <1>4, <1>5, SubsetMap

LEMMA EchoOnly ==
    ASSUME NEW v, IsTree(v), IsMap(v), NEW K
    PROVE  Echoes(Only(v, K), v)
BY SubsetOnly, OnlyTree DEF Echoes

LEMMA EchoPart ==
    ASSUME NEW v, IsTree(v), IsMap(v), NEW w, Echoes(w, v), NEW K
    PROVE  Echoes(Only(w, K), v) /\ Echoes(Without(w, K), v)
<1>1. /\ IsTree(Only(w, K)) /\ Only(w, K) \subseteq w /\ IsSubsetEqual(v, Only(w, K))
      /\ IsTree(Without(w, K)) /\ Without(w, K) \subseteq w /\ IsSubsetEqual(v, Without(w, K))
    BY OnlyTree, SubsetPart DEF Echoes
<1> QED
    BY <1>1 DEF Echoes

LEMMA EchoBoth ==
    ASSUME NEW v, IsTree(v), IsMap(v), NEW a, Echoes(a, v), NEW b, Echoes(b, v)
    PROVE  Echoes(a ++ b, v)
<1>1. IsSubsetEqual(v, a ++ b)
    BY SubsetBoth DEF Echoes
<1> QED
    BY <1>1, BothTree DEF Echoes

LEMMA EchoNone ==
    ASSUME NEW v, IsTree(v), IsMap(v)
    PROVE  Echoes(NoField, v)
<1>1. IsTree(NoField) /\ Keys(NoField) = {} /\ IsMap(NoField)
    BY LeafTree, KeysNone, MapRoot DEF NoField
<1>2. IsSubsetEqual(v, NoField)
    BY <1>1, SubsetMap
<1> QED
    BY <1>1, <1>2, MapRoot DEF Echoes

LEMMA EchoField ==
    ASSUME NEW v, IsTree(v), IsMap(v), NEW k, NEW w, Echoes(w, At(v, k))
    PROVE  Echoes(Field(k, w), v)
<1>1. /\ IsTree(Field(k, w)) /\ IsMap(Field(k, w)) /\ Keys(Field(k, w)) \subseteq {k}
      /\ \A n \in Field(k, w) : n \in NoField \/ \E m \in w : n = Into(k, m)
    BY FieldTree DEF Echoes
<1>2. ASSUME NEW m \in w, Into(k, m)[1] \in Paths(v) PROVE Into(k, m) \in v
    <2>1. IsNode(m) /\ IsPath(m[1]) /\ Into(k, m)[1] = <<k>> \o m[1]
        BY Nodes, IntoNode DEF Echoes, IsNode
    <2>2. m[1] \in Paths(At(v, k))
        BY <1>2, <2>1, PathAt
    <2>3. m \in At(v, k)
        BY <2>2 DEF Echoes
    <2> QED
        BY <2>1, <2>3, AtTree
<1>3. \A n \in NoField : n \in v
    BY MapRoot
<1>4. IsSubsetEqual(v, Field(k, w))
    BY <1>1, AtField, SubsetMap DEF Echoes
<1> QED
    BY <1>1, <1>2, <1>3, <1>4 DEF Echoes

\* A field that v does not have.
LEMMA EchoNew ==
    ASSUME NEW v, IsTree(v), IsMap(v), NEW k, k \notin Keys(v), NEW w, IsTree(w)
    PROVE  Echoes(Field(k, w), v)
<1>1. At(v, k) = {}
    BY AtNone
<1>2. Echoes(w, {})
    BY DEF Echoes, Paths, IsSubsetEqual
<1> QED
    BY <1>1, <1>2, EchoField

\* The node of a text, if there is one.
LEMMA TextThere ==
    ASSUME NEW v, IsTree(v), NEW k
    PROVE  <<(<<>>), Text(v, k)>> \in At(v, k) \/ <<>> \notin Paths(At(v, k))
<1> DEFINE r == <<(<<>>), Text(v, k)>>
<1>1. \A n : IsNode(n) => (n \in At(v, k) <=> Into(k, n) \in v)
    BY AtTree
<1>2. IsNode(r) /\ Into(k, r) = <<(<<k>>), Text(v, k)>>
    BY PathOne DEF IsNode, Into
<1> HIDE DEF r
<1>3. <<k>> \o <<>> = <<k>> /\ IsPath(<<>>)
    BY PathOne
<1>4. <<k>> \in Paths(v) <=> <<>> \in Paths(At(v, k))
    BY <1>3, PathAt
<1>5. <<k>> \in Paths(v) => r \in At(v, k)
    BY <1>1, <1>2, TextPath
<1> QED
    BY <1>4, <1>5 DEF r

\* A scalar with the text that is asked for.
LEMMA TextSubset ==
    ASSUME NEW v, IsTree(v), NEW k, NEW a, Text(v, k) = a, a \notin {"{}", "[]"}
    PROVE  IsSubsetEqual(At(v, k), Leaf(a))
<1>1. <<(<<>>), a>> \in At(v, k) \/ <<>> \notin Paths(At(v, k))
    BY TextThere
<1>2. IsTree(At(v, k))
    BY AtTree
<1>3. <<(<<>>), a>> \in At(v, k) => IsSubsetEqual(At(v, k), Leaf(a))
    BY <1>2, SubsetLeaf
<1>4. Paths(Leaf(a)) \subseteq {<<>>}
    BY LeafTree DEF Paths
<1> QED
    BY <1>1, <1>3, <1>4, SubsetApart

LEMMA LeafNodes ==
    ASSUME NEW k, NEW a
    PROVE  /\ IsTree(Field(k, Leaf(a))) /\ IsMap(Field(k, Leaf(a))) /\ Keys(Field(k, Leaf(a))) \subseteq {k}
           /\ At(Field(k, Leaf(a)), k) = Leaf(a)
           /\ \A n \in Field(k, Leaf(a)) : n \in NoField \/ n = <<(<<k>>), a>>
<1>1. IsTree(Leaf(a)) /\ \A m \in Leaf(a) : m = <<(<<>>), a>>
    BY LeafTree DEF Leaf
<1>2. Into(k, <<(<<>>), a>>) = <<(<<k>>), a>>
    BY PathOne DEF Into
<1>3. At(Field(k, Leaf(a)), k) = Leaf(a)
    BY <1>1, AtField
<1> HIDE DEF Leaf
<1>4. \A n \in Field(k, Leaf(a)) : n \in NoField \/ n = Into(k, <<(<<>>), a>>)
    BY <1>1, FieldTree
<1>5. IsTree(Field(k, Leaf(a))) /\ IsMap(Field(k, Leaf(a))) /\ Keys(Field(k, Leaf(a))) \subseteq {k}
    BY <1>1, FieldTree
<1> QED
    BY <1>2, <1>3, <1>4, <1>5

LEMMA EchoText ==
    ASSUME NEW v, IsTree(v), IsMap(v), NEW k, NEW a, k \in Keys(v) => Text(v, k) = a, a \notin {"{}", "[]"}
    PROVE  Echoes(Field(k, Leaf(a)), v)
<1> DEFINE w == Field(k, Leaf(a))
           n == <<(<<k>>), a>>
<1>1. /\ IsTree(w) /\ IsMap(w) /\ Keys(w) \subseteq {k} /\ At(w, k) = Leaf(a)
      /\ \A m \in w : m \in NoField \/ m = n
    BY LeafNodes
<1>2. <<k>> \in Paths(v) => n \in v
    BY TextPath
<1>3. NoField \subseteq v
    BY MapRoot
<1>4. n[1] = <<k>>
    OBVIOUS
<1>5. k \in Keys(v) => IsSubsetEqual(At(v, k), Leaf(a))
    BY TextSubset
<1> HIDE DEF w, n
<1>6. \A i \in Keys(v) \cap Keys(w) : IsSubsetEqual(At(v, i), At(w, i))
    BY <1>1, <1>5
<1>7. IsSubsetEqual(v, w)
    BY <1>1, <1>6, SubsetMap
<1>8. \A m \in w : m[1] \in Paths(v) => m \in v
    BY <1>1, <1>2, <1>3, <1>4
<1> QED
    BY <1>1, <1>7, <1>8 DEF Echoes, w

\* A default, for what is not there.
LEMMA EchoDefault ==
    ASSUME NEW v, IsTree(v), IsMap(v), NEW a, Echoes(a, v), NEW k, k \in Keys(v) => k \in Keys(a),
           NEW w, IsTree(w)
    PROVE  Echoes(a ++ Field(k, w), v)
<1>1. CASE k \in Keys(a)
    BY <1>1, SameField
<1>2. CASE k \notin Keys(a)
    BY <1>2, EchoNew, EchoBoth
<1> QED
    BY <1>1, <1>2

LEMMA EchoFields ==
    ASSUME NEW v, IsTree(v), IsMap(v), NEW required, NEW optional
    PROVE  Echoes(Fields(v, required, optional), v)
<1> DEFINE w     == Fields(v, required, optional)
           only  == Only(v, required \cup optional)
           blank == {<<(<<k>>), "">> : k \in required \ Keys(v)}
<1>1. IsTree(w)
    BY FieldsTree
<1>2. w = only \cup blank
    BY DEF Fields
<1>3. only \subseteq v
    BY OnlyTree
<1>4. ASSUME NEW n \in blank PROVE n[1] \notin Paths(v)
    <2>1. PICK k \in required \ Keys(v) : n = <<(<<k>>), "">>
        BY <1>4
    <2>2. n[1] = <<k>>
        BY <2>1
    <2>3. <<k>> \notin Paths(v)
        BY <2>1, TextPath
    <2> QED
        BY <2>2, <2>3
<1>5. IsSubsetEqual(v, w)
    <2>1. ASSUME NEW k \in Keys(v) \cap Keys(w) PROVE At(w, k) = At(v, k)
        <3>1. Below(only, {k}) = Below(v, {k}) \/ k \notin required \cup optional
            BY DEF Only, Below, Root
        <3>2. \A n \in blank : n[1] # <<k>>  /\ (n[1] # <<>> => Head(n[1]) # k)
            <4> SUFFICES ASSUME NEW n \in blank PROVE n[1] # <<k>> /\ (n[1] # <<>> => Head(n[1]) # k)
                OBVIOUS
            <4>1. PICK i \in required \ Keys(v) : n = <<(<<i>>), "">>
                OBVIOUS
            <4>2. n[1] = <<i>> /\ i # k
                BY <4>1
            <4> QED
                BY <4>2, PathOne
        <3>3. Below(w, {k}) = Below(only, {k})
            BY <1>2, <3>2 DEF Below
        <3>4. k \in required \cup optional
            BY FieldsTree
        <3> QED
            BY <3>1, <3>3, <3>4, AtBelow
    <2>2. <<>> \in Paths(w) => IsMap(w)
        BY <1>2, MapRoot, RootOnly DEF IsMap, Only, Root
    <2>3. \A k : IsSubsetEqual(At(v, k), At(v, k))
        BY AtTree, SubsetSame
    <2> HIDE DEF w, only, blank
    <2> QED
        BY <1>1, <2>1, <2>2, <2>3, SubsetMap
<1> HIDE DEF w, only, blank
<1>6. Echoes(w, v)
    BY <1>1, <1>2, <1>3, <1>4, <1>5 DEF Echoes
<1> QED
    BY <1>6 DEF w

LEMMA EchoVariant ==
    ASSUME NEW v, IsTree(v), IsMap(v), NEW type, "type" \in Keys(v) => Text(v, "type") = type,
           type \notin {"{}", "[]"}, NEW required, NEW optional
    PROVE  Echoes(Variant(type, v, required, optional), v)
BY EchoText, EchoFields, EchoBoth DEF Variant

LEMMA EchoMapped ==
    ASSUME NEW v, IsTree(v), NEW f,
           \A i \in Keys(v) : Echoes(f[i], At(v, i)) /\ IsMap(f[i]) /\ IsMap(At(v, i))
    PROVE  Echoes(Mapped(v, f), v)
<1>1. \A i \in Keys(v) : IsTree(f[i])
    BY DEF Echoes
<1>2. /\ IsTree(Mapped(v, f))
      /\ \A n \in Mapped(v, f) : n \in Root(v) \/ \E i \in Keys(v) : \E m \in f[i] : n = Into(i, m)
    BY <1>1, MappedTree
<1>3. ASSUME NEW i \in Keys(v), NEW m \in f[i], Into(i, m)[1] \in Paths(v) PROVE Into(i, m) \in v
    <2>1. IsNode(m) /\ IsPath(m[1]) /\ Into(i, m)[1] = <<i>> \o m[1]
        BY <1>1, Nodes, IntoNode DEF IsNode
    <2>2. m[1] \in Paths(At(v, i))
        BY <1>3, <2>1, PathAt
    <2>3. m \in At(v, i)
        BY <2>2 DEF Echoes
    <2> QED
        BY <2>1, <2>3, AtTree
<1>4. Root(v) \subseteq v
    BY DEF Root
<1>5. IsSubsetEqual(v, Mapped(v, f))
    BY SubsetMapped DEF Echoes
<1> QED
    BY <1>2, <1>3, <1>4, <1>5 DEF Echoes

\* The elements of a list, sent and then changed on the way back.
LEMMA EchoAgain ==
    ASSUME NEW v, IsTree(v), NEW f, \A i \in Keys(v) : IsTree(f[i]) /\ f[i] # {},
           NEW g, \A i \in Keys(v) : Echoes(g[i], At(v, i)) /\ IsMap(g[i]) /\ IsMap(At(v, i))
    PROVE  Echoes(Mapped(Mapped(v, f), g), v)
<1>1. Mapped(Mapped(v, f), g) = Mapped(v, g)
    BY MappedAgain
<1> QED
    BY <1>1, EchoMapped

---------------------------------------------------------------------------
(* What is left of a tree when some of it is left out. *)

LEMMA FieldInside ==
    ASSUME NEW v, IsTree(v), IsMap(v), NEW k, NEW w \in SUBSET At(v, k)
    PROVE  Field(k, w) \subseteq v
<1>1. IsTree(w) /\ \A m \in w : IsNode(m) /\ Into(k, m) \in v
    BY AtTree, Subtree, Nodes
<1>2. NoField \subseteq v
    BY MapRoot
<1>3. \A n \in Field(k, w) : n \in NoField \/ \E m \in w : n = Into(k, m)
    BY <1>1, FieldTree
<1> QED
    BY <1>1, <1>2, <1>3

LEMMA MappedInside ==
    ASSUME NEW v, IsTree(v), NEW f, \A i \in Keys(v) : f[i] \subseteq At(v, i)
    PROVE  Mapped(v, f) \subseteq v
<1>1. \A i \in Keys(v) : IsTree(f[i]) /\ \A m \in f[i] : Into(i, m) \in v
    BY AtTree, Subtree, Nodes
<1>2. \A n \in Mapped(v, f) : n \in Root(v) \/ \E i \in Keys(v) : \E m \in f[i] : n = Into(i, m)
    BY <1>1, MappedTree
<1>3. Root(v) \subseteq v
    BY DEF Root
<1> QED
    BY <1>1, <1>2, <1>3

LEMMA BothInside ==
    ASSUME NEW v, NEW a \in SUBSET v, NEW b \in SUBSET v
    PROVE  a ++ b \subseteq v
BY DEF ++, Below

\* The parts of a ++ b that are on one side only.
LEMMA AtLeft ==
    ASSUME NEW v, NEW w, NEW k, k \notin Keys(w)
    PROVE  At(v ++ w, k) = At(v, k) /\ (k \in Keys(v ++ w) <=> k \in Keys(v))
<1>1. At(w, k) = {}
    BY AtNone
<1> QED
    BY <1>1, AtBoth, AtNone

LEMMA AtRight ==
    ASSUME NEW v, NEW w, NEW k, k \notin Keys(v)
    PROVE  At(v ++ w, k) = At(w, k) /\ (k \in Keys(v ++ w) <=> k \in Keys(w))
BY AtBoth, KeysBoth

LEMMA RightInside ==
    ASSUME NEW v, IsMap(v), NEW w, Root(w) = NoField, Keys(w) \cap Keys(v) = {}
    PROVE  w \subseteq v ++ w
<1>1. NoField \subseteq v /\ v \subseteq v ++ w
    BY MapRoot DEF ++
<1>2. ASSUME NEW n \in w, n[1] = <<>> PROVE n \in v ++ w
    BY <1>1, <1>2 DEF Root
<1>3. ASSUME NEW n \in w, n[1] # <<>> PROVE n \in v ++ w
    BY <1>3, BothRight DEF Keys
<1> QED
    BY <1>2, <1>3

\* A field with what is required has it.
LEMMA FieldsFull ==
    ASSUME NEW v, IsTree(v), NEW required, NEW optional
    PROVE  /\ Keys(Fields(v, required, optional)) = required \cup (Keys(v) \cap optional)
           /\ required \subseteq Keys(v) => Fields(v, required, optional) = Only(v, required \cup optional)
<1> DEFINE K     == required \cup optional
           blank == {<<(<<k>>), "">> : k \in required \ Keys(v)}
<1>1. Keys(Only(v, K)) = Keys(v) \cap K
    BY KeysOnly
<1>2. Keys(blank) = required \ Keys(v)
    <2>1. \A k : <<k>> # <<>> /\ Head(<<k>>) = k
        BY PathOne
    <2>2. \A k : <<(<<k>>), "">>[1] = <<k>>
        OBVIOUS
    <2> QED
        BY <2>1, <2>2 DEF Keys
<1>3. Fields(v, required, optional) = Only(v, K) \cup blank
    BY DEF Fields
<1> HIDE DEF blank
<1>4. Keys(Only(v, K) \cup blank) = Keys(Only(v, K)) \cup Keys(blank)
    BY DEF Keys
<1>5. required \subseteq Keys(v) => blank = {}
    BY DEF blank
<1> QED
    BY <1>1, <1>2, <1>3, <1>4, <1>5

\* A map that is merged is merged key by key.
LEMMA PatchInto ==
    ASSUME NEW old, IsTree(old), NEW new, IsTree(new), NEW deep, NEW k \in deep, <<k>> \in Paths(new)
    PROVE  At(Patch(old, new, deep), k) = Patch(At(old, k), At(new, k), deep)
<1> DEFINE stays(q, paths) == \E i \in DOMAIN q : /\ SubSeq(q, 1, i) \notin paths
                                                 /\ \A j \in 1..(i - 1) : q[j] \in deep
<1>1. ASSUME NEW q, IsPath(q)
      PROVE  stays(<<k>> \o q, Paths(new)) <=> stays(q, Paths(At(new, k)))
    <2>1. PICK S : k \in S /\ q \in Seq(S)
        BY <1>1, PathWith
    <2> DEFINE p == <<k>> \o q
    <2>2. /\ p \in Seq(S) /\ Len(p) = Len(q) + 1 /\ Len(q) \in Nat
          /\ DOMAIN p = 1..(Len(q) + 1) /\ DOMAIN q = 1..Len(q)
          /\ p[1] = k /\ \A j \in 1..Len(q) : p[j + 1] = q[j]
        BY <2>1
    <2>3. \A i \in 1..Len(q) : SubSeq(p, 1, i + 1) = <<k>> \o SubSeq(q, 1, i)
        <3> SUFFICES ASSUME NEW i \in 1..Len(q) PROVE SubSeq(p, 1, i + 1) = <<k>> \o SubSeq(q, 1, i)
            OBVIOUS
        <3> QED
            BY <2>1
    <2>4. \A i \in 1..Len(q) : IsPath(SubSeq(q, 1, i))
        <3> SUFFICES ASSUME NEW i \in 1..Len(q) PROVE IsPath(SubSeq(q, 1, i))
            OBVIOUS
        <3>1. SubSeq(q, 1, i) \in Seq(S)
            BY <2>1
        <3> QED
            BY <3>1, PathOf
    <2>5. \A i \in 1..Len(q) : SubSeq(p, 1, i + 1) \in Paths(new) <=> SubSeq(q, 1, i) \in Paths(At(new, k))
        BY <2>3, <2>4, PathAt
    <2>6. SubSeq(p, 1, 1) \in Paths(new)
        <3>1. IsPath(p) /\ p # <<>> /\ Head(p) = k
            BY <1>1, PathCons
        <3> QED
            BY <3>1, PathFirst
    <2> HIDE DEF p
    <2>7. ASSUME stays(p, Paths(new)) PROVE stays(q, Paths(At(new, k)))
        <3>1. PICK i \in DOMAIN p : SubSeq(p, 1, i) \notin Paths(new) /\ \A j \in 1..(i - 1) : p[j] \in deep
            BY <2>7
        <3>2. i # 1 /\ i \in 1..(Len(q) + 1)
            BY <3>1, <2>2, <2>6
        <3>3. i - 1 \in 1..Len(q) /\ (i - 1) + 1 = i
            BY <3>2, <2>2
        <3>4. SubSeq(q, 1, i - 1) \notin Paths(At(new, k))
            BY <3>1, <3>3, <2>5
        <3>5. \A j \in 1..((i - 1) - 1) : q[j] \in deep
            <4> SUFFICES ASSUME NEW j \in 1..((i - 1) - 1) PROVE q[j] \in deep
                OBVIOUS
            <4>1. j \in 1..Len(q) /\ j + 1 \in 1..(i - 1)
                BY <3>2, <2>2
            <4> QED
                BY <4>1, <3>1, <2>2
        <3> QED
            BY <3>3, <3>4, <3>5, <2>2
    <2>8. ASSUME stays(q, Paths(At(new, k))) PROVE stays(p, Paths(new))
        <3>1. PICK i \in DOMAIN q : SubSeq(q, 1, i) \notin Paths(At(new, k)) /\ \A j \in 1..(i - 1) : q[j] \in deep
            BY <2>8
        <3>2. i \in 1..Len(q) /\ i + 1 \in DOMAIN p
            BY <3>1, <2>2
        <3>3. SubSeq(p, 1, i + 1) \notin Paths(new)
            BY <3>1, <3>2, <2>5
        <3>4. \A j \in 1..((i + 1) - 1) : p[j] \in deep
            <4> SUFFICES ASSUME NEW j \in 1..((i + 1) - 1) PROVE p[j] \in deep
                OBVIOUS
            <4>1. CASE j = 1
                BY <4>1, <2>2
            <4>2. CASE j # 1
                <5>1. j - 1 \in 1..(i - 1) /\ j - 1 \in 1..Len(q) /\ (j - 1) + 1 = j
                    BY <4>2, <3>2, <2>2
                <5> QED
                    BY <5>1, <3>1, <2>2
            <4> QED
                BY <4>1, <4>2
        <3> QED
            BY <3>2, <3>3, <3>4
    <2> QED
        BY <2>7, <2>8 DEF p
<1>2. \A v, w, n : n \in Patch(v, w, deep) <=>
                    n \in w \/ (n \in v /\ n[1] \notin Paths(w) /\ stays(n[1], Paths(w)))
    BY DEF Patch
<1> HIDE DEF stays
<1>3. Patch(old, new, deep) \subseteq old \cup new
    BY DEF Patch
<1>4. IsTree(Patch(old, new, deep))
    <2>1. Single(Patch(old, new, deep))
        BY DEF Patch, Single, IsTree, Paths
    <2> QED
        BY <1>3, <2>1 DEF IsTree
<1>5. ASSUME NEW n, IsNode(n)
      PROVE  n \in At(Patch(old, new, deep), k) <=> n \in Patch(At(old, k), At(new, k), deep)
    <2>1. IsPath(n[1]) /\ Into(k, n)[1] = <<k>> \o n[1]
        BY <1>5, IntoNode DEF IsNode
    <2>2. n \in At(Patch(old, new, deep), k) <=> Into(k, n) \in Patch(old, new, deep)
        BY <1>4, <1>5, AtTree
    <2>3. (n \in At(new, k) <=> Into(k, n) \in new) /\ (n \in At(old, k) <=> Into(k, n) \in old)
        BY <1>5, AtTree
    <2>4. Into(k, n)[1] \in Paths(new) <=> n[1] \in Paths(At(new, k))
        BY <2>1, PathAt
    <2>5. stays(Into(k, n)[1], Paths(new)) <=> stays(n[1], Paths(At(new, k)))
        BY <2>1, <1>1
    <2> QED
        BY <1>2, <2>2, <2>3, <2>4, <2>5
<1>6. \A n \in At(Patch(old, new, deep), k) : IsNode(n)
    BY <1>4, AtTree, Nodes
<1>7. \A n \in Patch(At(old, k), At(new, k), deep) : IsNode(n)
    <2>1. Patch(At(old, k), At(new, k), deep) \subseteq At(old, k) \cup At(new, k)
        BY DEF Patch
    <2> QED
        BY <2>1, AtTree, Nodes
<1> QED
    BY <1>5, <1>6, <1>7


---------------------------------------------------------------------------
(* What w says at a path that v and s both have is what one of them says.  *)

Explained(w, v, s) ==
    IsTree(w) /\ \A n \in w : n[1] \in Paths(v) \cap Paths(s) => n \in v \cup s

LEMMA ExplainedKept ==
    ASSUME NEW v, NEW s, NEW w \in SUBSET (v \cup s), IsTree(w)
    PROVE  Explained(w, v, s)
BY DEF Explained

\* Of b, only what is under a key matters.
LEMMA ExplainedBoth ==
    ASSUME NEW v, NEW s, NEW a, Explained(a, v, s), NEW b, IsTree(b),
           \A n \in b : n[1] # <<>> /\ n[1] \in Paths(v) \cap Paths(s) => n \in v \cup s
    PROVE  Explained(a ++ b, v, s)
<1>1. IsTree(a ++ b)
    BY BothTree DEF Explained
<1>2. \A n \in a ++ b : n \in a \/ (n \in b /\ n[1] # <<>>)
    BY DEF ++, Below
<1> QED
    BY <1>1, <1>2 DEF Explained

\* What is under a key, if what is under that key on both sides explains it.
LEMMA ExplainedField ==
    ASSUME NEW v, IsTree(v), IsMap(v), NEW s, IsTree(s), NEW k, NEW w, Explained(w, At(v, k), At(s, k))
    PROVE  Explained(Field(k, w), v, s)
<1>1. /\ IsTree(Field(k, w))
      /\ \A n \in Field(k, w) : n \in NoField \/ \E m \in w : n = Into(k, m)
    BY FieldTree DEF Explained
<1>2. ASSUME NEW m \in w, Into(k, m)[1] \in Paths(v) \cap Paths(s) PROVE Into(k, m) \in v \cup s
    <2>1. IsNode(m) /\ IsPath(m[1]) /\ Into(k, m)[1] = <<k>> \o m[1]
        BY Nodes, IntoNode DEF Explained, IsNode
    <2>2. m[1] \in Paths(At(v, k)) \cap Paths(At(s, k))
        BY <1>2, <2>1, PathAt
    <2>3. m \in At(v, k) \cup At(s, k)
        BY <2>2 DEF Explained
    <2> QED
        BY <2>1, <2>3, AtTree
<1>3. \A n \in NoField : n \in v
    BY MapRoot
<1> QED
    BY <1>1, <1>2, <1>3 DEF Explained

LEMMA ExplainedDefault ==
    ASSUME NEW v, IsTree(v), IsMap(v), NEW s, NEW a, Explained(a, v, s),
           NEW k, k \in Keys(v) => k \in Keys(a), NEW w, IsTree(w)
    PROVE  Explained(a ++ Field(k, w), v, s)
<1>1. CASE k \in Keys(a)
    BY <1>1, SameField
<1>2. CASE k \notin Keys(a)
    <2>1. Echoes(Field(k, w), v)
        BY <1>2, EchoNew
    <2> QED
        BY <2>1, ExplainedBoth DEF Echoes
<1> QED
    BY <1>1, <1>2

LEMMA ExplainedTree ==
    ASSUME NEW v, NEW s, NEW w, Explained(w, v, s)
    PROVE  IsTree(w) /\ \A n \in w : n[1] # <<>> /\ n[1] \in Paths(v) \cap Paths(s) => n \in v \cup s
BY DEF Explained

---------------------------------------------------------------------------
(***************************************************************************)
(* What the conversions make of a manifest.                                *)
(***************************************************************************)

Secrets == [Key -> SecretValue]
Purpose == DOMAIN SecretFields

\* The value of the Secret that v refers to for that field, if secrets go there.
SecretNode(n, v, keys, for) ==
    /\ n[1] # <<>> /\ Last(n[1]) \in for
    /\ \E r \in Key :
        <<Append(Front(n[1]), SecretFields[Last(n[1])].ref), r>> \in v /\ n[2] = keys[r]

\* A node of a request is made of v: it is in v, or says nothing, or is the
\* variant that v does not name, the media type of a plain text, or a secret.
MadeNode(n, v, keys, for) ==
    \/ n[2] \in {"{}", "", "nothing"}
    \/ n \in v
    \/ n[1] # <<>> /\ Last(n[1]) = "type" /\ n[1] \notin Paths(v)
    \/ n[1] # <<>> /\ Last(n[1]) = "mediaType" /\ n[2] = "text/plain"
    \/ SecretNode(n, v, keys, for)

Made(w, v, keys, for) == IsTree(w) /\ \A n \in w : MadeNode(n, v, keys, for)

---------------------------------------------------------------------------
(* How parts compose. *)

\* What is made of the part of v under k is made of v.
LEMMA MadeInto ==
    ASSUME NEW v, IsTree(v), NEW k, NEW n, IsNode(n),
           NEW keys, NEW for \in SUBSET Purpose, MadeNode(n, At(v, k), keys, for)
    PROVE  MadeNode(Into(k, n), v, keys, for)
<1> DEFINE m == Into(k, n)
<1>1. /\ IsNode(m) /\ m[1] = <<k>> \o n[1] /\ m[2] = n[2] /\ m[1] # <<>>
      /\ Tail(m[1]) = n[1]
    BY IntoNode
<1>2. n[1] # <<>> => Last(m[1]) = Last(n[1]) /\ Front(m[1]) = <<k>> \o Front(n[1])
                        /\ IsPath(Front(n[1]))
    <2>1. n[1] # <<>> => /\ Last(<<k>> \o n[1]) = Last(n[1]) /\ IsPath(Front(n[1]))
                         /\ Front(<<k>> \o n[1]) = <<k>> \o Front(n[1])
        BY PathLast DEF IsNode
    <2> QED
        BY <2>1, <1>1
<1>3. CASE n[2] \in {"{}", "", "nothing"}
    BY <1>1, <1>3 DEF MadeNode
<1>4. CASE n \in At(v, k)
    BY <1>4, AtTree DEF MadeNode
<1>5. CASE n[1] # <<>> /\ Last(n[1]) = "type" /\ n[1] \notin Paths(At(v, k))
    <2>1. ASSUME m[1] \in Paths(v) PROVE FALSE
        <3>1. PICK x \in v : x[1] = m[1]
            BY <2>1 DEF Paths
        <3>2. IsNode(<<n[1], x[2]>>) /\ x = Into(k, <<n[1], x[2]>>)
            BY <3>1, <1>1, Nodes DEF IsNode, Into
        <3>3. <<n[1], x[2]>> \in At(v, k)
            BY <3>1, <3>2, AtTree
        <3> QED
            BY <3>3, <1>5 DEF Paths
    <2> QED
        BY <2>1, <1>1, <1>2, <1>5 DEF MadeNode
<1>6. CASE n[1] # <<>> /\ Last(n[1]) = "mediaType" /\ n[2] = "text/plain"
    BY <1>1, <1>2, <1>6 DEF MadeNode
<1>7. CASE SecretNode(n, At(v, k), keys, for)
    <2> DEFINE ref == SecretFields[Last(n[1])].ref
               at  == Append(Front(n[1]), ref)
    <2>1. PICK r \in Key : <<at, r>> \in At(v, k) /\ n[2] = keys[r]
        BY <1>7 DEF SecretNode
    <2>2. n[1] # <<>> /\ Last(n[1]) \in for
        BY <1>7 DEF SecretNode
    <2>3. IsPath(at) /\ Append(Front(m[1]), ref) = <<k>> \o at
        BY <1>2, <2>2, PathAppend
    <2>4. IsNode(<<at, r>>) /\ Into(k, <<at, r>>) = <<Append(Front(m[1]), ref), r>>
        BY <2>3 DEF IsNode, Into
    <2>5. <<Append(Front(m[1]), ref), r>> \in v
        BY <2>1, <2>4, AtTree
    <2> QED
        BY <2>1, <2>2, <2>5, <1>1, <1>2 DEF MadeNode, SecretNode
<1> QED
    BY <1>3, <1>4, <1>5, <1>6, <1>7 DEF MadeNode

LEMMA MadeField ==
    ASSUME NEW v, IsTree(v), NEW k, NEW keys, NEW for \in SUBSET Purpose,
           NEW w, Made(w, At(v, k), keys, for)
    PROVE  Made(Field(k, w), v, keys, for) /\ Made(NonEmpty(k, w), v, keys, for)
<1>1. IsTree(w) /\ IsTree(Field(k, w)) /\ IsTree(NoField)
    BY FieldTree, LeafTree DEF Made, NoField
<1>2. \A n \in NoField : n[2] = "{}"
    BY LeafTree DEF NoField
<1>3. \A n \in Field(k, w) : n \in NoField \/ \E m \in w : n = Into(k, m)
    BY <1>1, FieldTree
<1>4. \A m \in w : MadeNode(Into(k, m), v, keys, for)
    BY <1>1, MadeInto, Nodes DEF Made
<1>5. \A n \in NoField : MadeNode(n, v, keys, for)
    BY <1>2 DEF MadeNode
<1>6. Made(Field(k, w), v, keys, for) /\ Made(NoField, v, keys, for)
    BY <1>1, <1>3, <1>4, <1>5 DEF Made
<1> QED
    BY <1>6 DEF NonEmpty

LEMMA MadeKeys ==
    ASSUME NEW v, NEW k, NEW keys, NEW for, NEW w, Made(w, v, keys, for)
    PROVE  Keys(Field(k, w)) \subseteq {k} /\ Keys(NonEmpty(k, w)) \subseteq {k}
BY FieldTree, KeysNone DEF NonEmpty, Made

LEMMA MadeBoth ==
    ASSUME NEW v, NEW keys, NEW for,
           NEW a, Made(a, v, keys, for), NEW b, Made(b, v, keys, for)
    PROVE  Made(a ++ b, v, keys, for)
BY BothTree DEF Made

LEMMA MadeKept ==
    ASSUME NEW v, IsTree(v), NEW keys, NEW for, NEW K
    PROVE  /\ Made(v, v, keys, for) /\ Made(Only(v, K), v, keys, for)
           /\ Made(Without(v, K), v, keys, for)
BY OnlyTree DEF Made, MadeNode

LEMMA MadeNothing ==
    ASSUME NEW v, NEW keys, NEW for
    PROVE  Made(Nothing, v, keys, for) /\ Made(NoField, v, keys, for) /\ Made(Empty, v, keys, for)
BY LeafTree DEF Made, MadeNode, Nothing, NoField, Empty

LEMMA MadeFields ==
    ASSUME NEW v, IsTree(v), NEW keys, NEW for, NEW required, NEW optional
    PROVE  Made(Fields(v, required, optional), v, keys, for)
<1>1. /\ IsTree(Fields(v, required, optional))
      /\ \A n \in Fields(v, required, optional) : n \in Only(v, required \cup optional) \/ n[2] = ""
    BY FieldsTree
<1>2. Only(v, required \cup optional) \subseteq v
    BY DEF Only, Root, Below
<1> QED
    BY <1>1, <1>2 DEF Made, MadeNode

LEMMA MadeText ==
    ASSUME NEW v, IsTree(v), NEW keys, NEW for, NEW k
    PROVE  Made(Field(k, Leaf(Text(v, k))), v, keys, for)
<1>1. /\ IsTree(Field(k, Leaf(Text(v, k))))
      /\ \A n \in Field(k, Leaf(Text(v, k))) : n[2] = "{}" \/ n = <<(<<k>>), Text(v, k)>>
    BY LeafField
<1>2. Text(v, k) = "" \/ <<(<<k>>), Text(v, k)>> \in v
    BY TextNode
<1>3. <<(<<k>>), Text(v, k)>>[2] = Text(v, k)
    OBVIOUS
<1> QED
    BY <1>1, <1>2, <1>3 DEF Made, MadeNode

\* The variant is what v says it is, or v does not say.
LEMMA MadeType ==
    ASSUME NEW v, IsTree(v), NEW keys, NEW for, NEW type,
           "type" \in Keys(v) => Text(v, "type") = type
    PROVE  Made(Field("type", Leaf(type)), v, keys, for)
<1>1. CASE "type" \in Keys(v)
    <2>1. Made(Field("type", Leaf(Text(v, "type"))), v, keys, for)
        BY MadeText
    <2> QED
        BY <2>1, <1>1
<1>2. CASE "type" \notin Keys(v)
    <2>1. /\ IsTree(Field("type", Leaf(type)))
          /\ \A n \in Field("type", Leaf(type)) : n[2] = "{}" \/ n = <<(<<"type">>), type>>
        BY LeafField
    <2>2. <<"type">> \notin Paths(v) /\ Last(<<"type">>) = "type" /\ <<"type">> # <<>>
        BY <1>2, PathOne DEF Keys, Paths
    <2>3. <<(<<"type">>), type>>[1] = <<"type">>
        OBVIOUS
    <2>4. MadeNode(<<(<<"type">>), type>>, v, keys, for)
        BY <2>2, <2>3 DEF MadeNode
    <2>5. \A n \in Field("type", Leaf(type)) : MadeNode(n, v, keys, for)
        BY <2>1, <2>4 DEF MadeNode
    <2> QED
        BY <2>1, <2>5 DEF Made
<1> QED
    BY <1>1, <1>2

LEMMA MadeVariant ==
    ASSUME NEW v, IsTree(v), NEW keys, NEW for, NEW type,
           "type" \in Keys(v) => Text(v, "type") = type,
           NEW required, NEW optional
    PROVE  Made(Variant(type, v, required, optional), v, keys, for)
BY MadeType, MadeFields, MadeBoth DEF Variant

LEMMA MadeList ==
    ASSUME NEW v, IsTree(v), NEW keys, NEW for \in SUBSET Purpose, NEW f,
           \A i \in Keys(v) : Made(f[i], At(v, i), keys, for)
    PROVE  Made(Mapped(v, f), v, keys, for)
<1>1. \A i \in Keys(v) : IsTree(f[i])
    BY DEF Made
<1>2. /\ IsTree(Mapped(v, f))
      /\ \A n \in Mapped(v, f) : n \in Root(v) \/ \E i \in Keys(v) : \E m \in f[i] : n = Into(i, m)
    BY <1>1, MappedTree
<1>3. \A n \in Root(v) : MadeNode(n, v, keys, for)
    BY DEF Root, MadeNode
<1>4. \A i \in Keys(v) : \A m \in f[i] : MadeNode(Into(i, m), v, keys, for)
    BY <1>1, MadeInto, Nodes DEF Made
<1> QED
    BY <1>2, <1>3, <1>4 DEF Made

\* A secret in the field that it is for.
LEMMA MadeSecret ==
    ASSUME NEW v, IsTree(v), NEW keys, NEW s \in Purpose, NEW for, s \in for,
           Text(v, SecretFields[s].ref) \in Key \cup {""}
    PROVE  Made(Field(s, Leaf(ResolveLocalSecretKey(v, SecretFields[s].ref, keys))), v, keys, for)
<1> DEFINE ref == SecretFields[s].ref
           a   == ResolveLocalSecretKey(v, ref, keys)
<1>4. /\ IsTree(Field(s, Leaf(a)))
      /\ \A n \in Field(s, Leaf(a)) : n[2] = "{}" \/ n = <<(<<s>>), a>>
    BY LeafField
<1>5. <<s>> # <<>> /\ Last(<<s>>) = s /\ Append(Front(<<s>>), ref) = <<ref>>
    <2>1. <<s>> # <<>> /\ Last(<<s>>) = s /\ Front(<<s>>) = <<>>
        BY PathOne
    <2>2. Append(<<>>, ref) = <<ref>>
        BY PathOne
    <2> QED
        BY <2>1, <2>2
<1>6. CASE Text(v, ref) = ""
    <2>1. a = ""
        BY <1>6 DEF ResolveLocalSecretKey
    <2>2. <<(<<s>>), a>>[2] = ""
        BY <2>1
    <2>3. \A n \in Field(s, Leaf(a)) : n[2] \in {"{}", ""}
        BY <2>2, <1>4
    <2> QED
        BY <2>3, <1>4 DEF Made, MadeNode
<1>7. CASE Text(v, ref) # ""
    <2> DEFINE r == Text(v, ref)
    <2>1. <<(<<ref>>), r>> \in v
        BY <1>7, TextNode
    <2>3. r \in Key
        BY <1>7
    <2>4. a = keys[r]
        BY <1>7 DEF ResolveLocalSecretKey
    <2>5. MadeNode(<<(<<s>>), a>>, v, keys, for)
        BY <2>1, <2>3, <2>4, <1>5 DEF MadeNode, SecretNode
    <2>6. \A n \in Field(s, Leaf(a)) : MadeNode(n, v, keys, for)
        BY <2>5, <1>4 DEF MadeNode
    <2> QED
        BY <2>6, <1>4 DEF Made
<1> QED
    BY <1>6, <1>7

LEMMA MadeEach ==
    ASSUME NEW v, IsTree(v), NEW k, NEW keys, NEW for \in SUBSET Purpose, NEW f,
           \A i \in Keys(At(v, k)) : Made(f[i], At(At(v, k), i), keys, for)
    PROVE  Made(Field(k, Mapped(At(v, k), f)), v, keys, for)
BY AtTree, MadeList, MadeField

---------------------------------------------------------------------------
(* The parameters of an agent. *)

LEMMA MadeSkill ==
    ASSUME NEW s, IsTree(s), OneOf(s, "type", {"anthropic", "custom"}), NEW keys, NEW for
    PROVE  Made(agentSkillToParam(s), s, keys, for)
BY MadeVariant DEF agentSkillToParam, OneOf

LEMMA MadeRosterEntry ==
    ASSUME NEW e, IsTree(e), OneOf(e, "type", {"agent", "self", "advisor"}), NEW keys, NEW for
    PROVE  Made(agentRosterEntryToParam(e), e, keys, for)
BY MadeVariant DEF agentRosterEntryToParam, OneOf

LEMMA MadeMultiagent ==
    ASSUME NEW m, IsTree(m), NEW keys, NEW for \in SUBSET Purpose, "type" \notin Keys(m),
           \A e \in Elements(At(m, "agents")) : OneOf(e, "type", {"agent", "self", "advisor"})
    PROVE  Made(agentMultiagentToParam(m), m, keys, for)
<1> DEFINE list == At(m, "agents")
           f    == [i \in Keys(list) |-> agentRosterEntryToParam(At(list, i))]
<1>1. \A i \in Keys(list) : Made(f[i], At(list, i), keys, for)
    BY AtTree, MadeRosterEntry DEF Elements
<1>2. Made(Field("agents", Mapped(list, f)), m, keys, for)
    BY <1>1, MadeEach
<1>3. Made(Each(m, "agents", agentRosterEntryToParam), m, keys, for)
    BY <1>2, MadeNothing DEF Each
<1>4. Made(Field("type", Leaf("coordinator")), m, keys, for)
    BY MadeType
<1> QED
    BY <1>3, <1>4, MadeBoth DEF agentMultiagentToParam

LEMMA MadeDefaultConfig ==
    ASSUME NEW d, IsTree(d), NEW keys, NEW for
    PROVE  Made(toolDefaultConfig(d), d, keys, for)
BY MadeKept, MadeNothing, MadeBoth DEF toolDefaultConfig, toolPermissionPolicy

LEMMA MadeOverride ==
    ASSUME NEW c, IsTree(c), NEW keys, NEW for
    PROVE  Made(agentToolOverrideParam(c), c, keys, for)
<1> DEFINE common == Field("name", Leaf(Text(c, "name"))) ++ toolDefaultConfig(c)
<1>1. Made(common, c, keys, for)
    BY MadeText, MadeDefaultConfig, MadeBoth
<1>2. \A K : Made(common ++ Only(c, K), c, keys, for)
    BY <1>1, MadeKept, MadeBoth
<1> QED
    BY <1>1, <1>2, MadeNothing DEF agentToolOverrideParam

LEMMA MadeMcpToolConfig ==
    ASSUME NEW c, IsTree(c), NEW keys, NEW for
    PROVE  Made(mcpToolConfig(c), c, keys, for)
BY MadeFields, MadeDefaultConfig, MadeBoth DEF mcpToolConfig

\* What both kinds of toolsets have.
LEMMA MadeToolset ==
    ASSUME NEW t, IsTree(t), NEW keys, NEW for \in SUBSET Purpose
    PROVE  /\ Made(Given(t, "defaultConfig", toolDefaultConfig), t, keys, for)
           /\ Made(Each(t, "configs", agentToolOverrideParam), t, keys, for)
           /\ Made(Each(t, "configs", mcpToolConfig), t, keys, for)
<1> DEFINE list == At(t, "configs")
           f    == [i \in Keys(list) |-> agentToolOverrideParam(At(list, i))]
           g    == [i \in Keys(list) |-> mcpToolConfig(At(list, i))]
<1>1. \A i \in Keys(list) : Made(f[i], At(list, i), keys, for) /\ Made(g[i], At(list, i), keys, for)
    BY AtTree, MadeOverride, MadeMcpToolConfig
<1>2. Made(Field("configs", Mapped(list, f)), t, keys, for)
    BY <1>1, MadeEach
<1>3. Made(Field("configs", Mapped(list, g)), t, keys, for)
    BY <1>1, MadeEach
<1>4. Made(NonEmpty("defaultConfig", toolDefaultConfig(At(t, "defaultConfig"))), t, keys, for)
    BY AtTree, MadeDefaultConfig, MadeField
<1> QED
    BY <1>2, <1>3, <1>4, MadeNothing DEF Each, Given

LEMMA MadeTool ==
    ASSUME NEW t, IsTree(t), NEW keys, NEW for \in SUBSET Purpose,
           OneOf(t, "type", {"agent_toolset_20260401", "mcp_toolset", "custom"})
    PROVE  Made(agentToolToParam(t), t, keys, for)
<1>1. CASE Text(t, "type") = "mcp_toolset"
    <2>1. Made(Variant("mcp_toolset", t, {"mcpServerName"}, {}), t, keys, for)
        BY <1>1, MadeVariant
    <2> QED
        BY <2>1, <1>1, MadeToolset, MadeBoth DEF agentToolToParam, mcpToolsetParam
<1>2. CASE Text(t, "type") = "custom"
    BY <1>2, MadeVariant DEF agentToolToParam, customToolParam
<1>3. CASE Text(t, "type") \notin {"mcp_toolset", "custom"}
    <2>1. Made(Field("type", Leaf("agent_toolset_20260401")), t, keys, for)
        BY <1>3, MadeType DEF OneOf
    <2> QED
        BY <2>1, <1>3, MadeToolset, MadeBoth DEF agentToolToParam, agentToolsetParam
<1> QED
    BY <1>1, <1>2, <1>3

LEMMA MadeMcpServer ==
    ASSUME NEW s, IsTree(s), "type" \notin Keys(s), NEW keys, NEW for
    PROVE  Made(agentMcpServerToParam(s), s, keys, for)
BY MadeVariant DEF agentMcpServerToParam

\* The nested fields of an agent, one by one.
LEMMA MadeParts ==
    ASSUME NEW p, Manifest(p), NEW keys, NEW for \in SUBSET Purpose
    PROVE  /\ Made(Sub(p, "multiagent", agentMultiagentToParam), p, keys, for)
           /\ Keys(Sub(p, "multiagent", agentMultiagentToParam)) \subseteq Keys(p) \cap {"multiagent"}
           /\ Made(Each(p, "mcpServers", agentMcpServerToParam), p, keys, for)
           /\ Keys(Each(p, "mcpServers", agentMcpServerToParam)) \subseteq Keys(p) \cap {"mcpServers"}
           /\ Made(Each(p, "skills", agentSkillToParam), p, keys, for)
           /\ Keys(Each(p, "skills", agentSkillToParam)) \subseteq Keys(p) \cap {"skills"}
           /\ Made(Each(p, "tools", agentToolToParam), p, keys, for)
           /\ Keys(Each(p, "tools", agentToolToParam)) \subseteq Keys(p) \cap {"tools"}
<1>1. IsTree(p) /\ \A k : IsTree(At(p, k))
    BY AtTree DEF Manifest
<1>2. /\ Made(Sub(p, "multiagent", agentMultiagentToParam), p, keys, for)
      /\ Keys(Sub(p, "multiagent", agentMultiagentToParam)) \subseteq Keys(p) \cap {"multiagent"}
    <2>1. CASE "multiagent" \in Keys(p)
        <3>1. Admitted("multiagent", At(p, "multiagent"))
            BY <2>1 DEF Manifest
        <3>2. Made(agentMultiagentToParam(At(p, "multiagent")), At(p, "multiagent"), keys, for)
            BY <3>1, <1>1, MadeMultiagent DEF Admitted, RosterEntry
        <3> QED
            BY <3>2, <1>1, <2>1, MadeField, MadeKeys DEF Sub
    <2> QED
        BY <2>1, MadeNothing, KeysNone DEF Sub
<1>3. /\ Made(Each(p, "mcpServers", agentMcpServerToParam), p, keys, for)
      /\ Keys(Each(p, "mcpServers", agentMcpServerToParam)) \subseteq Keys(p) \cap {"mcpServers"}
    <2> DEFINE list == At(p, "mcpServers")
               f    == [i \in Keys(list) |-> agentMcpServerToParam(At(list, i))]
    <2>1. CASE "mcpServers" \in Keys(p)
        <3>1. \A e \in Elements(list) : "type" \notin Keys(e)
            BY <2>1 DEF Manifest, Admitted
        <3>2. \A i \in Keys(list) : Made(f[i], At(list, i), keys, for)
            BY <3>1, <1>1, AtTree, MadeMcpServer DEF Elements
        <3>3. Made(Field("mcpServers", Mapped(list, f)), p, keys, for)
            BY <3>2, <1>1, MadeEach
        <3>4. Keys(Field("mcpServers", Mapped(list, f))) \subseteq {"mcpServers"}
            BY <3>2, <1>1, MappedKeys DEF Made
        <3> QED
            BY <3>3, <3>4, <2>1 DEF Each
    <2> QED
        BY <2>1, MadeNothing, KeysNone DEF Each
<1>4. /\ Made(Each(p, "skills", agentSkillToParam), p, keys, for)
      /\ Keys(Each(p, "skills", agentSkillToParam)) \subseteq Keys(p) \cap {"skills"}
    <2> DEFINE list == At(p, "skills")
               f    == [i \in Keys(list) |-> agentSkillToParam(At(list, i))]
    <2>1. CASE "skills" \in Keys(p)
        <3>1. \A e \in Elements(list) : OneOf(e, "type", {"anthropic", "custom"})
            BY <2>1 DEF Manifest, Admitted
        <3>2. \A i \in Keys(list) : Made(f[i], At(list, i), keys, for)
            BY <3>1, <1>1, AtTree, MadeSkill DEF Elements
        <3>3. Made(Field("skills", Mapped(list, f)), p, keys, for)
            BY <3>2, <1>1, MadeEach
        <3>4. Keys(Field("skills", Mapped(list, f))) \subseteq {"skills"}
            BY <3>2, <1>1, MappedKeys DEF Made
        <3> QED
            BY <3>3, <3>4, <2>1 DEF Each
    <2> QED
        BY <2>1, MadeNothing, KeysNone DEF Each
<1>5. /\ Made(Each(p, "tools", agentToolToParam), p, keys, for)
      /\ Keys(Each(p, "tools", agentToolToParam)) \subseteq Keys(p) \cap {"tools"}
    <2> DEFINE list == At(p, "tools")
               f    == [i \in Keys(list) |-> agentToolToParam(At(list, i))]
    <2>1. CASE "tools" \in Keys(p)
        <3>1. \A e \in Elements(list) : OneOf(e, "type", {"agent_toolset_20260401", "mcp_toolset", "custom"})
            BY <2>1 DEF Manifest, Admitted
        <3>2. \A i \in Keys(list) : Made(f[i], At(list, i), keys, for)
            BY <3>1, <1>1, AtTree, MadeTool DEF Elements
        <3>3. Made(Field("tools", Mapped(list, f)), p, keys, for)
            BY <3>2, <1>1, MadeEach
        <3>4. Keys(Field("tools", Mapped(list, f))) \subseteq {"tools"}
            BY <3>2, <1>1, MappedKeys DEF Made
        <3> QED
            BY <3>3, <3>4, <2>1 DEF Each
    <2> QED
        BY <2>1, MadeNothing, KeysNone DEF Each
<1> QED
    BY <1>2, <1>3, <1>4, <1>5

LEMMA MadeTopology ==
    ASSUME NEW p, Manifest(p), NEW keys, NEW for \in SUBSET Purpose
    PROVE  /\ Made(agentTopology(p), p, keys, for)
           /\ Keys(agentTopology(p)) \subseteq Keys(p) \cap {"multiagent", "mcpServers", "skills", "tools"}
<1>1. Made(agentTopology(p), p, keys, for)
    BY MadeParts, MadeBoth DEF agentTopology
<1>2. Keys(agentTopology(p)) =
        Keys(Sub(p, "multiagent", agentMultiagentToParam))
            \cup Keys(Each(p, "mcpServers", agentMcpServerToParam))
            \cup Keys(Each(p, "skills", agentSkillToParam)) \cup Keys(Each(p, "tools", agentToolToParam))
    BY KeysBoth DEF agentTopology
<1> QED
    BY <1>1, <1>2, MadeParts

---------------------------------------------------------------------------
(* The parameters of a deployment and a session. *)

LEMMA ResolvableText ==
    ASSUME NEW v, IsTree(v), Resolvable(v), NEW s \in Purpose
    PROVE  Text(v, SecretFields[s].ref) \in Key \cup {""}
<1> DEFINE ref == SecretFields[s].ref
<1>1. Text(v, ref) # "" => <<(<<ref>>), Text(v, ref)>> \in v
    BY TextNode
<1>2. <<ref>> # <<>> /\ Last(<<ref>>) = ref
    BY PathOne
<1>3. <<(<<ref>>), Text(v, ref)>>[1] = <<ref>> /\ <<(<<ref>>), Text(v, ref)>>[2] = Text(v, ref)
    OBVIOUS
<1> QED
    BY <1>1, <1>2, <1>3 DEF Resolvable, Purpose

LEMMA ResolvableAt ==
    ASSUME NEW v, IsTree(v), Resolvable(v), NEW k
    PROVE  Resolvable(At(v, k))
<1> SUFFICES ASSUME NEW n \in At(v, k), NEW s \in DOMAIN SecretFields,
                    n[1] # <<>>, Last(n[1]) = SecretFields[s].ref
             PROVE  n[2] \in Key \cup {""}
    BY DEF Resolvable
<1>1. IsNode(n) /\ Into(k, n) \in v
    BY AtTree, Nodes
<1>2. Into(k, n)[1] # <<>> /\ Last(Into(k, n)[1]) = Last(n[1]) /\ Into(k, n)[2] = n[2]
    <2>1. Into(k, n)[1] # <<>> /\ Into(k, n)[1] = <<k>> \o n[1] /\ Into(k, n)[2] = n[2]
        BY <1>1, IntoNode
    <2>2. Last(<<k>> \o n[1]) = Last(n[1])
        BY <1>1, PathLast DEF IsNode
    <2> QED
        BY <2>1, <2>2
<1> QED
    BY <1>1, <1>2 DEF Resolvable

LEMMA MadeNeeded ==
    ASSUME NEW v, IsTree(v), NEW k, NEW keys, NEW for \in SUBSET Purpose,
           NEW w, k \in Keys(v) => Made(w, At(v, k), keys, for)
    PROVE  Made(Field(k, IF k \in Keys(v) THEN w ELSE Nothing), v, keys, for)
BY MadeNothing, MadeField

LEMMA MadeImageSource ==
    ASSUME NEW s, IsTree(s), NEW keys, NEW for
    PROVE  Made(imageSourceToParam(s), s, keys, for)
BY MadeVariant, MadeNothing DEF imageSourceToParam

LEMMA MadeDocumentSource ==
    ASSUME NEW s, IsTree(s), NEW keys, NEW for
    PROVE  Made(documentSourceToParam(s), s, keys, for)
<1>1. CASE Text(s, "type") = "text"
    <2> DEFINE media == Field("mediaType", Leaf("text/plain"))
    <2>1. IsTree(media) /\ \A n \in media : n[2] = "{}" \/ n = <<(<<"mediaType">>), "text/plain">>
        BY LeafField
    <2>2. <<"mediaType">> # <<>> /\ Last(<<"mediaType">>) = "mediaType"
        BY PathOne
    <2>3. MadeNode(<<(<<"mediaType">>), "text/plain">>, s, keys, for)
        BY <2>2 DEF MadeNode
    <2>4. Made(media, s, keys, for)
        BY <2>1, <2>3 DEF Made, MadeNode
    <2>5. Made(Variant("text", s, {"data"}, {}), s, keys, for)
        BY <1>1, MadeVariant
    <2> QED
        BY <2>4, <2>5, <1>1, MadeBoth DEF documentSourceToParam
<1>2. CASE Text(s, "type") # "text"
    BY <1>2, MadeVariant, MadeNothing DEF documentSourceToParam
<1> QED
    BY <1>1, <1>2

LEMMA MadeContentBlock ==
    ASSUME NEW c, IsTree(c), NEW keys, NEW for \in SUBSET Purpose
    PROVE  Made(contentBlockToParam(c), c, keys, for)
<1>1. /\ Made(Needed(c, "source", imageSourceToParam), c, keys, for)
      /\ Made(Needed(c, "source", documentSourceToParam), c, keys, for)
    <2>1. IsTree(At(c, "source"))
        BY AtTree
    <2>2. /\ Made(imageSourceToParam(At(c, "source")), At(c, "source"), keys, for)
          /\ Made(documentSourceToParam(At(c, "source")), At(c, "source"), keys, for)
        BY <2>1, MadeImageSource, MadeDocumentSource
    <2> QED
        BY <2>2, MadeNeeded DEF Needed
<1>2. CASE Text(c, "type") = "text"
    BY <1>2, MadeVariant DEF contentBlockToParam
<1>3. CASE Text(c, "type") = "image"
    BY <1>1, <1>3, MadeVariant, MadeBoth DEF contentBlockToParam
<1>4. CASE Text(c, "type") = "document"
    BY <1>1, <1>4, MadeVariant, MadeBoth DEF contentBlockToParam
<1> QED
    BY <1>2, <1>3, <1>4, MadeNothing DEF contentBlockToParam

LEMMA MadeRubric ==
    ASSUME NEW r, IsTree(r), NEW keys, NEW for
    PROVE  Made(rubricToParam(r), r, keys, for)
BY MadeVariant, MadeNothing DEF rubricToParam

LEMMA MadeSessionEvent ==
    ASSUME NEW e, IsTree(e), NEW keys, NEW for \in SUBSET Purpose
    PROVE  Made(sessionInitialEventToParam(e), e, keys, for)
<1>1. CASE Text(e, "type") = "user.message"
    <2> DEFINE list == At(e, "content")
               f    == [i \in Keys(list) |-> contentBlockToParam(At(list, i))]
    <2>1. \A i \in Keys(list) : Made(f[i], At(list, i), keys, for)
        BY AtTree, MadeContentBlock
    <2>2. Made(Field("content", Mapped(list, f)), e, keys, for)
        BY <2>1, MadeEach
    <2>3. Made(Each(e, "content", contentBlockToParam), e, keys, for)
        BY <2>2, MadeNothing DEF Each
    <2>4. Made(Field("type", Leaf("user.message")), e, keys, for)
        BY <1>1, MadeType
    <2> QED
        BY <2>3, <2>4, <1>1, MadeBoth DEF sessionInitialEventToParam
<1>2. CASE Text(e, "type") = "user.define_outcome"
    <2>1. Made(Needed(e, "rubric", rubricToParam), e, keys, for)
        BY AtTree, MadeRubric, MadeNeeded DEF Needed
    <2>2. Made(Variant("user.define_outcome", e, {"description"}, {"maxIterations"}), e, keys, for)
        BY <1>2, MadeVariant
    <2> QED
        BY <2>1, <2>2, <1>2, MadeBoth DEF sessionInitialEventToParam
<1> QED
    BY <1>1, <1>2, MadeNothing DEF sessionInitialEventToParam

LEMMA MadeRepository ==
    ASSUME NEW v, IsTree(v), Resolvable(v), Text(v, "type") = "github_repository",
           NEW keys, NEW for \in SUBSET Purpose, "authorizationToken" \in for
    PROVE  Made(repositoryParams(v, ResolveLocalSecretKey(v, "authorizationTokenSecretRef", keys)),
                v, keys, for)
<1> DEFINE token == ResolveLocalSecretKey(v, "authorizationTokenSecretRef", keys)
<1>1. /\ "authorizationToken" \in Purpose
      /\ SecretFields["authorizationToken"].ref = "authorizationTokenSecretRef"
    BY DEF Purpose, SecretFields
<1>2. Made(Field("authorizationToken", Leaf(token)), v, keys, for)
    BY <1>1, ResolvableText, MadeSecret
<1>3. Made(NonEmpty("authorizationToken", Leaf(token)), v, keys, for)
    BY <1>2, MadeNothing DEF NonEmpty
<1>4. Made(Variant("github_repository", v, {"url"}, {"mountPath"}), v, keys, for)
    BY MadeVariant
<1>5. Made(checkoutUnion(At(v, "checkout")), At(v, "checkout"), keys, for)
    BY AtTree, MadeVariant, MadeNothing DEF checkoutUnion
<1>6. Made(NonEmpty("checkout", checkoutUnion(At(v, "checkout"))), v, keys, for)
    BY <1>5, MadeField
<1> QED
    BY <1>3, <1>4, <1>6, MadeNothing, MadeBoth DEF repositoryParams, Given

LEMMA MadeResource ==
    ASSUME NEW v, IsTree(v), Resolvable(v),
           NEW keys, NEW for \in SUBSET Purpose, "authorizationToken" \in for
    PROVE  Made(resourceToParam(v, ResolveLocalSecretKey(v, "authorizationTokenSecretRef", keys)),
                v, keys, for)
BY MadeRepository, MadeVariant, MadeNothing
   DEF resourceToParam, fileResourceParams, memoryStoreResourceParams

LEMMA ResourcesResolvable ==
    ASSUME NEW p, Manifest(p), "resources" \in Keys(p)
    PROVE  Resolvable(At(p, "resources"))
<1> DEFINE rs == At(p, "resources")
<1>1. Resolvable(Field("resources", rs))
    BY DEF Manifest, Admitted
<1>2. IsTree(Field("resources", rs)) /\ At(Field("resources", rs), "resources") = rs
    BY AtTree, FieldTree, AtField DEF Manifest
<1>3. Resolvable(At(Field("resources", rs), "resources"))
    BY <1>1, <1>2, ResolvableAt
<1> QED
    BY <1>2, <1>3

LEMMA MadeResources ==
    ASSUME NEW p, Manifest(p),
           NEW keys, NEW for \in SUBSET Purpose, "authorizationToken" \in for
    PROVE  /\ Made(Resources(p, keys), p, keys, for)
           /\ Keys(Resources(p, keys)) \subseteq Keys(p) \cap {"resources"}
<1> DEFINE rs     == At(p, "resources")
           tokens == ResourceTokens(rs, keys)
           param  == [i \in Keys(rs) |-> resourceToParam(At(rs, i), resourceToken(tokens, i))]
<1>1. CASE "resources" \in Keys(p)
    <2>1. IsTree(p) /\ IsTree(rs) /\ \A i : IsTree(At(rs, i))
        BY AtTree DEF Manifest
    <2>2. Resolvable(rs)
        BY <1>1, ResourcesResolvable
    <2>3. \A i : Resolvable(At(rs, i))
        BY <2>1, <2>2, ResolvableAt
    <2>4. \A i \in Keys(rs) : resourceToken(tokens, i) =
                ResolveLocalSecretKey(At(rs, i), "authorizationTokenSecretRef", keys)
        BY DEF resourceToken, ResourceTokens
    <2>5. \A i \in Keys(rs) : Made(param[i], At(rs, i), keys, for)
        BY <2>1, <2>3, <2>4, MadeResource
    <2>6. Made(Field("resources", Mapped(rs, param)), p, keys, for)
        BY <2>1, <2>5, MadeEach
    <2>7. Keys(Field("resources", Mapped(rs, param))) \subseteq {"resources"}
        BY <2>1, <2>5, MappedKeys DEF Made
    <2> QED
        BY <2>6, <2>7, <1>1 DEF Resources
<1> QED
    BY <1>1, MadeNothing, KeysNone DEF Resources

LEMMA MadeBudget ==
    ASSUME NEW p, Manifest(p), NEW keys, NEW for \in SUBSET Purpose
    PROVE  /\ Made(Sub(p, "budget", budgetLimitToParam), p, keys, for)
           /\ Keys(Sub(p, "budget", budgetLimitToParam)) \subseteq Keys(p) \cap {"budget"}
<1> DEFINE b == At(p, "budget")
<1>1. CASE "budget" \in Keys(p)
    <2>1. IsTree(p) /\ IsTree(b) /\ IsTree(At(b, "maxListCost")) /\ "type" \notin Keys(b)
        BY <1>1, AtTree DEF Manifest, Admitted
    <2>2. Made(maxListCost(At(b, "maxListCost")), At(b, "maxListCost"), keys, for)
        BY <2>1, MadeFields DEF maxListCost
    <2>3. Made(Needed(b, "maxListCost", maxListCost), b, keys, for)
        BY <2>1, <2>2, MadeNeeded DEF Needed
    <2>4. Made(Field("type", Leaf("limit")), b, keys, for)
        BY <2>1, MadeType
    <2>5. Made(budgetLimitToParam(b), b, keys, for)
        BY <2>3, <2>4, MadeBoth DEF budgetLimitToParam
    <2> QED
        BY <2>1, <2>5, <1>1, MadeField, MadeKeys DEF Sub
<1> QED
    BY <1>1, MadeNothing, KeysNone DEF Sub

LEMMA MadeSchedule ==
    ASSUME NEW p, Manifest(p), NEW keys, NEW for \in SUBSET Purpose
    PROVE  /\ Made(Sub(p, "schedule", scheduleToParam), p, keys, for)
           /\ Keys(Sub(p, "schedule", scheduleToParam)) \subseteq Keys(p) \cap {"schedule"}
<1>1. CASE "schedule" \in Keys(p)
    <2>1. IsTree(p) /\ IsTree(At(p, "schedule")) /\ "type" \notin Keys(At(p, "schedule"))
        BY <1>1, AtTree DEF Manifest, Admitted
    <2>2. Made(scheduleToParam(At(p, "schedule")), At(p, "schedule"), keys, for)
        BY <2>1, MadeVariant DEF scheduleToParam
    <2> QED
        BY <2>1, <2>2, <1>1, MadeField, MadeKeys DEF Sub
<1> QED
    BY <1>1, MadeNothing, KeysNone DEF Sub

---------------------------------------------------------------------------
(* The parameters of an environment. *)

LEMMA MadeConfig ==
    ASSUME NEW p, IsTree(p), NEW keys, NEW for \in SUBSET Purpose
    PROVE  /\ Made(Sub(p, "config", envCloudConfigToParam), p, keys, for)
           /\ Keys(Sub(p, "config", envCloudConfigToParam)) \subseteq Keys(p) \cap {"config"}
<1> DEFINE c == At(p, "config")
<1>1. IsTree(c) /\ IsTree(At(c, "networking")) /\ IsTree(At(c, "packages"))
    BY AtTree
<1>2. /\ Made(envNetworkingToParam(At(c, "networking")), At(c, "networking"), keys, for)
      /\ Made(envPackagesToParam(At(c, "packages")), At(c, "packages"), keys, for)
    BY <1>1, MadeVariant, MadeKept, MadeNothing DEF envNetworkingToParam, envPackagesToParam
<1>3. Made(Given(c, "networking", envNetworkingToParam), c, keys, for)
    BY <1>1, <1>2, MadeField, MadeNothing DEF Given
<1>4. Made(Given(c, "packages", envPackagesToParam), c, keys, for)
    BY <1>1, <1>2, MadeField, MadeNothing DEF Given
<1>5. Made(envCloudConfigToParam(c), c, keys, for)
    BY <1>3, <1>4, MadeBoth DEF envCloudConfigToParam
<1> QED
    BY <1>5, MadeField, MadeKeys, MadeNothing, KeysNone DEF Sub

---------------------------------------------------------------------------
(* The parameters of a credential. *)

\* The secrets that a variant of a credential has.
SecretsOf(type) == {s \in Purpose : SecretFields[s].type = type}

LEMMA SecretsByType ==
    /\ "token" \in SecretsOf("static_bearer")
    /\ {"accessToken", "refreshToken", "clientSecret"} \subseteq SecretsOf("mcp_oauth")
    /\ "secretValue" \in SecretsOf("environment_variable")
    /\ \A type : SecretsOf(type) \subseteq Purpose
<1>1. Purpose = {"system", "authorizationToken", "token", "accessToken", "refreshToken",
                 "clientSecret", "secretValue"}
    BY DEF Purpose, SecretFields
<1>2. /\ SecretFields["token"].type = "static_bearer"
      /\ SecretFields["accessToken"].type = "mcp_oauth"
      /\ SecretFields["refreshToken"].type = "mcp_oauth"
      /\ SecretFields["clientSecret"].type = "mcp_oauth"
      /\ SecretFields["secretValue"].type = "environment_variable"
    BY DEF SecretFields
<1> QED
    BY <1>1, <1>2 DEF SecretsOf

LEMMA RefsByName ==
    /\ SecretFields["system"].ref = "systemSecretRef"
    /\ SecretFields["token"].ref = "tokenSecretRef"
    /\ SecretFields["accessToken"].ref = "accessTokenSecretRef"
    /\ SecretFields["refreshToken"].ref = "refreshTokenSecretRef"
    /\ SecretFields["clientSecret"].ref = "clientSecretSecretRef"
    /\ SecretFields["secretValue"].ref = "secretValueSecretRef"
BY DEF SecretFields

\* A secret in the context, if it is from the entry it is put into.
LEMMA MadeFromContext ==
    ASSUME NEW v, IsTree(v), Resolvable(v), NEW keys, NEW s \in Purpose, NEW for, s \in for,
           NEW ctx, ctx[s] = ResolveLocalSecretKey(v, SecretFields[s].ref, keys)
    PROVE  Made(Secret(ctx, s), v, keys, for) /\ Made(OptionalSecret(ctx, s), v, keys, for)
<1>1. Made(Field(s, Leaf(ctx[s])), v, keys, for)
    BY ResolvableText, MadeSecret
<1> QED
    BY <1>1, MadeNothing DEF Secret, OptionalSecret, NonEmpty

LEMMA ContextSays ==
    ASSUME NEW a, NEW keys
    PROVE  LET ctx == resolveVCContext(a, keys)  r == At(a, "refresh") IN
           /\ ctx["token"]       = ResolveLocalSecretKey(a, SecretFields["token"].ref, keys)
           /\ ctx["accessToken"] = ResolveLocalSecretKey(a, SecretFields["accessToken"].ref, keys)
           /\ ctx["secretValue"] = ResolveLocalSecretKey(a, SecretFields["secretValue"].ref, keys)
           /\ "refresh" \in Keys(a) =>
                /\ ctx["refreshToken"] =
                        ResolveLocalSecretKey(r, SecretFields["refreshToken"].ref, keys)
                /\ ctx["clientSecret"] =
                        ResolveLocalSecretKey(At(r, "tokenEndpointAuth"),
                                              SecretFields["clientSecret"].ref, keys)
BY RefsByName DEF resolveVCContext

LEMMA MadeRefresh ==
    ASSUME NEW r, IsTree(r), Resolvable(r), NEW keys, NEW ctx,
           ctx["refreshToken"] = ResolveLocalSecretKey(r, SecretFields["refreshToken"].ref, keys),
           ctx["clientSecret"] = ResolveLocalSecretKey(At(r, "tokenEndpointAuth"),
                                                       SecretFields["clientSecret"].ref, keys)
    PROVE  /\ Made(newRefresh(r, ctx), r, keys, SecretsOf("mcp_oauth"))
           /\ Made(updateRefresh(r, ctx), r, keys, SecretsOf("mcp_oauth"))
<1> DEFINE e   == At(r, "tokenEndpointAuth")
           for == SecretsOf("mcp_oauth")
<1>1. IsTree(e) /\ Resolvable(e)
    BY AtTree, ResolvableAt
<1>2. for \in SUBSET Purpose /\ {"refreshToken", "clientSecret"} \subseteq for
    BY SecretsByType
<1>3. Made(Secret(ctx, "refreshToken"), r, keys, for)
      /\ Made(OptionalSecret(ctx, "refreshToken"), r, keys, for)
    BY <1>2, MadeFromContext
<1>4. Made(Secret(ctx, "clientSecret"), e, keys, for)
      /\ Made(OptionalSecret(ctx, "clientSecret"), e, keys, for)
    BY <1>1, <1>2, MadeFromContext
<1>5. Made(newTokenEndpoint(e, ctx), e, keys, for)
    BY <1>1, <1>4, MadeVariant, MadeKept, MadeBoth, MadeNothing DEF newTokenEndpoint
<1>6. Made(updateTokenEndpoint(e, ctx), e, keys, for)
    BY <1>1, <1>4, MadeKept, MadeBoth, MadeNothing DEF updateTokenEndpoint
<1>7. Made(Field("tokenEndpointAuth", newTokenEndpoint(e, ctx)), r, keys, for)
    BY <1>2, <1>5, MadeField
<1>8. Made(NonEmpty("tokenEndpointAuth", updateTokenEndpoint(e, ctx)), r, keys, for)
    BY <1>2, <1>6, MadeField
<1>9. Made(Fields(r, {"clientId", "tokenEndpoint"}, {"resource", "scope"}), r, keys, for)
      /\ Made(Only(r, {"scope"}), r, keys, for)
    BY MadeFields, MadeKept
<1>10. Made(newRefresh(r, ctx), r, keys, for)
    BY <1>3, <1>7, <1>9, MadeBoth DEF newRefresh
<1>11. Made(updateRefresh(r, ctx), r, keys, for)
    BY <1>3, <1>8, <1>9, MadeBoth DEF updateRefresh
<1> QED
    BY <1>10, <1>11

LEMMA MadeAuth ==
    ASSUME NEW a, IsTree(a), Resolvable(a), NEW keys
    PROVE  LET ctx == resolveVCContext(a, keys) IN
           /\ Made(newAuthUnion(a, ctx), a, keys, SecretsOf(Text(a, "type")))
           /\ Made(updateAuthUnion(a, ctx), a, keys, SecretsOf(Text(a, "type")))
<1> DEFINE ctx == resolveVCContext(a, keys)
           for == SecretsOf(Text(a, "type"))
           r   == At(a, "refresh")
<1> HIDE DEF ctx
<1>1. for \in SUBSET Purpose
    BY SecretsByType
<1>2. /\ ctx["token"]       = ResolveLocalSecretKey(a, SecretFields["token"].ref, keys)
      /\ ctx["accessToken"] = ResolveLocalSecretKey(a, SecretFields["accessToken"].ref, keys)
      /\ ctx["secretValue"] = ResolveLocalSecretKey(a, SecretFields["secretValue"].ref, keys)
      /\ "refresh" \in Keys(a) =>
           /\ ctx["refreshToken"] = ResolveLocalSecretKey(r, SecretFields["refreshToken"].ref, keys)
           /\ ctx["clientSecret"] = ResolveLocalSecretKey(At(r, "tokenEndpointAuth"),
                                                          SecretFields["clientSecret"].ref, keys)
    BY ContextSays DEF ctx
<1>3. \A s \in {"token", "accessToken", "secretValue"} \cap for :
            Made(Secret(ctx, s), a, keys, for) /\ Made(OptionalSecret(ctx, s), a, keys, for)
    BY <1>1, <1>2, MadeFromContext
<1>4. \A K : Made(Only(a, K), a, keys, for)
    BY MadeKept
<1>5. CASE Text(a, "type") = "static_bearer"
    <2>1. "token" \in for
        BY <1>5, SecretsByType
    <2>2. Made(Variant("static_bearer", a, {"mcpServerUrl"}, {}), a, keys, for)
        BY <1>5, MadeVariant
    <2>3. Made(newAuthUnion(a, ctx), a, keys, for)
        BY <1>3, <1>5, <2>1, <2>2, MadeBoth DEF newAuthUnion
    <2>4. Made(updateAuthUnion(a, ctx), a, keys, for)
        BY <1>3, <1>4, <1>5, <2>1, MadeBoth DEF updateAuthUnion
    <2> QED
        BY <2>3, <2>4 DEF ctx
<1>6. CASE Text(a, "type") = "mcp_oauth"
    <2>1. "accessToken" \in for /\ for = SecretsOf("mcp_oauth")
        BY <1>6, SecretsByType
    <2>2. "refresh" \in Keys(a) => /\ Made(newRefresh(r, ctx), r, keys, for)
                                   /\ Made(updateRefresh(r, ctx), r, keys, for)
        BY <1>2, <2>1, AtTree, ResolvableAt, MadeRefresh
    <2>3. "refresh" \in Keys(a) => /\ Made(Field("refresh", newRefresh(r, ctx)), a, keys, for)
                                   /\ Made(NonEmpty("refresh", updateRefresh(r, ctx)), a, keys, for)
        BY <1>1, <2>2, MadeField
    <2> DEFINE refresh(x)  == newRefresh(x, ctx)
               refresh2(x) == updateRefresh(x, ctx)
    <2>4. Made(Sub(a, "refresh", refresh), a, keys, for) /\ Made(Given(a, "refresh", refresh2), a, keys, for)
        BY <2>3, MadeNothing DEF Sub, Given
    <2>5. Made(Variant("mcp_oauth", a, {"mcpServerUrl"}, Expiry(a)), a, keys, for)
        BY <1>6, MadeVariant
    <2>6. newAuthUnion(a, ctx) = Variant("mcp_oauth", a, {"mcpServerUrl"}, Expiry(a))
                                    ++ Secret(ctx, "accessToken") ++ Sub(a, "refresh", refresh)
        BY <1>6 DEF newAuthUnion
    <2>7. updateAuthUnion(a, ctx) = Only(a, {"type"} \cup Expiry(a)) ++ OptionalSecret(ctx, "accessToken")
                                       ++ Given(a, "refresh", refresh2)
        BY <1>6 DEF updateAuthUnion
    <2>8. Made(newAuthUnion(a, ctx), a, keys, for)
        BY <1>3, <2>1, <2>4, <2>5, <2>6, MadeBoth
    <2>9. Made(updateAuthUnion(a, ctx), a, keys, for)
        BY <1>3, <1>4, <2>1, <2>4, <2>7, MadeBoth
    <2> QED
        BY <2>8, <2>9 DEF ctx
<1>7. CASE Text(a, "type") = "environment_variable"
    <2> DEFINE n == At(a, "networking")
               l == At(a, "injectionLocation")
    <2>1. "secretValue" \in for
        BY <1>7, SecretsByType
    <2>2. Made(networkingUnion(n), n, keys, for) /\ Made(injectionLocation(l), l, keys, for)
        BY AtTree, MadeVariant, MadeKept, MadeNothing DEF networkingUnion, injectionLocation
    <2>3. Made(Needed(a, "networking", networkingUnion), a, keys, for)
        BY <1>1, <2>2, MadeNeeded DEF Needed
    <2>4. Made(Given(a, "networking", networkingUnion), a, keys, for)
        BY <1>1, <2>2, MadeField, MadeNothing DEF Given
    <2>5. Made(Given(a, "injectionLocation", injectionLocation), a, keys, for)
        BY <1>1, <2>2, MadeField, MadeNothing DEF Given
    <2>6. Made(Variant("environment_variable", a, {"secretName"}, {}), a, keys, for)
        BY <1>7, MadeVariant
    <2>7. Made(newAuthUnion(a, ctx), a, keys, for)
        BY <1>3, <1>7, <2>1, <2>3, <2>5, <2>6, MadeBoth DEF newAuthUnion
    <2>8. Made(updateAuthUnion(a, ctx), a, keys, for)
        BY <1>3, <1>4, <1>7, <2>1, <2>4, <2>5, MadeBoth DEF updateAuthUnion
    <2> QED
        BY <2>7, <2>8 DEF ctx
<1>8. CASE Text(a, "type") \notin {"static_bearer", "mcp_oauth", "environment_variable"}
    BY <1>8, MadeNothing DEF newAuthUnion, updateAuthUnion
<1> QED
    BY <1>5, <1>6, <1>7, <1>8


---------------------------------------------------------------------------
(* Whole requests. *)

\* A node of a request made of manifest p, under the name the request has for it.
SentNode(n, p, keys, for) ==
    \/ n[2] \in {"{}", "", "nothing"}
    \/ <<Renamed(n[1]), n[2]>> \in p
    \/ n[1] # <<>> /\ Added(n, p)
    \/ SecretNode(n, p, keys, for)

Sent(w, p, keys, for) == IsTree(w) /\ \A n \in w : SentNode(n, p, keys, for)

LEMMA SentBoth ==
    ASSUME NEW p, NEW keys, NEW for,
           NEW a, Sent(a, p, keys, for), NEW b, Sent(b, p, keys, for)
    PROVE  Sent(a ++ b, p, keys, for)
BY BothTree DEF Sent

LEMMA NotRenamed ==
    ASSUME NEW path, path # <<>> => Head(path) \notin {"model", "agent"}
    PROVE  Renamed(path) = path
<1>1. /\ \A a, b : <<a, b>> # <<>> /\ Head(<<a, b>>) = a
      /\ \A a : <<a>> # <<>> /\ Head(<<a>>) = a
    OBVIOUS
<1>2. /\ path # <<"model", "id">> /\ path # <<"model", "modelEffort">>
      /\ path # <<"model", "modelInferenceGeo">> /\ path # <<"agent">>
      /\ path # <<"agent", "id">> /\ path # <<"agent", "version">>
    BY <1>1
<1> QED
    BY <1>2 DEF Renamed

\* What has the name that it has in the manifest.
LEMMA MadeNodeSent ==
    ASSUME NEW p, NEW keys, NEW for, NEW n, IsNode(n), MadeNode(n, p, keys, for),
           n[1] # <<>> => Head(n[1]) \notin {"model", "agent"}
    PROVE  SentNode(n, p, keys, for)
<1>1. n \in p => <<Renamed(n[1]), n[2]>> \in p
    BY NotRenamed DEF IsNode
<1>2. /\ Last(n[1]) = "type" /\ n[1] \notin Paths(p) => Added(n, p)
      /\ Last(n[1]) = "mediaType" /\ n[2] = "text/plain" => Added(n, p)
    BY DEF Added
<1> QED
    BY <1>1, <1>2 DEF MadeNode, SentNode

LEMMA MadeSent ==
    ASSUME NEW p, NEW keys, NEW for, NEW w, Made(w, p, keys, for),
           Keys(w) \cap {"model", "agent"} = {}
    PROVE  Sent(w, p, keys, for)
<1>1. \A n \in w : n[1] # <<>> => Head(n[1]) \notin {"model", "agent"}
    BY DEF Keys
<1>2. \A n \in w : IsNode(n) /\ MadeNode(n, p, keys, for)
    BY Nodes DEF Made
<1> QED
    BY <1>1, <1>2, MadeNodeSent DEF Made, Sent

LEMMA SentField ==
    ASSUME NEW p, NEW keys, NEW for, NEW k, NEW w, IsTree(w),
           \A m \in w : SentNode(Into(k, m), p, keys, for)
    PROVE  Sent(Field(k, w), p, keys, for) /\ Sent(NonEmpty(k, w), p, keys, for)
<1>1. /\ IsTree(Field(k, w))
      /\ \A n \in Field(k, w) : n \in NoField \/ \E m \in w : n = Into(k, m)
    BY FieldTree
<1>2. IsTree(NoField) /\ \A n \in NoField : SentNode(n, p, keys, for)
    BY LeafTree DEF NoField, SentNode
<1>3. Sent(Field(k, w), p, keys, for) /\ Sent(NoField, p, keys, for)
    BY <1>1, <1>2 DEF Sent
<1> QED
    BY <1>3 DEF NonEmpty

LEMMA TwoKeys ==
    ASSUME NEW a, NEW b
    PROVE  <<a>> \o <<b>> = <<a, b>> /\ Tail(<<a, b>>) = <<b>> /\ <<a, b>> # <<>>
           /\ Last(<<a, b>>) = b /\ Head(<<a, b>>) = a
<1>1. <<a>> \o <<b>> = <<a, b>>
    <2>1. <<a>> \in Seq({a, b}) /\ <<b>> \in Seq({a, b}) /\ <<a, b>> \in Seq({a, b})
        OBVIOUS
    <2>2. Len(<<a>>) = 1 /\ Len(<<b>>) = 1 /\ Len(<<a, b>>) = 2
        OBVIOUS
    <2>3. /\ <<a>> \o <<b>> \in Seq({a, b}) /\ Len(<<a>> \o <<b>>) = 2
          /\ \A i \in 1..2 : (<<a>> \o <<b>>)[i] = IF i <= 1 THEN <<a>>[i] ELSE <<b>>[i - 1]
        BY <2>1, <2>2, ConcatProperties
    <2>4. \A i \in 1..2 : (<<a>> \o <<b>>)[i] = <<a, b>>[i]
        BY <2>3
    <2> QED
        BY <2>1, <2>2, <2>3, <2>4, SeqEqual
<1>2. Tail(<<a, b>>) = <<b>> /\ <<a, b>> # <<>> /\ Head(<<a, b>>) = a
    OBVIOUS
<1>3. Last(<<a, b>>) = b
    BY DEF Last
<1> QED
    BY <1>1, <1>2, <1>3

\* What a scalar field has under it, and where that stands.
LEMMA ScalarField ==
    ASSUME NEW p, Manifest(p),
           NEW f \in {"model", "modelEffort", "modelInferenceGeo", "agentId", "agentVersion"}
    PROVE  \A x \in At(p, f) : x = <<(<<>>), x[2]>> /\ <<(<<f>>), x[2]>> \in p
<1> SUFFICES ASSUME NEW x \in At(p, f) PROVE x = <<(<<>>), x[2]>> /\ <<(<<f>>), x[2]>> \in p
    OBVIOUS
<1>1. IsTree(p)
    BY DEF Manifest
<1>2. IsNode(x) /\ Into(f, x) \in p
    BY <1>1, AtTree, Nodes
<1>3. f \in Keys(p)
    BY <1>2, IntoNode DEF Keys
<1>4. Scalar(At(p, f))
    BY <1>3 DEF Manifest, Admitted
<1>5. x[1] = <<>>
    BY <1>4 DEF Scalar
<1>6. Into(f, x) = <<(<<f>>), x[2]>>
    BY <1>5, PathOne DEF Into
<1> QED
    BY <1>2, <1>5, <1>6 DEF IsNode

LEMMA SentModel ==
    ASSUME NEW p, Manifest(p), NEW keys, NEW for
    PROVE  Sent(agentModelConfigToParam(p), p, keys, for)
<1> DEFINE id    == Field("id", Leaf(Text(p, "model")))
           rest  == Only(p, {"modelEffort", "modelInferenceGeo"})
           model == id ++ rest
<1>1. IsTree(p) /\ Root(p) = NoField
    BY DEF Manifest
<1>2. IsTree(id) /\ IsTree(rest) /\ IsTree(model) /\ model \subseteq id \cup rest
    BY <1>1, LeafField, OnlyTree, BothTree
<1>3. ASSUME NEW m \in id PROVE SentNode(Into("model", m), p, keys, for)
    <2>1. CASE m[2] = "{}"
        BY <2>1 DEF SentNode, Into
    <2>2. CASE m = <<(<<"id">>), Text(p, "model")>>
        <3>1. Into("model", m) = <<(<<"model", "id">>), Text(p, "model")>>
            BY <2>2, TwoKeys DEF Into
        <3>2. Renamed(<<"model", "id">>) = <<"model">>
            BY DEF Renamed
        <3>3. Text(p, "model") # "" => <<(<<"model">>), Text(p, "model")>> \in p
            BY <1>1, TextNode
        <3>4. /\ <<(<<"model", "id">>), Text(p, "model")>>[1] = <<"model", "id">>
              /\ <<(<<"model", "id">>), Text(p, "model")>>[2] = Text(p, "model")
            OBVIOUS
        <3> QED
            BY <3>1, <3>2, <3>3, <3>4 DEF SentNode
    <2> QED
        BY <2>1, <2>2, LeafField
<1>4. ASSUME NEW m \in rest PROVE SentNode(Into("model", m), p, keys, for)
    <2>1. CASE m \in Root(p)
        <3>1. m[2] = "{}"
            BY <2>1, <1>1, LeafTree DEF NoField
        <3> QED
            BY <3>1 DEF SentNode, Into
    <2>2. CASE m \in Below(p, {"modelEffort", "modelInferenceGeo"})
        <3>1. /\ m \in p /\ m[1] # <<>> /\ Head(m[1]) \in {"modelEffort", "modelInferenceGeo"}
              /\ IsNode(m)
            BY <2>2, <1>1, Nodes DEF Below
        <3> DEFINE f == Head(m[1])  x == <<Tail(m[1]), m[2]>>
        <3>2. IsNode(x) /\ m = Into(f, x)
            BY <3>1, NodeSplit
        <3>3. x \in At(p, f)
            BY <3>1, <3>2, <1>1, AtTree
        <3>4. x = <<(<<>>), x[2]>> /\ <<(<<f>>), x[2]>> \in p
            BY <3>1, <3>3, ScalarField
        <3>5. m[1] = <<f>> /\ m[2] = x[2]
            <4>1. x[1] = <<>> /\ <<f>> \o <<>> = <<f>>
                BY <3>4, PathOne
            <4>2. Into(f, x)[1] = <<f>> \o x[1] /\ Into(f, x)[2] = x[2]
                BY DEF Into
            <4> QED
                BY <4>1, <4>2, <3>2
        <3>6. Into("model", m)[1] = <<"model", f>> /\ Into("model", m)[2] = m[2]
            BY <3>5, TwoKeys DEF Into
        <3>7. Renamed(<<"model", f>>) = <<f>>
            <4>1. CASE f = "modelEffort"
                <5>1. Renamed(<<"model", "modelEffort">>) = Tail(<<"model", "modelEffort">>)
                    BY DEF Renamed
                <5> QED
                    BY <5>1, <4>1, TwoKeys
            <4>2. CASE f = "modelInferenceGeo"
                <5>1. Renamed(<<"model", "modelInferenceGeo">>) = Tail(<<"model", "modelInferenceGeo">>)
                    BY DEF Renamed
                <5> QED
                    BY <5>1, <4>2, TwoKeys
            <4> QED
                BY <3>1, <4>1, <4>2
        <3> QED
            BY <3>4, <3>5, <3>6, <3>7 DEF SentNode
    <2> QED
        BY <2>1, <2>2 DEF Only
<1>5. Sent(Field("model", model), p, keys, for)
    BY <1>2, <1>3, <1>4, SentField
<1>6. Sent(NoField, p, keys, for)
    BY LeafTree DEF NoField, Sent, SentNode
<1> QED
    BY <1>5, <1>6 DEF agentModelConfigToParam

\* The agent of a deployment or a session.
LEMMA SentAgentRef ==
    ASSUME NEW p, Manifest(p), NEW keys, NEW for
    PROVE  /\ Sent(Field("agent", agentUnion(p)), p, keys, for)
           /\ Sent(agentUpdate(p), p, keys, for)
<1> DEFINE id      == Field("id", At(p, "agentId"))
           version == Field("version", At(p, "agentVersion"))
           type    == Field("type", Leaf("agent"))
<1>1. IsTree(p) /\ \A k : IsTree(At(p, k))
    BY AtTree DEF Manifest
<1>2. IsTree(Nothing) /\ IsTree(id) /\ IsTree(version) /\ IsTree(type)
    BY <1>1, LeafTree, FieldTree DEF Nothing
<1>3. ASSUME NEW m \in Nothing PROVE SentNode(Into("agent", m), p, keys, for)
    <2>1. Into("agent", m)[2] = "nothing"
        BY LeafTree DEF Nothing, Into
    <2> QED
        BY <2>1 DEF SentNode
<1>4. ASSUME NEW m, m[2] = "{}" PROVE SentNode(Into("agent", m), p, keys, for)
    BY <1>4 DEF SentNode, Into
<1>5. ASSUME NEW k, NEW f \in {"agentId", "agentVersion"},
             Renamed(<<"agent", k>>) = <<f>>, NEW m \in Field(k, At(p, f))
      PROVE  SentNode(Into("agent", m), p, keys, for)
    <2>1. CASE m \in NoField
        BY <2>1, <1>4, LeafTree DEF NoField
    <2>2. CASE \E x \in At(p, f) : m = Into(k, x)
        <3>1. PICK x \in At(p, f) : m = Into(k, x)
            BY <2>2
        <3>2. x = <<(<<>>), x[2]>> /\ <<(<<f>>), x[2]>> \in p
            BY ScalarField
        <3>3. m[1] = <<k>> /\ m[2] = x[2]
            <4>1. m[1] = <<k>> \o x[1] /\ m[2] = x[2]
                BY <3>1 DEF Into
            <4>2. x[1] = <<>> /\ <<k>> \o <<>> = <<k>>
                BY <3>2, PathOne
            <4> QED
                BY <4>1, <4>2
        <3>4. Into("agent", m)[1] = <<"agent", k>> /\ Into("agent", m)[2] = x[2]
            BY <3>3, TwoKeys DEF Into
        <3> QED
            BY <3>2, <3>4, <1>5 DEF SentNode
    <2> QED
        BY <2>1, <2>2, <1>1, FieldTree
<1>6. Renamed(<<"agent", "id">>) = <<"agentId">> /\ Renamed(<<"agent">>) = <<"agentId">>
    BY DEF Renamed
<1>7. Renamed(<<"agent", "version">>) = <<"agentVersion">>
    BY DEF Renamed
<1>8. ASSUME NEW m \in type PROVE SentNode(Into("agent", m), p, keys, for)
    <2>1. CASE m = <<(<<"type">>), "agent">>
        <3>1. Into("agent", m)[1] = <<"agent", "type">>
            BY <2>1, TwoKeys DEF Into
        <3>2. "agent" \notin Keys(p)
            BY DEF Manifest, Admitted
        <3>3. <<"agent", "type">> # <<>> /\ Head(<<"agent", "type">>) = "agent"
              /\ Last(<<"agent", "type">>) = "type"
            BY TwoKeys
        <3>4. <<"agent", "type">> \notin Paths(p)
            BY <3>2, <3>3 DEF Paths, Keys
        <3> QED
            BY <3>1, <3>3, <3>4 DEF SentNode, Added
    <2> QED
        BY <2>1, <1>4, LeafField
<1>9. ASSUME NEW m \in At(p, "agentId") PROVE SentNode(Into("agent", m), p, keys, for)
    <2>1. m = <<(<<>>), m[2]>> /\ <<(<<"agentId">>), m[2]>> \in p
        BY ScalarField
    <2>2. Into("agent", m)[1] = <<"agent">> /\ Into("agent", m)[2] = m[2]
        <3>1. Into("agent", m)[1] = <<"agent">> \o m[1] /\ Into("agent", m)[2] = m[2]
            BY DEF Into
        <3>2. m[1] = <<>> /\ <<"agent">> \o <<>> = <<"agent">>
            BY <2>1, PathOne
        <3> QED
            BY <3>1, <3>2
    <2> QED
        BY <2>1, <2>2, <1>6 DEF SentNode
<1>10. /\ IsTree(id ++ version ++ type)
       /\ id ++ version ++ type \subseteq id \cup version \cup type
    <2>1. IsTree(id ++ version) /\ id ++ version \subseteq id \cup version
        BY <1>2, BothTree
    <2>2. /\ IsTree((id ++ version) ++ type)
          /\ (id ++ version) ++ type \subseteq (id ++ version) \cup type
        BY <2>1, <1>2, BothTree
    <2> QED
        BY <2>1, <2>2
<1>11. IsTree(agentUnion(p)) /\ \A m \in agentUnion(p) : SentNode(Into("agent", m), p, keys, for)
    <2>1. CASE "agentId" \notin Keys(p)
        <3>1. agentUnion(p) = Nothing
            BY <2>1 DEF agentUnion
        <3> QED
            BY <3>1, <1>2, <1>3
    <2>2. CASE "agentId" \in Keys(p) /\ "agentVersion" \in Keys(p)
        <3>1. \A m \in id \cup version \cup type : SentNode(Into("agent", m), p, keys, for)
            BY <1>5, <1>6, <1>7, <1>8
        <3>2. agentUnion(p) = id ++ version ++ type
            BY <2>2 DEF agentUnion
        <3> QED
            BY <3>1, <3>2, <1>10
    <2>3. CASE "agentId" \in Keys(p) /\ "agentVersion" \notin Keys(p)
        BY <2>3, <1>1, <1>9 DEF agentUnion
    <2> QED
        BY <2>1, <2>2, <2>3
<1>12. Sent(NoField, p, keys, for)
    BY LeafTree DEF NoField, Sent, SentNode
<1> QED
    BY <1>11, <1>12, SentField DEF agentUpdate

---------------------------------------------------------------------------
(* The events of a deployment, and system messages among them. *)

\* The type that the conversion gives a block of a system message.
TextBlock(m) == m[1] # <<>> /\ Last(m[1]) = "type" /\ m[2] = "text"

LEMMA MadeSystemBlock ==
    ASSUME NEW c, IsTree(c), NEW keys, NEW for
    PROVE  /\ IsTree(systemBlockToParam(c))
           /\ \A m \in systemBlockToParam(c) : MadeNode(m, c, keys, for) \/ TextBlock(m)
<1> DEFINE type == Field("type", Leaf("text"))
           rest == Fields(c, {"text"}, {})
<1>1. IsTree(type) /\ \A m \in type : m[2] = "{}" \/ m = <<(<<"type">>), "text">>
    BY LeafField
<1>2. TextBlock(<<(<<"type">>), "text">>)
    <2>1. <<"type">> # <<>> /\ Last(<<"type">>) = "type"
        BY PathOne
    <2> QED
        BY <2>1 DEF TextBlock
<1>3. Made(rest, c, keys, for)
    BY MadeFields
<1>4. IsTree(type ++ rest) /\ type ++ rest \subseteq type \cup rest
    BY <1>1, <1>3, BothTree DEF Made
<1>5. \A m \in type : MadeNode(m, c, keys, for) \/ TextBlock(m)
    BY <1>1, <1>2 DEF MadeNode
<1>6. systemBlockToParam(c) = type ++ rest
    BY DEF systemBlockToParam, Variant
<1> QED
    BY <1>3, <1>4, <1>5, <1>6 DEF Made

LEMMA TextBlockInto ==
    ASSUME NEW k, NEW n, IsNode(n), TextBlock(n)
    PROVE  TextBlock(Into(k, n))
<1>1. Last(<<k>> \o n[1]) = Last(n[1])
    BY PathLast DEF TextBlock, IsNode
<1> QED
    BY <1>1, IntoNode DEF TextBlock

LEMMA MadeSystemEvent ==
    ASSUME NEW e, IsTree(e), Text(e, "type") = "system.message",
           NEW keys, NEW for \in SUBSET Purpose
    PROVE  /\ IsTree(deploymentInitialEventToParam(e))
           /\ \A m \in deploymentInitialEventToParam(e) : MadeNode(m, e, keys, for) \/ TextBlock(m)
<1> DEFINE list == At(e, "content")
           f    == [i \in Keys(list) |-> systemBlockToParam(At(list, i))]
           type == Field("type", Leaf("system.message"))
           rest == Field("content", Mapped(list, f))
<1>1. IsTree(list) /\ \A i : IsTree(At(list, i))
    BY AtTree
<1>2. \A i \in Keys(list) : IsTree(f[i])
    BY <1>1, MadeSystemBlock
<1>3. ASSUME NEW m \in Mapped(list, f) PROVE MadeNode(m, list, keys, for) \/ TextBlock(m)
    <2>1. CASE m \in Root(list)
        BY <2>1 DEF Root, MadeNode
    <2>2. CASE \E i \in Keys(list) : \E x \in f[i] : m = Into(i, x)
        <3>1. PICK i \in Keys(list) : \E x \in f[i] : m = Into(i, x)
            BY <2>2
        <3>2. PICK x \in f[i] : m = Into(i, x)
            BY <3>1
        <3>3. IsNode(x) /\ (MadeNode(x, At(list, i), keys, for) \/ TextBlock(x))
            BY <1>1, <1>2, <3>2, MadeSystemBlock, Nodes
        <3> QED
            BY <1>1, <3>2, <3>3, MadeInto, TextBlockInto
    <2> QED
        BY <2>1, <2>2, <1>1, <1>2, MappedTree
<1>4. IsTree(Mapped(list, f)) /\ IsTree(rest)
      /\ \A n \in rest : n \in NoField \/ \E m \in Mapped(list, f) : n = Into("content", m)
    BY <1>1, <1>2, MappedTree, FieldTree
<1>5. ASSUME NEW n \in rest PROVE MadeNode(n, e, keys, for) \/ TextBlock(n)
    <2>1. CASE n \in NoField
        BY <2>1, MadeNothing DEF Made
    <2>2. CASE \E m \in Mapped(list, f) : n = Into("content", m)
        <3>1. PICK m \in Mapped(list, f) : n = Into("content", m)
            BY <2>2
        <3>2. IsNode(m) /\ (MadeNode(m, list, keys, for) \/ TextBlock(m))
            BY <1>3, <1>4, Nodes
        <3> QED
            BY <3>1, <3>2, MadeInto, TextBlockInto
    <2> QED
        BY <2>1, <2>2, <1>4
<1>6. Made(type, e, keys, for) /\ Made(NoField, e, keys, for)
    BY MadeType, MadeNothing
<1>7. deploymentInitialEventToParam(e) = type ++ Each(e, "content", systemBlockToParam)
    BY DEF deploymentInitialEventToParam
<1>8. Each(e, "content", systemBlockToParam) \in {NoField, rest}
    BY DEF Each
<1>9. \A w \in {NoField, rest} :
        IsTree(w) /\ \A n \in w : MadeNode(n, e, keys, for) \/ TextBlock(n)
    BY <1>4, <1>5, <1>6 DEF Made
<1>10. PICK w \in {NoField, rest} : deploymentInitialEventToParam(e) = type ++ w
    BY <1>7, <1>8
<1>11. IsTree(type ++ w) /\ type ++ w \subseteq type \cup w
    BY <1>6, <1>9, BothTree DEF Made
<1> QED
    BY <1>6, <1>9, <1>10, <1>11 DEF Made

LEMMA SentEvents ==
    ASSUME NEW p, Manifest(p), NEW keys, NEW for \in SUBSET Purpose
    PROVE  /\ Sent(Each(p, "initialEvents", deploymentInitialEventToParam), p, keys, for)
           /\ Sent(Each(p, "initialEvents", sessionInitialEventToParam), p, keys, for)
           /\ Keys(Each(p, "initialEvents", deploymentInitialEventToParam))
                \subseteq Keys(p) \cap {"initialEvents"}
           /\ Keys(Each(p, "initialEvents", sessionInitialEventToParam))
                \subseteq Keys(p) \cap {"initialEvents"}
<1> DEFINE list == At(p, "initialEvents")
           f    == [i \in Keys(list) |-> deploymentInitialEventToParam(At(list, i))]
           g    == [i \in Keys(list) |-> sessionInitialEventToParam(At(list, i))]
           lift(i, m) == Into("initialEvents", Into(i, m))
<1>1. IsTree(p) /\ IsTree(list) /\ \A i : IsTree(At(list, i))
    BY AtTree DEF Manifest
<1>2. \A i \in Keys(list) : Made(g[i], At(list, i), keys, for)
    BY <1>1, MadeSessionEvent
<1>3. \A i \in Keys(list) : Text(At(list, i), "type") # "system.message" => f[i] = g[i]
    BY DEF deploymentInitialEventToParam
<1>4. \A i \in Keys(list) : Text(At(list, i), "type") = "system.message" =>
            IsTree(f[i]) /\ \A m \in f[i] : MadeNode(m, At(list, i), keys, for) \/ TextBlock(m)
    BY <1>1, MadeSystemEvent
<1>5. \A i \in Keys(list) : IsTree(f[i]) /\ IsTree(g[i])
    BY <1>2, <1>3, <1>4 DEF Made
<1>6. ASSUME NEW n \in Root(list) PROVE SentNode(Into("initialEvents", n), p, keys, for)
    <2>1. IsNode(n) /\ Into("initialEvents", n) \in p
        BY <1>1, AtTree, Nodes DEF Root
    <2>2. /\ IsNode(Into("initialEvents", n)) /\ Head(Into("initialEvents", n)[1]) = "initialEvents"
          /\ MadeNode(Into("initialEvents", n), p, keys, for)
        BY <2>1, IntoNode DEF MadeNode
    <2> QED
        BY <2>2, MadeNodeSent
<1>7. ASSUME NEW i \in Keys(list), NEW m, IsNode(m), MadeNode(m, At(list, i), keys, for)
      PROVE  SentNode(lift(i, m), p, keys, for)
    <2>1. IsNode(Into(i, m)) /\ MadeNode(Into(i, m), list, keys, for)
        BY <1>1, <1>7, IntoNode, MadeInto
    <2>2. /\ IsNode(lift(i, m)) /\ MadeNode(lift(i, m), p, keys, for)
          /\ Head(lift(i, m)[1]) = "initialEvents"
        BY <1>1, <2>1, IntoNode, MadeInto
    <2> QED
        BY <2>2, MadeNodeSent
<1>8. ASSUME NEW i \in Keys(list), Text(At(list, i), "type") = "system.message",
             NEW m, IsNode(m), TextBlock(m)
      PROVE  SentNode(lift(i, m), p, keys, for)
    <2>1. IsNode(Into(i, m)) /\ TextBlock(Into(i, m)) /\ Into(i, m)[1] = <<i>> \o m[1]
        BY <1>8, IntoNode, TextBlockInto
    <2>2. /\ TextBlock(lift(i, m)) /\ Head(lift(i, m)[1]) = "initialEvents"
          /\ lift(i, m)[1] = <<"initialEvents">> \o Into(i, m)[1]
        BY <2>1, IntoNode, TextBlockInto
    <2>3. lift(i, m)[1][2] = i
        BY <1>8, <2>1, <2>2, PathSecond DEF IsNode
    <2> QED
        BY <1>8, <2>2, <2>3 DEF SentNode, Added, TextBlock
<1>9. /\ IsTree(Mapped(list, f)) /\ IsTree(Mapped(list, g))
      /\ \A n \in Mapped(list, f) : n \in Root(list) \/ \E i \in Keys(list) : \E m \in f[i] : n = Into(i, m)
      /\ \A n \in Mapped(list, g) : n \in Root(list) \/ \E i \in Keys(list) : \E m \in g[i] : n = Into(i, m)
    BY <1>1, <1>5, MappedTree
<1>10. \A i \in Keys(list) : \A m \in f[i] : SentNode(lift(i, m), p, keys, for)
    BY <1>2, <1>3, <1>4, <1>5, <1>7, <1>8, Nodes DEF Made
<1>11. \A i \in Keys(list) : \A m \in g[i] : SentNode(lift(i, m), p, keys, for)
    BY <1>2, <1>5, <1>7, Nodes DEF Made
<1>12. Sent(Field("initialEvents", Mapped(list, f)), p, keys, for)
    <2>1. \A n \in Mapped(list, f) : SentNode(Into("initialEvents", n), p, keys, for)
        BY <1>6, <1>9, <1>10
    <2> QED
        BY <2>1, <1>9, SentField
<1>13. Sent(Field("initialEvents", Mapped(list, g)), p, keys, for)
    <2>1. \A n \in Mapped(list, g) : SentNode(Into("initialEvents", n), p, keys, for)
        BY <1>6, <1>9, <1>11
    <2> QED
        BY <2>1, <1>9, SentField
<1>14. Sent(NoField, p, keys, for) /\ Keys(NoField) = {}
    BY LeafTree, KeysNone DEF NoField, Sent, SentNode
<1>15. /\ Keys(Field("initialEvents", Mapped(list, f))) \subseteq {"initialEvents"}
       /\ Keys(Field("initialEvents", Mapped(list, g))) \subseteq {"initialEvents"}
    BY <1>1, <1>5, MappedKeys
<1> QED
    BY <1>12, <1>13, <1>14, <1>15 DEF Each

---------------------------------------------------------------------------
(* The requests of each kind. *)

LEMMA MadeSystem ==
    ASSUME NEW p, Manifest(p), NEW keys
    PROVE  Made(NonEmpty("system", Leaf(System(p, keys))), p, keys, {"system"})
<1> DEFINE ref == "systemSecretRef"
           t   == Text(p, ref)
<1>1. IsTree(p) /\ IsTree(At(p, ref))
    BY AtTree DEF Manifest
<1>2. t \in Key \cup {""}
    <2>1. CASE t # ""
        <3>1. <<(<<ref>>), t>> \in p /\ ref \in Keys(p)
            BY <1>1, <2>1, TextNode
        <3>2. Into(ref, <<(<<>>), t>>) = <<(<<ref>>), t>> /\ IsNode(<<(<<>>), t>>)
            BY PathOne DEF Into, IsNode
        <3>3. <<(<<>>), t>> \in At(p, ref)
            BY <1>1, <3>1, <3>2, AtTree
        <3>4. <<(<<ref>>), t>> \in Field(ref, At(p, ref))
            BY <1>1, <3>2, <3>3, FieldTree
        <3>5. Resolvable(Field(ref, At(p, ref)))
            BY <3>1 DEF Manifest, Admitted
        <3>6. <<ref>> # <<>> /\ Last(<<ref>>) = SecretFields["system"].ref /\ "system" \in Purpose
            BY PathOne, RefsByName DEF Purpose, SecretFields
        <3>7. <<(<<ref>>), t>>[1] = <<ref>> /\ <<(<<ref>>), t>>[2] = t
            OBVIOUS
        <3> QED
            BY <3>4, <3>5, <3>6, <3>7 DEF Resolvable, Purpose
    <2> QED
        BY <2>1
<1>3. "system" \in Purpose /\ SecretFields["system"].ref = ref
    BY RefsByName DEF Purpose, SecretFields
<1>4. Made(Field("system", Leaf(ResolveLocalSecretKey(p, ref, keys))), p, keys, {"system"})
    BY <1>1, <1>2, <1>3, MadeSecret
<1> QED
    BY <1>4, MadeNothing DEF System, NonEmpty

\* The secrets that go into requests of kind k for manifest p.
SecretsFor(k, p) ==
    CASE k = "agent"                    -> {"system"}
      [] k \in {"deployment", "session"} -> {"authorizationToken"}
      [] k = "environment"              -> {}
      [] k = "credential"               -> SecretsOf(Text(At(p, "auth"), "type"))

LEMMA SentAgent ==
    ASSUME NEW p, Manifest(p), NEW keys
    PROVE  /\ Sent(agentToAnthropicNew(p, System(p, keys)), p, keys, {"system"})
           /\ Sent(agentToAnthropicUpdate(p, System(p, keys)), p, keys, {"system"})
<1> DEFINE for    == {"system"}
           scalar == Fields(p, {"name"}, {"description", "metadata"})
           some   == Only(p, {"name", "description", "metadata"})
           system == NonEmpty("system", Leaf(System(p, keys)))
<1>1. IsTree(p) /\ for \in SUBSET Purpose
    BY DEF Manifest, Purpose, SecretFields
<1>2. Sent(scalar, p, keys, for)
    <2>1. Keys(scalar) \subseteq {"name"} \cup {"description", "metadata"}
        BY <1>1, FieldsTree
    <2> QED
        BY <1>1, <2>1, MadeFields, MadeSent
<1>3. Sent(some, p, keys, for)
    <2>1. Keys(some) \subseteq {"name", "description", "metadata"}
        BY KeysOnly
    <2> QED
        BY <1>1, <2>1, MadeKept, MadeSent
<1>4. Sent(agentModelConfigToParam(p), p, keys, for)
    BY SentModel
<1>5. Sent(system, p, keys, for)
    <2>1. Made(system, p, keys, for)
        BY MadeSystem
    <2>2. Keys(system) \subseteq {"system"}
        BY LeafTree, FieldTree, KeysNone DEF NonEmpty
    <2> QED
        BY <2>1, <2>2, MadeSent
<1>6. Sent(agentTopology(p), p, keys, for)
    <2>1. Made(agentTopology(p), p, keys, for) /\ Keys(agentTopology(p)) \cap {"model", "agent"} = {}
        BY <1>1, MadeTopology
    <2> QED
        BY <2>1, MadeSent
<1>7. Sent(scalar ++ agentModelConfigToParam(p) ++ system ++ agentTopology(p), p, keys, for)
    BY <1>2, <1>4, <1>5, <1>6, SentBoth
<1>8. Sent(some ++ agentModelConfigToParam(p) ++ system ++ agentTopology(p), p, keys, for)
    BY <1>3, <1>4, <1>5, <1>6, SentBoth
<1> QED
    BY <1>7, <1>8 DEF agentToAnthropicNew, agentToAnthropicUpdate

\* What is taken from the manifest as it is.
LEMMA SentKept ==
    ASSUME NEW p, IsTree(p), NEW keys, NEW for, NEW K, K \cap {"model", "agent"} = {}
    PROVE  Sent(Only(p, K), p, keys, for) /\ Sent(Fields(p, K, {}), p, keys, for)
<1>1. Keys(Only(p, K)) \subseteq K /\ Keys(Fields(p, K, {})) \subseteq K
    <2>1. Keys(Fields(p, K, {})) \subseteq K \cup {}
        BY FieldsTree
    <2> QED
        BY <2>1, KeysOnly
<1>2. Made(Only(p, K), p, keys, for) /\ Made(Fields(p, K, {}), p, keys, for)
    BY MadeKept, MadeFields
<1> QED
    BY <1>1, <1>2, MadeSent

LEMMA SentBudget ==
    ASSUME NEW p, Manifest(p), NEW keys, NEW for \in SUBSET Purpose
    PROVE  Sent(Sub(p, "budget", budgetLimitToParam), p, keys, for)
<1>1. /\ Made(Sub(p, "budget", budgetLimitToParam), p, keys, for)
      /\ Keys(Sub(p, "budget", budgetLimitToParam)) \subseteq Keys(p) \cap {"budget"}
    BY MadeBudget
<1> QED
    BY <1>1, MadeSent

LEMMA SentResources ==
    ASSUME NEW p, Manifest(p), NEW keys
    PROVE  Sent(Resources(p, keys), p, keys, {"authorizationToken"})
<1>1. {"authorizationToken"} \in SUBSET Purpose
    BY DEF Purpose, SecretFields
<1>2. /\ Made(Resources(p, keys), p, keys, {"authorizationToken"})
      /\ Keys(Resources(p, keys)) \subseteq Keys(p) \cap {"resources"}
    BY <1>1, MadeResources
<1> QED
    BY <1>2, MadeSent

LEMMA SentDeployment ==
    ASSUME NEW p, Manifest(p), NEW keys
    PROVE  /\ Sent(deploymentToAnthropicNew(p, keys), p, keys, {"authorizationToken"})
           /\ Sent(deploymentToAnthropicUpdate(p, keys), p, keys, {"authorizationToken"})
<1> DEFINE for == {"authorizationToken"}
           ev  == Each(p, "initialEvents", deploymentInitialEventToParam)
           sch == Sub(p, "schedule", scheduleToParam)
           bud == Sub(p, "budget", budgetLimitToParam)
           few == Only(p, {"description", "metadata", "vaultIds"})
<1>1. IsTree(p) /\ for \in SUBSET Purpose
    BY DEF Manifest, Purpose, SecretFields
<1>2. Sent(few, p, keys, for)
    <2>1. {"description", "metadata", "vaultIds"} \cap {"model", "agent"} = {}
        OBVIOUS
    <2> QED
        BY <1>1, <2>1, SentKept
<1>3. Sent(bud, p, keys, for)
    BY <1>1, SentBudget
<1>4. Sent(sch, p, keys, for)
    <2>1. Made(sch, p, keys, for) /\ Keys(sch) \subseteq Keys(p) \cap {"schedule"}
        BY <1>1, MadeSchedule
    <2> QED
        BY <2>1, MadeSent
<1>5. Sent(ev, p, keys, for)
    BY <1>1, SentEvents
<1>6. Sent(Resources(p, keys), p, keys, for)
    BY SentResources
<1>7. Sent(deploymentCommon(p, keys), p, keys, for)
    <2>1. Sent(few ++ bud ++ sch ++ ev ++ Resources(p, keys), p, keys, for)
        BY <1>2, <1>3, <1>4, <1>5, <1>6, SentBoth
    <2> QED
        BY <2>1 DEF deploymentCommon
<1>8. Sent(Fields(p, {"name", "environmentId"}, {}), p, keys, for)
      /\ Sent(Only(p, {"name", "environmentId"}), p, keys, for)
    <2>1. {"name", "environmentId"} \cap {"model", "agent"} = {}
        OBVIOUS
    <2> QED
        BY <1>1, <2>1, SentKept
<1>9. Sent(Field("agent", agentUnion(p)), p, keys, for)
      /\ Sent(agentUpdate(p), p, keys, for)
    BY SentAgentRef
<1>10. Sent(deploymentToAnthropicNew(p, keys), p, keys, for)
    BY <1>7, <1>8, <1>9, SentBoth DEF deploymentToAnthropicNew
<1>11. Sent(deploymentToAnthropicUpdate(p, keys), p, keys, for)
    BY <1>7, <1>8, <1>9, SentBoth DEF deploymentToAnthropicUpdate
<1> QED
    BY <1>10, <1>11

LEMMA SentSession ==
    ASSUME NEW p, Manifest(p), NEW keys
    PROVE  /\ Sent(sessionToAnthropicNew(p, keys), p, keys, {"authorizationToken"})
           /\ Sent(sessionToAnthropicUpdate(p), p, keys, {"authorizationToken"})
<1> DEFINE for == {"authorizationToken"}
           ev  == Each(p, "initialEvents", sessionInitialEventToParam)
           bud == Sub(p, "budget", budgetLimitToParam)
           all == Fields(p, {"environmentId"}, {"title", "metadata", "vaultIds"})
<1>1. IsTree(p) /\ for \in SUBSET Purpose
    BY DEF Manifest, Purpose, SecretFields
<1>2. Sent(all, p, keys, for)
    <2>1. Keys(all) \subseteq {"environmentId"} \cup {"title", "metadata", "vaultIds"}
        BY <1>1, FieldsTree
    <2>2. Made(all, p, keys, for)
        BY <1>1, MadeFields
    <2> QED
        BY <2>1, <2>2, MadeSent
<1>3. Sent(bud, p, keys, for)
    BY <1>1, SentBudget
<1>4. Sent(ev, p, keys, for)
    BY <1>1, SentEvents
<1>5. Sent(Resources(p, keys), p, keys, for)
    BY SentResources
<1>6. Sent(Field("agent", agentUnion(p)), p, keys, for)
    BY SentAgentRef
<1>7. Sent(sessionToAnthropicNew(p, keys), p, keys, for)
    BY <1>2, <1>3, <1>4, <1>5, <1>6, SentBoth DEF sessionToAnthropicNew
<1>8. Sent(Only(p, {"title", "metadata"}), p, keys, for)
    <2>1. {"title", "metadata"} \cap {"model", "agent"} = {}
        OBVIOUS
    <2> QED
        BY <1>1, <2>1, SentKept
<1>9. Sent(sessionToAnthropicUpdate(p), p, keys, for)
    BY <1>3, <1>8, SentBoth DEF sessionToAnthropicUpdate
<1> QED
    BY <1>7, <1>9

LEMMA SentEnvironment ==
    ASSUME NEW p, Manifest(p), NEW keys
    PROVE  /\ Sent(environmentToAnthropicNew(p), p, keys, {})
           /\ Sent(environmentToAnthropicUpdate(p), p, keys, {})
<1> DEFINE all  == Fields(p, {"name"}, {"description", "metadata", "scope"})
           some == Only(p, {"name", "description", "metadata", "scope"})
           cfg  == Sub(p, "config", envCloudConfigToParam)
<1>1. IsTree(p)
    BY DEF Manifest
<1>2. Sent(all, p, keys, {})
    <2>1. Keys(all) \subseteq {"name"} \cup {"description", "metadata", "scope"}
        BY <1>1, FieldsTree
    <2>2. Made(all, p, keys, {})
        BY <1>1, MadeFields
    <2> QED
        BY <2>1, <2>2, MadeSent
<1>3. Sent(some, p, keys, {})
    <2>1. {"name", "description", "metadata", "scope"} \cap {"model", "agent"} = {}
        OBVIOUS
    <2> QED
        BY <1>1, <2>1, SentKept
<1>4. Sent(cfg, p, keys, {})
    <2>1. Made(cfg, p, keys, {}) /\ Keys(cfg) \subseteq Keys(p) \cap {"config"}
        BY <1>1, MadeConfig
    <2> QED
        BY <2>1, MadeSent
<1> QED
    BY <1>2, <1>3, <1>4, SentBoth DEF environmentToAnthropicNew, environmentToAnthropicUpdate

LEMMA AuthResolvable ==
    ASSUME NEW p, Manifest(p)
    PROVE  Resolvable(At(p, "auth"))
<1> DEFINE a == At(p, "auth")
<1>1. CASE "auth" \in Keys(p)
    <2>1. Resolvable(Field("auth", a))
        BY <1>1 DEF Manifest, Admitted
    <2>2. IsTree(Field("auth", a)) /\ At(Field("auth", a), "auth") = a
        BY AtTree, FieldTree, AtField DEF Manifest
    <2>3. Resolvable(At(Field("auth", a), "auth"))
        BY <2>1, <2>2, ResolvableAt
    <2> QED
        BY <2>2, <2>3
<1>2. CASE "auth" \notin Keys(p)
    BY <1>2 DEF At, Below, Keys, Resolvable
<1> QED
    BY <1>1, <1>2

LEMMA SentCredential ==
    ASSUME NEW p, Manifest(p), NEW keys
    PROVE  LET for == SecretsOf(Text(At(p, "auth"), "type")) IN
           /\ Sent(credentialToAnthropicNew(p, keys), p, keys, for)
           /\ Sent(credentialToAnthropicUpdate(p, keys), p, keys, for)
<1> DEFINE a    == At(p, "auth")
           for  == SecretsOf(Text(a, "type"))
           ctx  == resolveVCContext(a, keys)
           new  == Field("auth", newAuthUnion(a, ctx))
           upd  == NonEmpty("auth", updateAuthUnion(a, ctx))
           some == Only(p, {"displayName", "metadata"})
<1>1. IsTree(p) /\ IsTree(a) /\ for \in SUBSET Purpose
    BY AtTree, SecretsByType DEF Manifest
<1>2. Resolvable(a)
    BY AuthResolvable
<1>3. /\ Made(newAuthUnion(a, ctx), a, keys, for)
      /\ Made(updateAuthUnion(a, ctx), a, keys, for)
    BY <1>1, <1>2, MadeAuth
<1> HIDE DEF ctx, for
<1>4. Made(new, p, keys, for) /\ Made(upd, p, keys, for)
    BY <1>1, <1>3, MadeField
<1>5. Keys(new) \subseteq {"auth"} /\ Keys(upd) \subseteq {"auth"}
    <2>1. IsTree(newAuthUnion(a, ctx)) /\ IsTree(updateAuthUnion(a, ctx))
        BY <1>3 DEF Made
    <2>2. Keys(new) \subseteq {"auth"}
        BY <2>1, FieldTree
    <2>3. Keys(upd) \subseteq {"auth"}
        BY <2>1, FieldTree, KeysNone DEF NonEmpty
    <2> QED
        BY <2>2, <2>3
<1>6. Sent(new, p, keys, for) /\ Sent(upd, p, keys, for)
    BY <1>4, <1>5, MadeSent
<1>7. Sent(some, p, keys, for)
    <2>1. {"displayName", "metadata"} \cap {"model", "agent"} = {}
        OBVIOUS
    <2> QED
        BY <1>1, <2>1, SentKept
<1>8. Sent(new ++ some, p, keys, for) /\ Sent(upd ++ some, p, keys, for)
    BY <1>6, <1>7, SentBoth
<1> QED
    BY <1>8 DEF credentialToAnthropicNew, credentialToAnthropicUpdate, ctx, for

LEMMA RequestSent ==
    ASSUME NEW k \in DOMAIN Base, NEW p, Manifest(p), NEW keys
    PROVE  /\ Sent(ToAnthropicNew(k, p, keys), p, keys, SecretsFor(k, p))
           /\ Sent(ToAnthropicUpdate(k, p, keys), p, keys, SecretsFor(k, p))
<1>1. k \in {"agent", "deployment", "session", "environment", "credential"}
    BY KindsAssumption
<1>2. CASE k = "agent"
    BY <1>2, SentAgent DEF ToAnthropicNew, ToAnthropicUpdate, SecretsFor
<1>3. CASE k = "deployment"
    BY <1>3, SentDeployment DEF ToAnthropicNew, ToAnthropicUpdate, SecretsFor
<1>4. CASE k = "session"
    BY <1>4, SentSession DEF ToAnthropicNew, ToAnthropicUpdate, SecretsFor
<1>5. CASE k = "environment"
    BY <1>5, SentEnvironment DEF ToAnthropicNew, ToAnthropicUpdate, SecretsFor
<1>6. CASE k = "credential"
    BY <1>6, SentCredential DEF ToAnthropicNew, ToAnthropicUpdate, SecretsFor
<1> QED
    BY <1>1, <1>2, <1>3, <1>4, <1>5, <1>6

---------------------------------------------------------------------------
(* What a request has secrets for, and where the tokens of repositories are. *)

LEMMA NamesOfSecrets ==
    /\ {"id", "modelEffort", "modelInferenceGeo", "agent", "version", "type", "mediaType"}
            \cap Purpose = {}
    /\ \A path : path # <<>> /\ Last(path) \in Purpose => Renamed(path) = path
<1>1. {"id", "modelEffort", "modelInferenceGeo", "agent", "version", "type", "mediaType"}
            \cap Purpose = {}
    BY DEF Purpose, SecretFields
<1>2. ASSUME NEW path, path # <<>>, Last(path) \in Purpose PROVE Renamed(path) = path
    <2>1. \A a, b : Last(<<a, b>>) = b
        BY TwoKeys
    <2>2. Last(<<"agent">>) = "agent"
        BY PathOne
    <2>3. /\ path # <<"model", "id">> /\ path # <<"model", "modelEffort">>
          /\ path # <<"model", "modelInferenceGeo">> /\ path # <<"agent">>
          /\ path # <<"agent", "id">> /\ path # <<"agent", "version">>
        BY <1>1, <1>2, <2>1, <2>2
    <2> QED
        BY <2>3 DEF Renamed
<1> QED
    BY <1>1, <1>2

\* A node of a request that has the name of a secret and is not in the manifest
\* is the value of the Secret that the manifest refers to at that place.
LEMMA SecretSent ==
    ASSUME NEW p, NEW keys, NEW for, NEW n, IsNode(n), SentNode(n, p, keys, for),
           n \notin p, n[2] \notin {"{}", "", "nothing"}, n[1] # <<>>, Last(n[1]) \in Purpose
    PROVE  SecretNode(n, p, keys, for)
<1>1. Renamed(n[1]) = n[1]
    BY NamesOfSecrets
<1>2. <<Renamed(n[1]), n[2]>> \notin p
    BY <1>1 DEF IsNode
<1>3. ~Added(n, p)
    BY NamesOfSecrets DEF Added
<1> QED
    BY <1>2, <1>3 DEF SentNode

LEMMA SecretsForKind ==
    ASSUME NEW k \in DOMAIN Base, NEW p
    PROVE  /\ SecretsFor(k, p) \subseteq Purpose
           /\ k = "credential" => \A s \in SecretsFor(k, p) :
                SecretFields[s].type = Text(At(p, "auth"), "type")
<1>1. {"system"} \subseteq Purpose /\ {"authorizationToken"} \subseteq Purpose
    BY DEF Purpose, SecretFields
<1>2. k \in {"agent", "deployment", "session", "environment", "credential"}
    BY KindsAssumption
<1> QED
    BY <1>1, <1>2 DEF SecretsFor, SecretsOf

\* Where the token of a repository stands.
LEMMA TokenOfRepository ==
    ASSUME NEW v, IsTree(v), Resolvable(v), Text(v, "type") = "github_repository",
           NEW keys \in Secrets,
           NEW token, token = ResolveLocalSecretKey(v, "authorizationTokenSecretRef", keys),
           token # ""
    PROVE  <<(<<"authorizationToken">>), token>> \in resourceToParam(v, token)
<1> DEFINE a    == Variant("github_repository", v, {"url"}, {"mountPath"})
           b    == NonEmpty("authorizationToken", Leaf(token))
           c    == Given(v, "checkout", checkoutUnion)
           node == <<(<<"authorizationToken">>), token>>
<1>1. token \notin {"", "{}", "nothing"}
    <2>1. /\ "authorizationToken" \in Purpose
          /\ SecretFields["authorizationToken"].ref = "authorizationTokenSecretRef"
        BY DEF Purpose, SecretFields
    <2>2. Text(v, "authorizationTokenSecretRef") \in Key \cup {""}
        BY <2>1, ResolvableText
    <2>3. token \in SecretValue
        BY <2>2 DEF ResolveLocalSecretKey, Secrets
    <2> QED
        BY <2>3, TextAssumption
<1>2. node \in b
    <2>1. \A x : Leaf(x) = {<<(<<>>), x>>} /\ <<(<<>>), x>>[2] = x
        BY DEF Leaf
    <2>2. Leaf(token) \notin {Empty, NoField, Nothing}
        <3>1. ASSUME NEW x, Leaf(token) = Leaf(x) PROVE token = x
            <4>1. <<(<<>>), token>> \in Leaf(x) /\ <<(<<>>), token>>[2] = token
                BY <2>1, <3>1
            <4> QED
                BY <4>1, LeafTree
        <3> QED
            BY <3>1, <1>1 DEF Empty, NoField, Nothing
    <2>3. node \in Field("authorizationToken", Leaf(token))
        BY LeafField
    <2> QED
        BY <2>2, <2>3 DEF NonEmpty
<1>3. "authorizationToken" \notin Keys(a)
    <2>1. Keys(Field("type", Leaf("github_repository"))) \subseteq {"type"}
        BY LeafTree, FieldTree
    <2>2. Keys(Fields(v, {"url"}, {"mountPath"})) \subseteq {"url"} \cup {"mountPath"}
        BY FieldsTree
    <2>3. Keys(a) = Keys(Field("type", Leaf("github_repository"))) \cup Keys(Fields(v, {"url"}, {"mountPath"}))
        BY KeysBoth DEF Variant
    <2> QED
        BY <2>1, <2>2, <2>3
<1>4. node[1] # <<>> /\ Head(node[1]) = "authorizationToken"
    BY PathOne
<1>5. node \in a ++ b
    BY <1>2, <1>3, <1>4, BothRight
<1>6. a ++ b \subseteq (a ++ b) ++ c
    BY DEF ++
<1>7. resourceToParam(v, token) = (a ++ b) ++ c
    BY DEF resourceToParam, repositoryParams
<1> QED
    BY <1>5, <1>6, <1>7

LEMMA ThreeKeys ==
    ASSUME NEW a, NEW b, NEW c, NEW t
    PROVE  Into(a, Into(b, <<(<<c>>), t>>)) = <<(<<a, b, c>>), t>>
<1>1. <<b>> \o <<c>> = <<b, c>>
    BY TwoKeys
<1>2. <<a>> \o <<b, c>> = <<a, b, c>>
    <2> DEFINE S == {a, b, c}
    <2>1. <<a>> \in Seq(S) /\ <<b, c>> \in Seq(S) /\ <<a, b, c>> \in Seq(S)
        OBVIOUS
    <2>2. Len(<<a>>) = 1 /\ Len(<<b, c>>) = 2 /\ Len(<<a, b, c>>) = 3
        OBVIOUS
    <2>3. /\ <<a>> \o <<b, c>> \in Seq(S) /\ Len(<<a>> \o <<b, c>>) = 3
          /\ \A i \in 1..3 : (<<a>> \o <<b, c>>)[i] = IF i <= 1 THEN <<a>>[i] ELSE <<b, c>>[i - 1]
        BY <2>1, <2>2, ConcatProperties
    <2>4. \A i \in 1..3 : (<<a>> \o <<b, c>>)[i] = <<a, b, c>>[i]
        BY <2>3
    <2> QED
        BY <2>1, <2>2, <2>3, <2>4, SeqEqual
<1>3. Into(b, <<(<<c>>), t>>) = <<(<<b, c>>), t>>
    BY <1>1 DEF Into
<1>4. Into(a, <<(<<b, c>>), t>>) = <<(<<a, b, c>>), t>>
    BY <1>2 DEF Into
<1> QED
    BY <1>3, <1>4

\* The token of each repository is in what is sent of the resources.
LEMMA TokensSent ==
    ASSUME NEW p, Manifest(p), "resources" \in Keys(p), NEW keys \in Secrets,
           NEW i \in Keys(At(p, "resources")),
           NEW v, v = At(At(p, "resources"), i), Text(v, "type") = "github_repository",
           NEW token, token = ResolveLocalSecretKey(v, "authorizationTokenSecretRef", keys),
           token # ""
    PROVE  <<(<<"resources", i, "authorizationToken">>), token>> \in Resources(p, keys)
<1> DEFINE rs     == At(p, "resources")
           tokens == ResourceTokens(rs, keys)
           param  == [j \in Keys(rs) |-> resourceToParam(At(rs, j), resourceToken(tokens, j))]
           node   == <<(<<"authorizationToken">>), token>>
<1>1. IsTree(rs) /\ \A j : IsTree(At(rs, j))
    BY AtTree DEF Manifest
<1>2. \A j : Resolvable(At(rs, j))
    BY <1>1, ResourcesResolvable, ResolvableAt
<1>3. \A j \in Keys(rs) : resourceToken(tokens, j) =
            ResolveLocalSecretKey(At(rs, j), "authorizationTokenSecretRef", keys)
    BY DEF resourceToken, ResourceTokens
<1>4. node \in param[i]
    BY <1>1, <1>2, <1>3, TokenOfRepository
<1>5. {"authorizationToken"} \in SUBSET Purpose
    BY DEF Purpose, SecretFields
<1>6. \A j \in Keys(rs) : IsTree(param[j])
    BY <1>1, <1>2, <1>3, <1>5, MadeResource DEF Made
<1>7. Into(i, node) \in Mapped(rs, param) /\ IsTree(Mapped(rs, param))
    BY <1>1, <1>4, <1>6, MappedTree
<1>8. Into("resources", Into(i, node)) \in Field("resources", Mapped(rs, param))
    <2> DEFINE list == Mapped(rs, param)
               n    == Into(i, node)
    <2>1. IsTree(list) /\ n \in list
        BY <1>7
    <2> HIDE DEF list, n
    <2>2. IsNode(n) /\ Into("resources", n) \in Field("resources", list)
        BY <2>1, FieldTree, Nodes
    <2> QED
        BY <2>2 DEF list, n
<1>9. Into("resources", Into(i, node)) = <<(<<"resources", i, "authorizationToken">>), token>>
    BY ThreeKeys
<1> QED
    BY <1>8, <1>9 DEF Resources

---------------------------------------------------------------------------
(* Which fields a request has. *)

LEMMA FieldKeys ==
    ASSUME NEW k, NEW v, IsTree(v)
    PROVE  /\ Keys(Field(k, v)) \subseteq {k} /\ Keys(NonEmpty(k, v)) \subseteq {k}
           /\ IsMap(Field(k, v)) /\ IsMap(NonEmpty(k, v))
<1>1. IsMap(NoField)
    BY DEF IsMap, NoField, Leaf
<1> QED
    BY <1>1, FieldTree, KeysNone DEF NonEmpty

LEMMA MapBoth ==
    ASSUME NEW v, NEW w, IsMap(v)
    PROVE  IsMap(v ++ w)
BY DEF IsMap, ++

LEMMA MapOnly ==
    ASSUME NEW v, IsMap(v), NEW K, NEW L
    PROVE  IsMap(Only(v, K)) /\ IsMap(Without(v, K)) /\ IsMap(Fields(v, K, L))
<1>1. <<(<<>>), "{}">>[1] = <<>>
    OBVIOUS
<1> QED
    BY <1>1 DEF IsMap, Only, Without, Root, Below, Fields

LEMMA ManifestMap ==
    ASSUME NEW p, Manifest(p)
    PROVE  IsTree(p) /\ IsMap(p)
BY DEF Manifest, Root, NoField, Leaf, IsMap

LEMMA AgentUnionTree ==
    ASSUME NEW p, IsTree(p)
    PROVE  IsTree(agentUnion(p)) /\ ("agentId" \notin Keys(p) => agentUnion(p) = Nothing)
<1>1. /\ IsTree(At(p, "agentId")) /\ IsTree(Field("id", At(p, "agentId")))
      /\ IsTree(Field("version", At(p, "agentVersion"))) /\ IsTree(Field("type", Leaf("agent")))
      /\ IsTree(Nothing)
    BY AtTree, FieldTree, LeafTree DEF Nothing
<1>2. "agentId" \notin Keys(p) => agentUnion(p) = Nothing
    BY DEF agentUnion
<1>3. IsTree(Field("id", At(p, "agentId")) ++ Field("version", At(p, "agentVersion"))
                ++ Field("type", Leaf("agent")))
    BY <1>1, BothTree
<1> QED
    BY <1>1, <1>2, <1>3 DEF agentUnion

LEMMA AgentRefKeys ==
    ASSUME NEW p, Manifest(p)
    PROVE  /\ Keys(Field("agent", agentUnion(p))) \subseteq {"agent"}
           /\ IsMap(Field("agent", agentUnion(p))) /\ IsMap(agentUpdate(p))
           /\ Keys(agentUpdate(p)) \subseteq
                {k \in {"agent"} : "agentId" \in Keys(p)}
<1>1. IsTree(agentUnion(p)) /\ ("agentId" \notin Keys(p) => agentUnion(p) = Nothing)
    BY AgentUnionTree DEF Manifest
<1>2. /\ Keys(Field("agent", agentUnion(p))) \subseteq {"agent"}
      /\ IsMap(Field("agent", agentUnion(p))) /\ IsMap(NoField)
    BY <1>1, FieldTree, MapRoot
<1> QED
    BY <1>2, KeysNone DEF agentUpdate

LEMMA ModelKeys ==
    ASSUME NEW p, Manifest(p)
    PROVE  Keys(agentModelConfigToParam(p)) \subseteq
                {k \in {"model"} : Keys(p) \cap {"model", "modelEffort", "modelInferenceGeo"} # {}}
<1> DEFINE model == Field("id", Leaf(Text(p, "model"))) ++ Only(p, {"modelEffort", "modelInferenceGeo"})
<1>1. IsTree(p)
    BY DEF Manifest
<1>2. IsTree(model)
    BY <1>1, LeafField, OnlyTree, BothTree
<1>3. Keys(Field("model", model)) \subseteq {"model"}
    BY <1>2, FieldTree
<1> QED
    BY <1>3, KeysNone DEF agentModelConfigToParam

LEMMA SystemKeys ==
    ASSUME NEW p, Manifest(p), NEW keys
    PROVE  Keys(NonEmpty("system", Leaf(System(p, keys)))) \subseteq
                {k \in {"system"} : "systemSecretRef" \in Keys(p)}
<1>1. "systemSecretRef" \notin Keys(p) => System(p, keys) = ""
    BY TextNode DEF Manifest, System, ResolveLocalSecretKey
<1>2. NonEmpty("system", Leaf("")) = NoField
    BY DEF NonEmpty, Empty
<1> QED
    BY <1>1, <1>2, LeafTree, FieldKeys, KeysNone

LEMMA AuthKeys ==
    ASSUME NEW p, Manifest(p), NEW keys
    PROVE  LET a == At(p, "auth")  ctx == resolveVCContext(a, keys) IN
           /\ Keys(Field("auth", newAuthUnion(a, ctx))) \subseteq {"auth"}
           /\ IsMap(Field("auth", newAuthUnion(a, ctx)))
           /\ Keys(NonEmpty("auth", updateAuthUnion(a, ctx))) \subseteq Keys(p) \cap {"auth"}
           /\ IsMap(NonEmpty("auth", updateAuthUnion(a, ctx)))
<1> DEFINE a   == At(p, "auth")
           ctx == resolveVCContext(a, keys)
<1>1. IsTree(p) /\ IsTree(a) /\ Resolvable(a)
    BY AtTree, AuthResolvable DEF Manifest
<1>2. IsTree(newAuthUnion(a, ctx)) /\ IsTree(updateAuthUnion(a, ctx))
    BY <1>1, MadeAuth DEF Made
<1>3. "auth" \notin Keys(p) => updateAuthUnion(a, ctx) = Nothing
    <2>1. "auth" \notin Keys(p) => a = {}
        BY DEF At, Below, Keys
    <2>2. Text({}, "type") = ""
        BY DEF Text
    <2> QED
        BY <2>1, <2>2 DEF updateAuthUnion
<1>4. NonEmpty("auth", Nothing) = NoField
    BY DEF NonEmpty
<1> HIDE DEF ctx, a
<1>5. /\ Keys(Field("auth", newAuthUnion(a, ctx))) \subseteq {"auth"}
      /\ IsMap(Field("auth", newAuthUnion(a, ctx)))
    BY <1>2, FieldKeys
<1>6. /\ Keys(NonEmpty("auth", updateAuthUnion(a, ctx))) \subseteq {"auth"}
      /\ IsMap(NonEmpty("auth", updateAuthUnion(a, ctx)))
    BY <1>2, FieldKeys
<1>7. Keys(NonEmpty("auth", updateAuthUnion(a, ctx))) \subseteq Keys(p) \cap {"auth"}
    BY <1>3, <1>4, <1>6, KeysNone
<1> QED
    BY <1>5, <1>6, <1>7 DEF ctx, a

\* Requests are maps.
LEMMA RequestMap ==
    ASSUME NEW k \in DOMAIN Base, NEW p, Manifest(p), NEW keys
    PROVE  IsMap(ToAnthropicNew(k, p, keys)) /\ IsMap(ToAnthropicUpdate(k, p, keys))
<1>1. k \in {"agent", "deployment", "session", "environment", "credential"}
    BY KindsAssumption
<1>2. \A K, L : IsMap(Only(p, K)) /\ IsMap(Fields(p, K, L))
    BY ManifestMap, MapOnly
<1>3. CASE k = "agent"
    BY <1>2, <1>3, MapBoth
       DEF ToAnthropicNew, ToAnthropicUpdate, agentToAnthropicNew, agentToAnthropicUpdate
<1>4. CASE k = "deployment"
    BY <1>4, AgentRefKeys, MapBoth
       DEF ToAnthropicNew, ToAnthropicUpdate, deploymentToAnthropicNew, deploymentToAnthropicUpdate
<1>5. CASE k = "session"
    BY <1>2, <1>5, AgentRefKeys, MapBoth
       DEF ToAnthropicNew, ToAnthropicUpdate, sessionToAnthropicNew, sessionToAnthropicUpdate
<1>6. CASE k = "environment"
    BY <1>2, <1>6, MapBoth
       DEF ToAnthropicNew, ToAnthropicUpdate, environmentToAnthropicNew, environmentToAnthropicUpdate
<1>7. CASE k = "credential"
    BY <1>7, AuthKeys, MapBoth
       DEF ToAnthropicNew, ToAnthropicUpdate, credentialToAnthropicNew, credentialToAnthropicUpdate
<1> QED
    BY <1>1, <1>3, <1>4, <1>5, <1>6, <1>7

\* Keys of a request that the manifest asks for.
Asked(K, p) == \A k \in K : AskedBy(k) \cap Keys(p) # {}

LEMMA AskedSame ==
    ASSUME NEW p, NEW K, K \subseteq Keys(p) \ {"model", "agent", "system"}
    PROVE  Asked(K, p)
<1>1. \A k \in K : AskedBy(k) = {k} /\ k \in Keys(p)
    BY DEF AskedBy
<1> QED
    BY <1>1 DEF Asked

LEMMA AskedUnion ==
    ASSUME NEW p, NEW K, Asked(K, p), NEW L, Asked(L, p)
    PROVE  Asked(K \cup L, p)
BY DEF Asked

LEMMA AgentUpdateKeys ==
    ASSUME NEW p, Manifest(p), NEW keys
    PROVE  Asked(Keys(agentToAnthropicUpdate(p, System(p, keys))), p)
<1> DEFINE some   == Only(p, {"name", "description", "metadata"})
           model  == agentModelConfigToParam(p)
           system == NonEmpty("system", Leaf(System(p, keys)))
<1>1. Asked(Keys(some), p)
    <2>1. Keys(some) \subseteq Keys(p) \ {"model", "agent", "system"}
        BY KeysOnly
    <2> QED
        BY <2>1, AskedSame
<1>2. Asked(Keys(model), p)
    <2>1. AskedBy("model") = {"model", "modelEffort", "modelInferenceGeo"}
        BY DEF AskedBy
    <2> QED
        BY <2>1, ModelKeys DEF Asked
<1>3. Asked(Keys(system), p)
    <2>1. AskedBy("system") = {"systemSecretRef"}
        BY DEF AskedBy
    <2> QED
        BY <2>1, SystemKeys DEF Asked
<1>4. Asked(Keys(agentTopology(p)), p)
    <2>1. {"system"} \in SUBSET Purpose
        BY DEF Purpose, SecretFields
    <2>2. Keys(agentTopology(p)) \subseteq Keys(p) \cap {"multiagent", "mcpServers", "skills", "tools"}
        BY <2>1, MadeTopology
    <2> QED
        BY <2>2, AskedSame
<1>5. Keys(agentToAnthropicUpdate(p, System(p, keys))) =
        Keys(some) \cup Keys(model) \cup Keys(system) \cup Keys(agentTopology(p))
    BY KeysBoth DEF agentToAnthropicUpdate
<1> QED
    BY <1>1, <1>2, <1>3, <1>4, <1>5, AskedUnion

LEMMA CommonKeys ==
    ASSUME NEW p, Manifest(p), NEW keys
    PROVE  Keys(deploymentCommon(p, keys)) \subseteq Keys(p)
            \cap {"description", "metadata", "vaultIds", "budget", "schedule", "initialEvents", "resources"}
<1>1. {"authorizationToken"} \in SUBSET Purpose
    BY DEF Purpose, SecretFields
<1>2. Keys(Only(p, {"description", "metadata", "vaultIds"})) = Keys(p) \cap {"description", "metadata", "vaultIds"}
    BY KeysOnly
<1>3. /\ Keys(Sub(p, "budget", budgetLimitToParam)) \subseteq Keys(p) \cap {"budget"}
      /\ Keys(Sub(p, "schedule", scheduleToParam)) \subseteq Keys(p) \cap {"schedule"}
    BY <1>1, MadeBudget, MadeSchedule
<1>4. Keys(Each(p, "initialEvents", deploymentInitialEventToParam)) \subseteq Keys(p) \cap {"initialEvents"}
    BY <1>1, SentEvents
<1>5. Keys(Resources(p, keys)) \subseteq Keys(p) \cap {"resources"}
    BY <1>1, MadeResources
<1>6. Keys(deploymentCommon(p, keys)) =
        Keys(Only(p, {"description", "metadata", "vaultIds"}))
            \cup Keys(Sub(p, "budget", budgetLimitToParam)) \cup Keys(Sub(p, "schedule", scheduleToParam))
            \cup Keys(Each(p, "initialEvents", deploymentInitialEventToParam))
            \cup Keys(Resources(p, keys))
    BY KeysBoth DEF deploymentCommon
<1> QED
    BY <1>2, <1>3, <1>4, <1>5, <1>6

LEMMA DeploymentUpdateKeys ==
    ASSUME NEW p, Manifest(p), NEW keys
    PROVE  Asked(Keys(deploymentToAnthropicUpdate(p, keys)), p)
<1> DEFINE agent == agentUpdate(p)
           some  == Only(p, {"name", "environmentId"})
<1>1. Asked(Keys(agent), p)
    <2>1. AskedBy("agent") = {"agentId"}
        BY DEF AskedBy
    <2> QED
        BY <2>1, AgentRefKeys DEF Asked
<1>2. Asked(Keys(some), p)
    <2>1. Keys(some) \subseteq Keys(p) \ {"model", "agent", "system"}
        BY KeysOnly
    <2> QED
        BY <2>1, AskedSame
<1>3. Asked(Keys(deploymentCommon(p, keys)), p)
    <2>1. Keys(deploymentCommon(p, keys)) \subseteq Keys(p) \ {"model", "agent", "system"}
        BY CommonKeys
    <2> QED
        BY <2>1, AskedSame
<1>4. Keys(deploymentToAnthropicUpdate(p, keys)) =
        Keys(agent) \cup Keys(some) \cup Keys(deploymentCommon(p, keys))
    BY KeysBoth DEF deploymentToAnthropicUpdate
<1> QED
    BY <1>1, <1>2, <1>3, <1>4, AskedUnion

\* An update has no more fields than the manifest asks for.
LEMMA UpdateKeys ==
    ASSUME NEW k \in DOMAIN Base, NEW p, Manifest(p), NEW keys
    PROVE  Asked(Keys(ToAnthropicUpdate(k, p, keys)), p)
<1>1. k \in {"agent", "deployment", "session", "environment", "credential"}
    BY KindsAssumption
<1>2. CASE k = "agent"
    BY <1>2, AgentUpdateKeys DEF ToAnthropicUpdate
<1>3. CASE k = "deployment"
    BY <1>3, DeploymentUpdateKeys DEF ToAnthropicUpdate
<1>4. CASE k = "session"
    <2>1. Keys(Sub(p, "budget", budgetLimitToParam)) \subseteq Keys(p) \cap {"budget"}
        BY MadeBudget
    <2>2. Keys(Only(p, {"title", "metadata"})) = Keys(p) \cap {"title", "metadata"}
        BY KeysOnly
    <2>3. Keys(sessionToAnthropicUpdate(p)) =
            Keys(Only(p, {"title", "metadata"})) \cup Keys(Sub(p, "budget", budgetLimitToParam))
        BY KeysBoth DEF sessionToAnthropicUpdate
    <2>4. Keys(sessionToAnthropicUpdate(p)) \subseteq Keys(p) \ {"model", "agent", "system"}
        BY <2>1, <2>2, <2>3
    <2> QED
        BY <2>4, <1>4, AskedSame DEF ToAnthropicUpdate
<1>5. CASE k = "environment"
    <2> DEFINE some == Only(p, {"name", "description", "metadata", "scope"})
    <2>1. Keys(Sub(p, "config", envCloudConfigToParam)) \subseteq Keys(p) \cap {"config"}
        BY MadeConfig DEF Manifest
    <2>2. Keys(some) = Keys(p) \cap {"name", "description", "metadata", "scope"}
        BY KeysOnly
    <2>3. Keys(environmentToAnthropicUpdate(p)) =
            Keys(some) \cup Keys(Sub(p, "config", envCloudConfigToParam))
        BY KeysBoth DEF environmentToAnthropicUpdate
    <2>4. Keys(environmentToAnthropicUpdate(p)) \subseteq Keys(p) \ {"model", "agent", "system"}
        BY <2>1, <2>2, <2>3
    <2> QED
        BY <2>4, <1>5, AskedSame DEF ToAnthropicUpdate
<1>6. CASE k = "credential"
    <2> DEFINE a    == At(p, "auth")
               auth == NonEmpty("auth", updateAuthUnion(a, resolveVCContext(a, keys)))
               some == Only(p, {"displayName", "metadata"})
    <2>1. Keys(auth) \subseteq Keys(p) \cap {"auth"}
        BY AuthKeys
    <2>2. Keys(some) = Keys(p) \cap {"displayName", "metadata"}
        BY KeysOnly
    <2>3. Keys(credentialToAnthropicUpdate(p, keys)) = Keys(auth) \cup Keys(some)
        BY KeysBoth DEF credentialToAnthropicUpdate
    <2>4. Keys(credentialToAnthropicUpdate(p, keys)) \subseteq Keys(p) \ {"model", "agent", "system"}
        BY <2>1, <2>2, <2>3
    <2> QED
        BY <2>4, <1>6, AskedSame DEF ToAnthropicUpdate
<1> QED
    BY <1>1, <1>2, <1>3, <1>4, <1>5, <1>6

\* Requests other than these have no resources.
LEMMA NoResources ==
    ASSUME NEW p, Manifest(p), NEW keys
    PROVE  /\ "resources" \notin Keys(agentToAnthropicNew(p, System(p, keys)))
           /\ "resources" \notin Keys(agentToAnthropicUpdate(p, System(p, keys)))
           /\ "resources" \notin Keys(sessionToAnthropicUpdate(p))
           /\ "resources" \notin Keys(environmentToAnthropicNew(p))
           /\ "resources" \notin Keys(environmentToAnthropicUpdate(p))
           /\ "resources" \notin Keys(credentialToAnthropicNew(p, keys))
           /\ "resources" \notin Keys(credentialToAnthropicUpdate(p, keys))
<1> DEFINE model  == agentModelConfigToParam(p)
           system == NonEmpty("system", Leaf(System(p, keys)))
           a      == At(p, "auth")
           ctx    == resolveVCContext(a, keys)
<1>1. IsTree(p) /\ {"system"} \in SUBSET Purpose
    BY DEF Manifest, Purpose, SecretFields
<1>2. \A K : Keys(Only(p, K)) \subseteq K
    BY KeysOnly
<1>3. \A K, L : Keys(Fields(p, K, L)) \subseteq K \cup L
    BY <1>1, FieldsTree
<1>4. Keys(model) \subseteq {"model"} /\ Keys(system) \subseteq {"system"}
    BY ModelKeys, SystemKeys
<1>5. Keys(agentTopology(p)) \subseteq {"multiagent", "mcpServers", "skills", "tools"}
    BY <1>1, MadeTopology
<1>6. "resources" \notin Keys(agentToAnthropicNew(p, System(p, keys)))
    <2>1. Keys(agentToAnthropicNew(p, System(p, keys))) =
            Keys(Fields(p, {"name"}, {"description", "metadata"}))
                \cup Keys(model) \cup Keys(system) \cup Keys(agentTopology(p))
        BY KeysBoth DEF agentToAnthropicNew
    <2>2. "resources" \notin Keys(Fields(p, {"name"}, {"description", "metadata"}))
        BY <1>3
    <2> QED
        BY <1>4, <1>5, <2>1, <2>2
<1>7. "resources" \notin Keys(agentToAnthropicUpdate(p, System(p, keys)))
    <2>1. Keys(agentToAnthropicUpdate(p, System(p, keys))) =
            Keys(Only(p, {"name", "description", "metadata"}))
                \cup Keys(model) \cup Keys(system) \cup Keys(agentTopology(p))
        BY KeysBoth DEF agentToAnthropicUpdate
    <2>2. "resources" \notin Keys(Only(p, {"name", "description", "metadata"}))
        BY <1>2
    <2> QED
        BY <1>4, <1>5, <2>1, <2>2
<1>8. "resources" \notin Keys(sessionToAnthropicUpdate(p))
    <2>1. Keys(Sub(p, "budget", budgetLimitToParam)) \subseteq {"budget"}
        BY MadeBudget
    <2>2. Keys(sessionToAnthropicUpdate(p)) =
            Keys(Only(p, {"title", "metadata"})) \cup Keys(Sub(p, "budget", budgetLimitToParam))
        BY KeysBoth DEF sessionToAnthropicUpdate
    <2>3. "resources" \notin Keys(Only(p, {"title", "metadata"}))
        BY <1>2
    <2> QED
        BY <2>1, <2>2, <2>3
<1>9. Keys(Sub(p, "config", envCloudConfigToParam)) \subseteq {"config"}
    BY <1>1, MadeConfig
<1>10. "resources" \notin Keys(environmentToAnthropicNew(p))
    <2>1. Keys(environmentToAnthropicNew(p)) =
            Keys(Fields(p, {"name"}, {"description", "metadata", "scope"}))
                \cup Keys(Sub(p, "config", envCloudConfigToParam))
        BY KeysBoth DEF environmentToAnthropicNew
    <2>2. "resources" \notin Keys(Fields(p, {"name"}, {"description", "metadata", "scope"}))
        BY <1>3
    <2> QED
        BY <1>9, <2>1, <2>2
<1>11. "resources" \notin Keys(environmentToAnthropicUpdate(p))
    <2>1. Keys(environmentToAnthropicUpdate(p)) =
            Keys(Only(p, {"name", "description", "metadata", "scope"}))
                \cup Keys(Sub(p, "config", envCloudConfigToParam))
        BY KeysBoth DEF environmentToAnthropicUpdate
    <2>2. "resources" \notin Keys(Only(p, {"name", "description", "metadata", "scope"}))
        BY <1>2
    <2> QED
        BY <1>9, <2>1, <2>2
<1>12. /\ Keys(Field("auth", newAuthUnion(a, ctx))) \subseteq {"auth"}
       /\ Keys(NonEmpty("auth", updateAuthUnion(a, ctx))) \subseteq {"auth"}
    BY AuthKeys
<1>13. Keys(Only(p, {"displayName", "metadata"})) \subseteq {"displayName", "metadata"}
    BY <1>2
<1>14. "resources" \notin Keys(credentialToAnthropicNew(p, keys))
    BY <1>12, <1>13, KeysBoth DEF credentialToAnthropicNew
<1>15. "resources" \notin Keys(credentialToAnthropicUpdate(p, keys))
    BY <1>12, <1>13, KeysBoth DEF credentialToAnthropicUpdate
<1> QED
    BY <1>6, <1>7, <1>8, <1>10, <1>11, <1>14, <1>15

\* Where there are resources they are those that Resources makes.
LEMMA ResourcesSent ==
    ASSUME NEW p, Manifest(p), NEW keys,
           NEW n \in Resources(p, keys), n[1] # <<>>, Head(n[1]) = "resources"
    PROVE  /\ n \in deploymentToAnthropicNew(p, keys)
           /\ n \in deploymentToAnthropicUpdate(p, keys)
           /\ n \in sessionToAnthropicNew(p, keys)
<1> DEFINE few == Only(p, {"description", "metadata", "vaultIds"})
           bud == Sub(p, "budget", budgetLimitToParam)
           sch == Sub(p, "schedule", scheduleToParam)
           ev  == Each(p, "initialEvents", deploymentInitialEventToParam)
           ev2 == Each(p, "initialEvents", sessionInitialEventToParam)
           all == Fields(p, {"environmentId"}, {"title", "metadata", "vaultIds"})
           new == Field("agent", agentUnion(p))
           upd == agentUpdate(p)
           req == Fields(p, {"name", "environmentId"}, {})
           opt == Only(p, {"name", "environmentId"})
<1>1. IsTree(p) /\ {"authorizationToken"} \in SUBSET Purpose
    BY DEF Manifest, Purpose, SecretFields
<1>2. \A K : Keys(Only(p, K)) \subseteq K
    BY KeysOnly
<1>3. \A K, L : Keys(Fields(p, K, L)) \subseteq K \cup L
    BY <1>1, FieldsTree
<1>4. "resources" \notin Keys(few) /\ "resources" \notin Keys(opt)
    BY <1>2
<1>5. "resources" \notin Keys(all) /\ "resources" \notin Keys(req)
    BY <1>3
<1>6. "resources" \notin Keys(new) /\ "resources" \notin Keys(upd)
    BY AgentRefKeys
<1>7. "resources" \notin Keys(bud) /\ "resources" \notin Keys(sch)
    BY <1>1, MadeBudget, MadeSchedule
<1>8. "resources" \notin Keys(ev) /\ "resources" \notin Keys(ev2)
    BY <1>1, SentEvents
<1>9. n \in deploymentCommon(p, keys)
    <2>1. "resources" \notin Keys(few ++ bud ++ sch ++ ev)
        BY <1>4, <1>7, <1>8, KeysBoth
    <2> QED
        BY <2>1, BothRight DEF deploymentCommon
<1>10. n \in deploymentToAnthropicNew(p, keys)
    <2>1. "resources" \notin Keys(new ++ req)
        BY <1>5, <1>6, KeysBoth
    <2> QED
        BY <1>9, <2>1, BothRight DEF deploymentToAnthropicNew
<1>11. n \in deploymentToAnthropicUpdate(p, keys)
    <2>1. "resources" \notin Keys(upd ++ opt)
        BY <1>4, <1>6, KeysBoth
    <2> QED
        BY <1>9, <2>1, BothRight DEF deploymentToAnthropicUpdate
<1>12. n \in sessionToAnthropicNew(p, keys)
    <2>1. "resources" \notin Keys(new ++ all ++ bud ++ ev2)
        BY <1>5, <1>6, <1>7, <1>8, KeysBoth
    <2> QED
        BY <2>1, BothRight DEF sessionToAnthropicNew
<1> QED
    BY <1>10, <1>11, <1>12

\* Each repository that is sent has its token.
TokensIn(w, p, keys) ==
    "resources" \in Keys(w) =>
        \A i \in Keys(At(p, "resources")) :
            LET resource == At(At(p, "resources"), i)
                token    == ResolveLocalSecretKey(resource, "authorizationTokenSecretRef", keys)
            IN  Text(resource, "type") = "github_repository" /\ token # "" =>
                    <<(<<"resources", i, "authorizationToken">>), token>> \in w

LEMMA RequestTokens ==
    ASSUME NEW k \in DOMAIN Base, NEW p, Manifest(p), NEW keys \in Secrets
    PROVE  /\ TokensIn(ToAnthropicNew(k, p, keys), p, keys)
           /\ TokensIn(ToAnthropicUpdate(k, p, keys), p, keys)
<1>1. k \in {"agent", "deployment", "session", "environment", "credential"}
    BY KindsAssumption
<1>2. ASSUME NEW w, Resources(p, keys) \ Root(Resources(p, keys)) \subseteq w
      PROVE  TokensIn(w, p, keys)
    <2> SUFFICES ASSUME NEW i \in Keys(At(p, "resources")), NEW v, v = At(At(p, "resources"), i),
                        NEW token, token = ResolveLocalSecretKey(v, "authorizationTokenSecretRef", keys),
                        Text(v, "type") = "github_repository", token # ""
                 PROVE  <<(<<"resources", i, "authorizationToken">>), token>> \in w
        BY DEF TokensIn
    <2>1. "resources" \in Keys(p)
        <3>1. "resources" \notin Keys(p) => At(p, "resources") = {}
            BY DEF At, Below, Keys
        <3> QED
            BY <3>1 DEF Keys
    <2>2. <<(<<"resources", i, "authorizationToken">>), token>> \in Resources(p, keys)
        BY <2>1, TokensSent
    <2>3. /\ <<(<<"resources", i, "authorizationToken">>), token>>[1] = <<"resources", i, "authorizationToken">>
          /\ <<"resources", i, "authorizationToken">> # <<>>
        OBVIOUS
    <2> QED
        BY <2>2, <2>3, <1>2 DEF Root
<1>3. \A n \in Resources(p, keys) : n[1] # <<>> => Head(n[1]) = "resources"
    <2>1. {"authorizationToken"} \in SUBSET Purpose
        BY DEF Purpose, SecretFields
    <2>2. Keys(Resources(p, keys)) \subseteq {"resources"}
        BY <2>1, MadeResources
    <2> QED
        BY <2>2 DEF Keys
<1>4. \A w : "resources" \notin Keys(w) => TokensIn(w, p, keys)
    BY DEF TokensIn
<1>5. /\ TokensIn(deploymentToAnthropicNew(p, keys), p, keys)
      /\ TokensIn(deploymentToAnthropicUpdate(p, keys), p, keys)
      /\ TokensIn(sessionToAnthropicNew(p, keys), p, keys)
    BY <1>2, <1>3, ResourcesSent DEF Root
<1>6. CASE k = "agent"
    BY <1>4, <1>6, NoResources DEF ToAnthropicNew, ToAnthropicUpdate
<1>7. CASE k = "deployment"
    BY <1>5, <1>7 DEF ToAnthropicNew, ToAnthropicUpdate
<1>8. CASE k = "session"
    BY <1>4, <1>5, <1>8, NoResources DEF ToAnthropicNew, ToAnthropicUpdate
<1>9. CASE k = "environment"
    BY <1>4, <1>9, NoResources DEF ToAnthropicNew, ToAnthropicUpdate
<1>10. CASE k = "credential"
    BY <1>4, <1>10, NoResources DEF ToAnthropicNew, ToAnthropicUpdate
<1> QED
    BY <1>1, <1>6, <1>7, <1>8, <1>9, <1>10

---------------------------------------------------------------------------
(* What the API makes of a request that it accepts. *)

Valid(v) == IsTree(v) /\ ~Rejected(v)

LEMMA ValidBoth ==
    ASSUME NEW v, Valid(v), NEW w, Valid(w)
    PROVE  Valid(v ++ w)
BY BothTree DEF Valid, Rejected

LEMMA ValidLeaf ==
    ASSUME NEW a, a \notin {"", "nothing"}
    PROVE  Valid(Leaf(a))
BY LeafTree DEF Valid, Rejected

LEMMA ValidNone == Valid(NoField) /\ IsMap(NoField) /\ Valid({})
<1>1. Valid(NoField)
    BY ValidLeaf DEF NoField
<1>2. IsMap(NoField)
    BY DEF IsMap, NoField, Leaf
<1>3. Valid({})
    BY DEF Valid, Rejected, IsTree, Single
<1> QED
    BY <1>1, <1>2, <1>3

LEMMA ValidField ==
    ASSUME NEW k, NEW v, Valid(v)
    PROVE  Valid(Field(k, v)) /\ IsMap(Field(k, v))
<1>1. /\ IsTree(Field(k, v)) /\ IsMap(Field(k, v))
      /\ \A n \in Field(k, v) : n \in NoField \/ \E m \in v : n = Into(k, m)
    BY FieldTree DEF Valid
<1>2. \A m \in v : Into(k, m)[2] \notin {"", "nothing"}
    BY DEF Valid, Rejected, Into
<1>3. \A n \in NoField : n[2] \notin {"", "nothing"}
    BY ValidNone DEF Valid, Rejected
<1> QED
    BY <1>1, <1>2, <1>3 DEF Valid, Rejected

LEMMA ValidAt ==
    ASSUME NEW k, NEW v, Valid(v)
    PROVE  Valid(At(v, k))
<1>1. IsTree(At(v, k)) /\ \A n \in At(v, k) : Into(k, n) \in v
    BY AtTree, Nodes DEF Valid
<1>2. \A n : Into(k, n)[2] = n[2]
    BY DEF Into
<1> QED
    BY <1>1, <1>2 DEF Valid, Rejected

LEMMA ValidPart ==
    ASSUME NEW v, Valid(v), NEW K
    PROVE  Valid(Only(v, K)) /\ Valid(Without(v, K))
BY OnlyTree DEF Valid, Rejected

LEMMA ValidEach ==
    ASSUME NEW v, Valid(v), NEW k, NEW f, \A i \in Keys(At(v, k)) : Valid(f[i])
    PROVE  Valid(Field(k, Mapped(At(v, k), f)))
<1> DEFINE list == At(v, k)
<1>1. Valid(list)
    BY ValidAt
<1> HIDE DEF list
<1>2. /\ IsTree(Mapped(list, f))
      /\ \A n \in Mapped(list, f) : n \in Root(list) \/ \E i \in Keys(list) : \E m \in f[i] : n = Into(i, m)
    BY <1>1, MappedTree DEF Valid, list
<1>3. \A n \in Root(list) : n[2] \notin {"", "nothing"}
    BY <1>1 DEF Valid, Rejected, Root
<1>4. \A i \in Keys(list) : \A m \in f[i] : Into(i, m)[2] \notin {"", "nothing"}
    BY DEF Valid, Rejected, Into, list
<1>5. Valid(Mapped(list, f))
    BY <1>2, <1>3, <1>4 DEF Valid, Rejected
<1> QED
    BY <1>5, ValidField DEF list

LEMMA ValidTool ==
    ASSUME NEW t, Valid(t), NEW explicit
    PROVE  Valid(StoredTool(t, explicit))
<1>1. /\ Valid(Field("enabled", Leaf("true")))
      /\ Valid(Field("permissionPolicy", Leaf("always_allow")))
    BY ValidLeaf, ValidField
<1>2. \A c : Valid(c) => Valid(Enabled(c))
    BY <1>1, ValidBoth DEF Enabled
<1> DEFINE list == At(t, "configs")
           f    == [i \in Keys(list) |-> Enabled(At(list, i))]
<1>3. \A i \in Keys(list) : Valid(f[i])
    BY <1>2, ValidAt
<1>4. Valid(Field("configs", Mapped(list, f)))
    BY <1>3, ValidEach
<1>5. Valid(Each(t, "configs", Enabled))
    BY <1>4, ValidNone DEF Each
<1>6. Valid(Sub(t, "defaultConfig", Enabled))
    BY <1>2, ValidAt, ValidField, ValidNone DEF Sub
<1>7. Valid(IF explicit THEN Field("defaultConfig", Enabled(NoField)) ELSE NoField)
    BY <1>2, ValidField, ValidNone
<1> QED
    BY <1>5, <1>6, <1>7, ValidBoth DEF StoredTool

LEMMA ValidRosterEntry ==
    ASSUME NEW e, Valid(e)
    PROVE  Valid(StoredRosterEntry(e))
<1>1. /\ Valid(Field("version", Leaf("latest"))) /\ Valid(Field("type", Leaf("agent")))
    BY ValidLeaf, ValidField
<1>2. Valid(Field("id", Leaf(OwnId)))
    BY ValidLeaf, ValidField, TextAssumption
<1> QED
    BY <1>1, <1>2, ValidBoth DEF StoredRosterEntry

LEMMA ValidAgent ==
    ASSUME NEW r, Valid(r), IsMap(r), NEW explicit
    PROVE  /\ Valid(StoredAgent(r, explicit)) /\ IsMap(StoredAgent(r, explicit))
           /\ Keys(StoredAgent(r, explicit)) = Keys(r)
<1> DEFINE tool(t)   == StoredTool(t, explicit)
           roster(m) == Each(m, "agents", StoredRosterEntry) ++ m
           list      == At(r, "tools")
           f         == [i \in Keys(list) |-> tool(At(list, i))]
           tools     == Each(r, "tools", tool)
           multi     == Sub(r, "multiagent", roster)
<1>1. \A i \in Keys(list) : Valid(f[i])
    BY ValidAt, ValidTool
<1>2. Valid(Field("tools", Mapped(list, f)))
    BY <1>1, ValidEach
<1>3. \A m : Valid(m) => Valid(roster(m))
    <2> SUFFICES ASSUME NEW m, Valid(m) PROVE Valid(roster(m))
        OBVIOUS
    <2> DEFINE agents == At(m, "agents")
               g      == [i \in Keys(agents) |-> StoredRosterEntry(At(agents, i))]
    <2>1. \A i \in Keys(agents) : Valid(g[i])
        BY ValidAt, ValidRosterEntry
    <2>2. Valid(Field("agents", Mapped(agents, g)))
        BY <2>1, ValidEach
    <2>3. Valid(Each(m, "agents", StoredRosterEntry))
        BY <2>2, ValidNone DEF Each
    <2> QED
        BY <2>3, ValidBoth
<1>4. Valid(Field("multiagent", roster(At(r, "multiagent"))))
    BY <1>3, ValidAt, ValidField
<1>5. Valid(tools) /\ IsMap(tools) /\ Keys(tools) \subseteq Keys(r)
    <2>1. tools = IF "tools" \notin Keys(r) THEN NoField ELSE Field("tools", Mapped(list, f))
        BY DEF Each
    <2>2. IsTree(list) /\ \A i \in Keys(list) : IsTree(f[i])
        BY <1>1, ValidAt DEF Valid
    <2>3. Keys(Field("tools", Mapped(list, f))) \subseteq {"tools"}
        BY <2>2, MappedKeys
    <2>4. IsMap(Field("tools", Mapped(list, f)))
        BY DEF IsMap, Field, NoField, Leaf
    <2> QED
        BY <1>2, <2>1, <2>3, <2>4, ValidNone, KeysNone
<1>6. Valid(multi) /\ Keys(multi) \subseteq Keys(r)
    <2>1. multi = IF "multiagent" \in Keys(r) THEN Field("multiagent", roster(At(r, "multiagent"))) ELSE NoField
        BY DEF Sub
    <2>2. Keys(Field("multiagent", roster(At(r, "multiagent")))) \subseteq {"multiagent"}
        BY <1>3, ValidAt, FieldTree DEF Valid
    <2> QED
        BY <1>4, <2>1, <2>2, ValidNone, KeysNone
<1>7. StoredAgent(r, explicit) = tools ++ multi ++ r
    BY DEF StoredAgent
<1> HIDE DEF tools, multi
<1>8. Valid(tools ++ multi ++ r)
    BY <1>5, <1>6, ValidBoth
<1>9. IsMap(tools ++ multi ++ r)
    BY <1>5, MapBoth
<1>10. Keys(tools ++ multi ++ r) = Keys(tools) \cup Keys(multi) \cup Keys(r)
    BY KeysBoth
<1> QED
    BY <1>5, <1>6, <1>7, <1>8, <1>9, <1>10

\* Defaults in what is sent.
LEMMA FilledValid ==
    ASSUME NEW v, Valid(v), IsMap(v), NEW explicit
    PROVE  /\ Valid(Filled(v, explicit)) /\ IsMap(Filled(v, explicit))
           /\ Keys(Filled(v, explicit)) = Keys(v)
<1> DEFINE ref == Sub(v, "agent", StoredAgentRef)
<1>1. CASE kind = "agent"
    BY <1>1, ValidAgent DEF Filled
<1>2. CASE kind \in {"deployment", "session"}
    <2>1. Valid(StoredAgentRef(At(v, "agent")))
        BY ValidAt, ValidField, ValidLeaf, ValidBoth DEF StoredAgentRef
    <2>2. Valid(ref) /\ IsMap(ref)
        BY <2>1, ValidField, ValidNone DEF Sub
    <2>3. Keys(ref) \subseteq Keys(v)
        BY <2>1, FieldTree, KeysNone DEF Sub, Valid
    <2>4. Filled(v, explicit) = ref ++ v
        BY <1>2 DEF Filled
    <2>5. Valid(ref ++ v) /\ IsMap(ref ++ v) /\ Keys(ref ++ v) = Keys(ref) \cup Keys(v)
        BY <2>2, ValidBoth, MapBoth, KeysBoth
    <2> QED
        BY <2>3, <2>4, <2>5
<1>3. CASE kind \notin {"agent", "deployment", "session"}
    BY <1>3 DEF Filled
<1> QED
    BY <1>1, <1>2, <1>3

\* An update keeps what it does not have.
LEMMA PatchValid ==
    ASSUME NEW old, Valid(old), NEW new, Valid(new), IsMap(new), NEW deep
    PROVE  /\ Valid(Patch(old, new, deep)) /\ IsMap(Patch(old, new, deep))
           /\ \A k : k \notin Keys(new) => Below(Patch(old, new, deep), {k}) = Below(old, {k})
<1>1. Patch(old, new, deep) \subseteq old \cup new /\ new \subseteq Patch(old, new, deep)
    BY DEF Patch
<1>2. Valid(Patch(old, new, deep)) /\ IsMap(Patch(old, new, deep))
    <2>1. Single(Patch(old, new, deep))
        BY DEF Patch, Single, Valid, IsTree, Paths
    <2> QED
        BY <1>1, <2>1 DEF Valid, IsTree, Rejected, IsMap
<1>3. ASSUME NEW k, k \notin Keys(new)
      PROVE  Below(Patch(old, new, deep), {k}) = Below(old, {k})
    <2>1. Below(Patch(old, new, deep), {k}) \subseteq Below(old, {k})
        BY <1>1, <1>3 DEF Below, Keys
    <2>2. ASSUME NEW n \in Below(old, {k}) PROVE n \in Patch(old, new, deep)
        <3>1. n \in old /\ n[1] # <<>> /\ Head(n[1]) = k /\ IsPath(n[1])
            BY <2>2 DEF Below, Valid, IsTree
        <3>2. 1 \in DOMAIN n[1] /\ SubSeq(n[1], 1, 1) = <<k>>
            BY <3>1, PathFirst
        <3>3. <<k>> \notin Paths(new)
            BY <1>3, PathOne DEF Paths, Keys
        <3>4. \A j \in 1..(1 - 1) : n[1][j] \in deep
            OBVIOUS
        <3>5. n[1] \notin Paths(new)
            BY <1>3, <3>1 DEF Paths, Keys
        <3> QED
            BY <3>1, <3>2, <3>3, <3>4, <3>5 DEF Patch
    <2>3. Below(old, {k}) \subseteq Below(Patch(old, new, deep), {k})
        BY <2>2 DEF Below
    <2> QED
        BY <2>1, <2>3
<1> QED
    BY <1>2, <1>3

---------------------------------------------------------------------------
(* The resource as the API completes it: a second time nothing is added.   *)

LEMMA NetworkingSame ==
    ASSUME NEW n, IsTree(n)
    PROVE  /\ StoredNetworking(StoredNetworking(n)) = StoredNetworking(n)
           /\ n # {} => StoredNetworking(n) # {}
<1> DEFINE F1 == Field("allowMcpServers", Leaf("false"))
           F2 == Field("allowPackageManagers", Leaf("false"))
           m  == (n ++ F1) ++ F2
<1>1. CASE Text(n, "type") # "limited"
    BY <1>1 DEF StoredNetworking
<1>2. CASE Text(n, "type") = "limited"
    <2>1. IsTree(Leaf("false")) /\ Leaf("false") # {}
        BY LeafTree DEF Leaf
    <2>2. Keys(F1) = {"allowMcpServers"} /\ Keys(F2) = {"allowPackageManagers"} /\ IsTree(F1) /\ IsTree(F2)
        BY <2>1, FieldHas, FieldTree
    <2>3. "type" \in Keys(n)
        BY <1>2, TextNode
    <2>4. Text(m, "type") = "limited"
        BY <1>2, <2>3, TextBoth, KeysBoth
    <2>5. "allowMcpServers" \in Keys(m) /\ "allowPackageManagers" \in Keys(m)
        BY <2>2, KeysBoth
    <2>7. m ++ F1 = m
        BY <2>1, <2>5, SameField
    <2>8. m ++ F2 = m
        BY <2>1, <2>5, SameField
    <2>9. StoredNetworking(n) = m /\ StoredNetworking(m) = (m ++ F1) ++ F2
        BY <1>2, <2>4 DEF StoredNetworking
    <2>10. m # {}
        BY <2>5 DEF Keys
    <2> QED
        BY <2>7, <2>8, <2>9, <2>10
<1> QED
    BY <1>1, <1>2

LEMMA NetworkingValid ==
    ASSUME NEW n, Valid(n)
    PROVE  Valid(StoredNetworking(n))
<1>1. /\ Valid(Field("allowMcpServers", Leaf("false")))
      /\ Valid(Field("allowPackageManagers", Leaf("false")))
    BY ValidLeaf, ValidField
<1> QED
    BY <1>1, ValidBoth DEF StoredNetworking

\* A config to which nothing is added.
Complete(c) ==
    /\ IsTree(c) /\ IsMap(c)
    /\ "networking" \in Keys(c) /\ "packages" \in Keys(c)
    /\ StoredNetworking(At(c, "networking")) = At(c, "networking")

LEMMA ConfigSame ==
    ASSUME NEW c, Complete(c)
    PROVE  StoredConfig(c) = c
<1> DEFINE V  == Variant("unrestricted", c, {}, {})
           N  == Sub(c, "networking", StoredNetworking)
<1>1. IsTree(V)
    <2>1. IsTree(Field("type", Leaf("unrestricted"))) /\ IsTree(Fields(c, {}, {}))
        BY LeafField, FieldsTree DEF Complete
    <2> QED
        BY <2>1, BothTree DEF Variant
<1>2. N = Field("networking", At(c, "networking"))
    BY DEF Complete, Sub
<1>3. N ++ c = c
    BY <1>2, FieldSame DEF Complete
<1>4. c ++ Field("networking", V) = c
    BY <1>1, SameField DEF Complete
<1>5. c ++ Field("packages", NoField) = c
    BY LeafTree, SameField DEF Complete, NoField
<1>6. StoredConfig(c) = ((N ++ c) ++ Field("networking", V)) ++ Field("packages", NoField)
    BY DEF StoredConfig
<1> QED
    BY <1>3, <1>4, <1>5, <1>6

LEMMA ConfigComplete ==
    ASSUME NEW c, Valid(c)
    PROVE  Valid(StoredConfig(c)) /\ Complete(StoredConfig(c))
<1> DEFINE n  == At(c, "networking")
           V  == Variant("unrestricted", c, {}, {})
           N  == Sub(c, "networking", StoredNetworking)
           FN == Field("networking", V)
           FP == Field("packages", NoField)
           s  == ((N ++ c) ++ FN) ++ FP
<1>1. s = StoredConfig(c)
    BY DEF StoredConfig
<1>2. IsTree(c) /\ Valid(n) /\ IsTree(n)
    BY ValidAt DEF Valid
<1>3. Fields(c, {}, {}) = Only(c, {})
    BY DEF Fields
<1>4. V = Field("type", Leaf("unrestricted")) ++ Only(c, {})
    BY <1>3 DEF Variant
<1>5. Valid(V) /\ V # {} /\ IsTree(V)
    <2>1. Valid(Field("type", Leaf("unrestricted"))) /\ Valid(Only(c, {}))
        BY ValidLeaf, ValidField, ValidPart
    <2>2. <<(<<"type">>), "unrestricted">> \in V
        BY <1>4, LeafField DEF ++
    <2> QED
        BY <1>4, <2>1, <2>2, ValidBoth DEF Valid
<1>6. Text(V, "type") # "limited"
    <2>1. CASE Text(V, "type") = ""
        BY <2>1
    <2>2. CASE Text(V, "type") # ""
        <3> DEFINE t == <<(<<"type">>), Text(V, "type")>>
        <3>1. t \in V /\ t[1] = <<"type">> /\ t[2] = Text(V, "type")
            BY <1>5, <2>2, TextNode
        <3>2. t \notin Only(c, {})
            BY <3>1, PathOne DEF Only, Root, Below
        <3>3. t \in Field("type", Leaf("unrestricted"))
            BY <1>4, <3>1, <3>2 DEF ++, Below
        <3>4. t[2] = "{}" \/ t = <<(<<"type">>), "unrestricted">>
            BY <3>3, LeafField
        <3>5. <<(<<"type">>), "unrestricted">>[2] = "unrestricted"
            OBVIOUS
        <3> QED
            BY <3>1, <3>4, <3>5
    <2> QED
        BY <2>1, <2>2
<1>7. N = IF "networking" \in Keys(c) THEN Field("networking", StoredNetworking(n)) ELSE NoField
    BY DEF Sub
<1>8. Valid(StoredNetworking(n)) /\ IsTree(StoredNetworking(n))
    BY <1>2, NetworkingValid DEF Valid
<1>9. Valid(N) /\ IsMap(N)
    BY <1>7, <1>8, ValidField, ValidNone
<1> HIDE DEF N, V
<1>10. Valid(s) /\ IsMap(s)
    <2>1. Valid(FN) /\ Valid(FP)
        BY <1>5, ValidField, ValidNone
    <2>2. Valid(N ++ c) /\ IsMap(N ++ c)
        BY <1>9, ValidBoth, MapBoth
    <2>3. Valid((N ++ c) ++ FN) /\ IsMap((N ++ c) ++ FN)
        BY <2>1, <2>2, ValidBoth, MapBoth
    <2> QED
        BY <2>1, <2>3, ValidBoth, MapBoth
<1>11. "networking" \in Keys(s) /\ "packages" \in Keys(s)
    <2>1. Keys(FN) = {"networking"}
        BY <1>5, FieldHas
    <2>2. NoField # {} /\ IsTree(NoField)
        BY LeafTree DEF NoField, Leaf
    <2>3. Keys(FP) = {"packages"}
        BY <2>2, FieldHas
    <2>4. Keys(s) = ((Keys(N) \cup Keys(c)) \cup Keys(FN)) \cup Keys(FP)
        BY KeysBoth
    <2> QED
        BY <2>1, <2>3, <2>4
<1>12. StoredNetworking(At(s, "networking")) = At(s, "networking")
    <2>1. CASE "networking" \in Keys(c)
        <3>1. n # {}
            BY <2>1 DEF Keys, At, Below
        <3>2. StoredNetworking(n) # {} /\ StoredNetworking(StoredNetworking(n)) = StoredNetworking(n)
            BY <1>2, <3>1, NetworkingSame
        <3>3. "networking" \in Keys(N) /\ At(N, "networking") = StoredNetworking(n)
            BY <1>7, <1>8, <2>1, <3>2, FieldHas, AtField
        <3>4. Below(s, {"networking"}) = Below(N, {"networking"})
            <4>1. "networking" \in Keys(N ++ c) /\ "networking" \in Keys((N ++ c) ++ FN)
                BY <3>3, KeysBoth
            <4>2. Below(N ++ c, {"networking"}) = Below(N, {"networking"})
                BY <3>3, BelowBoth
            <4>3. Below((N ++ c) ++ FN, {"networking"}) = Below(N ++ c, {"networking"})
                BY <4>1, BelowBoth
            <4>4. Below(s, {"networking"}) = Below((N ++ c) ++ FN, {"networking"})
                BY <4>1, BelowBoth
            <4> QED
                BY <4>2, <4>3, <4>4
        <3> QED
            BY <3>2, <3>3, <3>4, AtBelow
    <2>2. CASE "networking" \notin Keys(c)
        <3>1. "networking" \notin Keys(N ++ c)
            BY <1>7, <2>2, KeysBoth, KeysNone
        <3>2. "networking" \in Keys(FN) /\ At(FN, "networking") = V
            BY <1>5, FieldHas, AtField
        <3>3. Below(s, {"networking"}) = Below(FN, {"networking"})
            <4>1. "networking" \in Keys((N ++ c) ++ FN)
                BY <3>2, KeysBoth
            <4>2. Below((N ++ c) ++ FN, {"networking"}) = Below(FN, {"networking"})
                BY <3>1, BelowBoth
            <4>3. Below(s, {"networking"}) = Below((N ++ c) ++ FN, {"networking"})
                BY <4>1, BelowBoth
            <4> QED
                BY <4>2, <4>3
        <3>4. At(s, "networking") = V
            BY <3>2, <3>3, AtBelow
        <3> QED
            BY <3>4, <1>6 DEF StoredNetworking
    <2> QED
        BY <2>1, <2>2
<1> QED
    BY <1>1, <1>10, <1>11, <1>12 DEF Complete, Valid

LEMMA AuthSame ==
    ASSUME NEW a, IsTree(a)
    PROVE  /\ StoredAuth(StoredAuth(a)) = StoredAuth(a)
           /\ a # {} => StoredAuth(a) # {}
<1> DEFINE given == IF "injectionLocation" \in Keys(a) THEN At(a, "injectionLocation") ELSE NoField
           FB == Field("body", Leaf("false"))
           FH == Field("header", Leaf("true"))
           g  == (given ++ FB) ++ FH
           b  == Field("injectionLocation", g) ++ a
<1>1. CASE Text(a, "type") # "environment_variable"
    BY <1>1 DEF StoredAuth
<1>2. CASE Text(a, "type") = "environment_variable"
    <2>1. IsTree(given)
        BY AtTree, LeafTree DEF NoField
    <2>2. /\ IsTree(Leaf("false")) /\ Leaf("false") # {}
          /\ IsTree(Leaf("true")) /\ Leaf("true") # {}
        BY LeafTree DEF Leaf
    <2>3. Keys(FB) = {"body"} /\ Keys(FH) = {"header"} /\ IsTree(FB) /\ IsTree(FH)
        BY <2>2, FieldHas, FieldTree
    <2> HIDE DEF given
    <2>4. IsTree(g)
        BY <2>1, <2>3, BothTree
    <2>6. "body" \in Keys(g) /\ "header" \in Keys(g)
        BY <2>3, KeysBoth
    <2>7. (g ++ FB) ++ FH = g
        BY <2>2, <2>6, SameField
    <2>8. g # {}
        BY <2>6 DEF Keys
    <2> HIDE DEF g
    <2>9. "injectionLocation" \in Keys(b) /\ At(b, "injectionLocation") = g
        BY <2>4, <2>8, AtFirst
    <2>10. IsTree(b) /\ IsMap(b)
        BY <2>4, FieldTree, BothTree, MapBoth
    <2>11. Text(b, "type") = "environment_variable"
        <3>1. "type" \notin Keys(Field("injectionLocation", g))
            BY <2>4, FieldTree
        <3> QED
            BY <1>2, <3>1, TextBoth
    <2>12. StoredAuth(a) = b
        BY <1>2 DEF StoredAuth, g, given
    <2> HIDE DEF b
    <2>13. StoredAuth(b) = Field("injectionLocation", (g ++ FB) ++ FH) ++ b
        BY <2>9, <2>11 DEF StoredAuth
    <2>14. Field("injectionLocation", g) ++ b = b
        BY <2>9, <2>10, FieldSame
    <2>15. b # {}
        BY <2>10 DEF IsMap
    <2> QED
        BY <2>7, <2>12, <2>13, <2>14, <2>15
<1> QED
    BY <1>1, <1>2

LEMMA AuthValid ==
    ASSUME NEW a, Valid(a)
    PROVE  Valid(StoredAuth(a))
<1>1. /\ Valid(Field("body", Leaf("false"))) /\ Valid(Field("header", Leaf("true")))
      /\ Valid(At(a, "injectionLocation")) /\ Valid(NoField)
    BY ValidLeaf, ValidField, ValidAt, ValidNone
<1>2. \A given : Valid(given) => Valid(given ++ Field("body", Leaf("false")) ++ Field("header", Leaf("true")))
    BY <1>1, ValidBoth
<1>3. \A given : Valid(given) => Valid(Field("injectionLocation",
                given ++ Field("body", Leaf("false")) ++ Field("header", Leaf("true"))) ++ a)
    BY <1>2, ValidField, ValidBoth
<1> QED
    BY <1>1, <1>3 DEF StoredAuth

\* What the API has: nothing in it would be rejected, no list is empty, and to
\* what it completes nothing is added.
Kept(k, x) ==
    /\ Valid(x) /\ IsMap(x) /\ EmptyLists(x) = {}
    /\ k = "environment" => "config" \in Keys(x) /\ Complete(At(x, "config"))
    /\ k = "credential" => StoredAuth(At(x, "auth")) = At(x, "auth")

LEMMA CompletedValid ==
    ASSUME NEW r, Valid(r), IsMap(r)
    PROVE  Valid(Completed(r)) /\ IsMap(Completed(r))
<1>1. CASE kind = "environment"
    <2> DEFINE c == IF "config" \in Keys(r) THEN At(r, "config") ELSE NoField
    <2>1. Valid(StoredConfig(c))
        BY ValidAt, ValidNone, ConfigComplete
    <2>2. Valid(Field("config", StoredConfig(c)) ++ r) /\ IsMap(Field("config", StoredConfig(c)) ++ r)
        BY <2>1, ValidField, ValidBoth, MapBoth
    <2> QED
        BY <1>1, <2>2 DEF Completed, StoredEnvironment
<1>2. CASE kind = "credential"
    <2>1. Valid(Sub(r, "auth", StoredAuth)) /\ IsMap(Sub(r, "auth", StoredAuth))
        BY ValidAt, AuthValid, ValidField, ValidNone DEF Sub
    <2> QED
        BY <1>2, <2>1, ValidBoth, MapBoth DEF Completed, StoredCredential
<1>3. CASE kind \notin {"environment", "credential"}
    BY <1>3 DEF Completed
<1> QED
    BY <1>1, <1>2, <1>3

LEMMA StoredKept ==
    ASSUME NEW r, Valid(r), IsMap(r)
    PROVE  Kept(kind, Stored(r))
<1> DEFINE C == Completed(r)
           E == EmptyLists(C)
           x == Without(C, E)
<1>1. Stored(r) = x
    BY DEF Stored
<1>2. Valid(C) /\ IsMap(C)
    BY CompletedValid
<1>3. Valid(x) /\ IsMap(x)
    BY <1>2, ValidPart, MapOnly
<1>4. EmptyLists(x) = {}
    BY NoEmptyLists
<1>5. ASSUME kind = "environment" PROVE "config" \in Keys(x) /\ Complete(At(x, "config"))
    <2> DEFINE c == IF "config" \in Keys(r) THEN At(r, "config") ELSE NoField
               s == StoredConfig(c)
    <2>1. Valid(s) /\ Complete(s)
        BY ValidAt, ValidNone, ConfigComplete
    <2>2. C = Field("config", s) ++ r
        BY <1>5 DEF Completed, StoredEnvironment
    <2>3. s # {} /\ IsTree(s) /\ IsMap(s)
        BY <2>1 DEF Complete, IsMap
    <2> HIDE DEF s, C
    <2>4. "config" \in Keys(C) /\ At(C, "config") = s
        BY <2>2, <2>3, AtFirst
    <2>5. "config" \notin E
        BY <1>2, <2>3, <2>4, NoEmptyMap DEF Valid
    <2>6. Below(x, {"config"}) = Below(C, {"config"})
        BY <2>5, BelowWithout
    <2>7. At(x, "config") = s /\ "config" \in Keys(x)
        BY <2>4, <2>6, AtBelow
    <2> QED
        BY <2>1, <2>7
<1>6. ASSUME kind = "credential" PROVE StoredAuth(At(x, "auth")) = At(x, "auth")
    <2> DEFINE a == At(r, "auth")
    <2>1. IsTree(r) /\ IsTree(a)
        BY AtTree DEF Valid
    <2>2. C = Sub(r, "auth", StoredAuth) ++ r
        BY <1>6 DEF Completed, StoredCredential
    <2>3. StoredAuth({}) = {}
        <3>1. Text({}, "type") = ""
            BY DEF Text
        <3> QED
            BY <3>1 DEF StoredAuth
    <2>4. StoredAuth(At(C, "auth")) = At(C, "auth")
        <3>1. CASE "auth" \in Keys(r)
            <4>1. a # {}
                BY <3>1 DEF Keys, At, Below
            <4>2. IsTree(StoredAuth(a)) /\ StoredAuth(a) # {}
                BY <2>1, <4>1, AuthSame, AuthValid, ValidAt DEF Valid
            <4>3. C = Field("auth", StoredAuth(a)) ++ r
                BY <2>2, <3>1 DEF Sub
            <4>4. At(C, "auth") = StoredAuth(a)
                BY <4>2, <4>3, AtFirst
            <4> QED
                BY <2>1, <4>4, AuthSame
        <3>2. CASE "auth" \notin Keys(r)
            <4>1. C = NoField ++ r
                BY <2>2, <3>2 DEF Sub
            <4>2. "auth" \notin Keys(C)
                BY <3>2, <4>1, KeysBoth, KeysNone
            <4>3. At(C, "auth") = {}
                BY <4>2 DEF At, Below, Keys
            <4> QED
                BY <2>3, <4>3
        <3> QED
            BY <3>1, <3>2
    <2> HIDE DEF C
    <2>5. CASE "auth" \in E
        <3>1. Below(x, {"auth"}) = {}
            BY <2>5 DEF Without, Below
        <3>2. At(x, "auth") = {}
            BY <3>1 DEF At
        <3> QED
            BY <2>3, <3>2
    <2>6. CASE "auth" \notin E
        <3>1. At(x, "auth") = At(C, "auth")
            BY <2>6, BelowWithout, AtBelow
        <3> QED
            BY <2>4, <3>1
    <2> QED
        BY <2>5, <2>6
<1> QED
    BY <1>1, <1>3, <1>4, <1>5, <1>6 DEF Kept

LEMMA NotNothing ==
    ASSUME NEW v, IsMap(v)
    PROVE  v # Nothing
<1>1. <<(<<>>), "{}">> \notin Nothing
    <2>1. <<(<<>>), "{}">>[2] = "{}"
        OBVIOUS
    <2>2. \A n \in Nothing : n[2] = "nothing"
        BY LeafTree DEF Nothing
    <2> QED
        BY <2>1, <2>2
<1> QED
    BY <1>1 DEF IsMap

LEMMA AfterKept ==
    ASSUME NEW w, Valid(w), IsMap(w), NEW old, old = Nothing \/ Kept(kind, old), NEW explicit
    PROVE  Kept(kind, After(w, old, explicit))
<1> DEFINE new == Filled(w, explicit)
<1>1. Valid(new) /\ IsMap(new)
    BY FilledValid
<1> HIDE DEF new
<1>2. CASE old = Nothing
    <2>1. After(w, old, explicit) = Stored(new)
        BY <1>2 DEF After, new
    <2> QED
        BY <1>1, <2>1, StoredKept
<1>3. CASE old # Nothing
    <2>1. After(w, old, explicit) = Stored(Patch(old, new, Deep))
        BY <1>3 DEF After, new
    <2>2. Valid(Patch(old, new, Deep)) /\ IsMap(Patch(old, new, Deep))
        BY <1>1, <1>3, PatchValid DEF Kept
    <2> QED
        BY <2>1, <2>2, StoredKept
<1> QED
    BY <1>2, <1>3

\* What a request does not have, the API leaves as it is.
LEMMA AfterUntouched ==
    ASSUME NEW old, Kept(kind, old), NEW w, Valid(w), IsMap(w), NEW explicit,
           NEW k \in Keys(old), k \notin Keys(w)
    PROVE  k \in Keys(After(w, old, explicit)) /\ At(After(w, old, explicit), k) = At(old, k)
<1> DEFINE new == Filled(w, explicit)
           P   == Patch(old, new, Deep)
           C   == Completed(P)
           E   == EmptyLists(C)
<1>1. Valid(new) /\ IsMap(new) /\ k \notin Keys(new)
    BY FilledValid
<1>2. old # Nothing
    BY NotNothing DEF Kept
<1>3. After(w, old, explicit) = Without(C, E)
    BY <1>2 DEF After, Stored
<1> HIDE DEF new
<1>4. Valid(P) /\ IsMap(P) /\ Below(P, {k}) = Below(old, {k})
    BY <1>1, PatchValid DEF Kept
<1> HIDE DEF P
<1>5. k \in Keys(P) /\ At(P, k) = At(old, k)
    BY <1>4, AtBelow
<1>6. Below(C, {k}) = Below(old, {k})
    <2>1. CASE kind = "environment"
        <3> DEFINE c == IF "config" \in Keys(P) THEN At(P, "config") ELSE NoField
        <3>1. C = Field("config", StoredConfig(c)) ++ P
            BY <2>1 DEF Completed, StoredEnvironment
        <3>2. Valid(StoredConfig(c)) /\ Complete(StoredConfig(c))
            BY <1>4, ValidAt, ValidNone, ConfigComplete
        <3>3. StoredConfig(c) # {} /\ IsTree(StoredConfig(c))
            BY <3>2 DEF Complete, IsMap
        <3>4. CASE k = "config"
            <4>1. c = At(old, "config") /\ Complete(c)
                BY <1>5, <2>1, <3>4 DEF Kept
            <4>2. StoredConfig(c) = At(P, "config")
                BY <1>5, <3>4, <4>1, ConfigSame
            <4>3. C = P
                BY <1>4, <1>5, <3>1, <3>4, <4>2, FieldSame DEF Valid
            <4> QED
                BY <4>3, <1>4
        <3>5. CASE k # "config"
            <4>1. k \notin Keys(Field("config", StoredConfig(c)))
                BY <3>3, <3>5, FieldTree
            <4>2. Below(Field("config", StoredConfig(c)) ++ P, {k}) = Below(P, {k})
                BY <4>1, BelowBoth
            <4> QED
                BY <4>2, <3>1, <1>4
        <3> QED
            BY <3>4, <3>5
    <2>2. CASE kind = "credential"
        <3>1. C = Sub(P, "auth", StoredAuth) ++ P
            BY <2>2 DEF Completed, StoredCredential
        <3>2. CASE k = "auth"
            <4>1. StoredAuth(At(P, "auth")) = At(P, "auth")
                BY <1>5, <2>2, <3>2 DEF Kept
            <4>2. Sub(P, "auth", StoredAuth) = Field("auth", At(P, "auth"))
                BY <1>5, <3>2, <4>1 DEF Sub
            <4>3. C = P
                BY <1>4, <1>5, <3>1, <3>2, <4>2, FieldSame DEF Valid
            <4> QED
                BY <4>3, <1>4
        <3>3. CASE k # "auth"
            <4>1. k \notin Keys(Sub(P, "auth", StoredAuth))
                <5>1. IsTree(StoredAuth(At(P, "auth")))
                    BY <1>4, ValidAt, AuthValid DEF Valid
                <5> QED
                    BY <5>1, <3>3, FieldTree, KeysNone DEF Sub
            <4>2. Below(Sub(P, "auth", StoredAuth) ++ P, {k}) = Below(P, {k})
                BY <4>1, BelowBoth
            <4> QED
                BY <4>2, <3>1, <1>4
        <3> QED
            BY <3>2, <3>3
    <2>3. CASE kind \notin {"environment", "credential"}
        BY <2>3, <1>4 DEF Completed
    <2> QED
        BY <2>1, <2>2, <2>3
<1> HIDE DEF C
<1>7. k \notin E
    <2> SUFFICES ASSUME NEW m \in C, Len(m[1]) = 1, m[2] = "[]", m[1][1] = k,
                        Below(C, {k}) = {m}
                 PROVE  FALSE
        BY DEF EmptyLists
    <2>1. Below(old, {k}) = {m} /\ m \in old
        BY <1>6 DEF Below
    <2>2. k \in EmptyLists(old)
        BY <2>1 DEF EmptyLists
    <2> QED
        BY <2>2 DEF Kept
<1>8. Below(Without(C, E), {k}) = Below(old, {k})
    BY <1>6, <1>7, BelowWithout
<1> QED
    BY <1>3, <1>8, AtBelow

---------------------------------------------------------------------------
(* Manifests and what becomes of them. *)

\* A manifest with another value for a field.
LEMMA ManifestWith ==
    ASSUME NEW k \in DOMAIN Base, NEW f \in DOMAIN Options[k], NEW v \in Options[k][f],
           NEW p, Manifest(p)
    PROVE  Manifest(Field(f, v) ++ p) /\ Keys(p) \subseteq Keys(Field(f, v) ++ p)
<1> DEFINE F == Field(f, v)
           q == F ++ p
<1>1. IsTree(v) /\ Admitted(f, v)
    BY ManifestAssumption
<1>2. IsTree(F) /\ Root(F) = NoField /\ Keys(F) \subseteq {f} /\ At(F, f) = v
    BY <1>1, FieldTree, AtField
<1> HIDE DEF F
<1>3. IsTree(q) /\ Root(q) = NoField /\ Keys(q) = Keys(F) \cup Keys(p)
    <2>1. IsTree(p) /\ Root(p) = NoField
        BY DEF Manifest
    <2>2. IsTree(q)
        BY <1>2, <2>1, BothTree
    <2>3. Root(q) = Root(F)
        BY RootBoth
    <2>4. Keys(q) = Keys(F) \cup Keys(p)
        BY KeysBoth
    <2> QED
        BY <1>2, <2>1, <2>2, <2>3, <2>4
<1>4. ASSUME NEW g \in Keys(q) PROVE Admitted(g, At(q, g))
    <2>1. CASE g \in Keys(F)
        <3>1. Below(q, {g}) = Below(F, {g})
            BY <2>1, BelowBoth
        <3>2. At(q, g) = At(F, g) /\ g = f
            BY <3>1, <2>1, <1>2, AtBelow
        <3> QED
            BY <3>2, <1>1, <1>2
    <2>2. CASE g \notin Keys(F)
        <3>1. Below(q, {g}) = Below(p, {g})
            BY <2>2, BelowBoth
        <3>2. At(q, g) = At(p, g) /\ g \in Keys(p)
            BY <3>1, <2>2, <1>3, AtBelow
        <3> QED
            BY <3>2 DEF Manifest
    <2> QED
        BY <2>1, <2>2
<1> QED
    BY <1>3, <1>4 DEF Manifest, F

LEMMA SimpleManifest ==
    ASSUME NEW k \in DOMAIN Base, NEW p \in Simple[k]
    PROVE  Manifest(p) /\ Keys(Base[k]) \subseteq Keys(p)
<1>1. Simple[k] = UNION {{Field(f, v) ++ Base[k] : v \in Options[k][f]} : f \in DOMAIN Options[k]}
    BY DEF Simple
<1>2. PICK f \in DOMAIN Options[k] : \E v \in Options[k][f] : p = Field(f, v) ++ Base[k]
    BY <1>1
<1>3. PICK v \in Options[k][f] : p = Field(f, v) ++ Base[k]
    BY <1>2
<1>4. Manifest(Base[k])
    BY ManifestAssumption
<1> QED
    BY <1>3, <1>4, ManifestWith

\* A manifest that loses a field.
LEMMA ManifestWithout ==
    ASSUME NEW p, Manifest(p), NEW k
    PROVE  Manifest(Without(p, {k})) /\ Keys(Without(p, {k})) = Keys(p) \ {k}
<1> DEFINE q == Without(p, {k})
<1>1. IsTree(q) /\ Root(q) = NoField /\ Keys(q) = Keys(p) \ {k}
    BY OnlyTree, RootOnly, KeysOnly DEF Manifest
<1>2. ASSUME NEW g \in Keys(q) PROVE Admitted(g, At(q, g))
    <2>1. g \in Keys(p) /\ g # k
        BY <1>1
    <2>2. Below(q, {g}) = Below(p, {g})
        BY <2>1, BelowWithout
    <2>3. At(q, g) = At(p, g)
        BY <2>2, AtBelow
    <2> QED
        BY <2>1, <2>3 DEF Manifest
<1> QED
    BY <1>1, <1>2 DEF Manifest

LEMMA ObservationMap ==
    ASSUME NEW k \in DOMAIN Base, NEW r, IsMap(r)
    PROVE  IsMap(FromAnthropicObservation(k, r))
<1>1. k \in {"agent", "deployment", "session", "environment", "credential"}
    BY KindsAssumption
<1>2. \A K, L : IsMap(Fields(r, K, L))
    BY MapOnly
<1>3. IsMap(Field("id", Leaf(OwnId)))
    BY LeafTree, FieldTree
<1>4. CASE k = "agent"
    BY <1>3, <1>4, MapBoth DEF FromAnthropicObservation, agentFromAnthropicObservation
<1>5. CASE k = "deployment"
    BY <1>2, <1>5, MapBoth DEF FromAnthropicObservation, deploymentFromAnthropicObservation
<1>6. CASE k = "session"
    BY <1>2, <1>6, MapBoth DEF FromAnthropicObservation, sessionFromAnthropicObservation
<1>7. CASE k = "environment"
    BY <1>2, <1>7, MapBoth DEF FromAnthropicObservation, environmentFromAnthropicObservation
<1>8. CASE k = "credential"
    BY <1>2, <1>8, MapBoth DEF FromAnthropicObservation, credentialFromAnthropicObservation
<1> QED
    BY <1>1, <1>4, <1>5, <1>6, <1>7, <1>8

\* The resource after a request that the API has accepted.
LEMMA AcceptedKept ==
    ASSUME kind \in DOMAIN Base, NEW p, Manifest(p), NEW keys,
           NEW w \in {ToAnthropicNew(kind, p, keys), ToAnthropicUpdate(kind, p, keys)},
           NEW old, old = Nothing \/ Kept(kind, old), Accepted(w, old), NEW explicit
    PROVE  Valid(w) /\ IsMap(w) /\ Kept(kind, After(w, old, explicit))
<1>1. IsTree(w)
    BY RequestSent DEF Sent
<1>2. Valid(w)
    BY <1>1 DEF Accepted, Valid
<1>3. IsMap(w)
    BY RequestMap
<1> QED
    BY <1>2, <1>3, AfterKept

\* The resource after others have cleared a field.
LEMMA ClearedKept ==
    ASSUME NEW x, Kept(kind, x), NEW k
    PROVE  Kept(kind, Stored(Without(x, {k})))
<1>1. Valid(Without(x, {k})) /\ IsMap(Without(x, {k}))
    BY OnlyTree, MapOnly DEF Kept, Valid, Rejected
<1> QED
    BY <1>1, StoredKept

---------------------------------------------------------------------------
(***************************************************************************)
(* The inductive invariant.  The resource is as the API keeps it, the      *)
(* worker has a manifest, and the request just sent is one that was made   *)
(* of a manifest with the Secrets as they are: all that is said of a       *)
(* request follows from how it was made.                                   *)
(***************************************************************************)
ResourceKept == ext = Nothing \/ Kept(kind, ext)

WorkAdmitted == pc = "observed" => Manifest(work) /\ Kept(kind, ext)

RequestMade ==
    \/ sent = NoRequest
    \/ /\ Manifest(sent.of)
       /\ Sent(sent.params, sent.of, secrets, SecretsFor(kind, sent.of))
       /\ TokensIn(sent.params, sent.of, secrets)

IInv == TypeOK /\ ResourceKept /\ WorkAdmitted /\ RequestMade

LEMMA SecretsType == FirstSecrets \in Secrets
<1>1. (CHOOSE v \in SecretValue : TRUE) \in SecretValue
    BY TextAssumption
<1> QED
    BY <1>1 DEF FirstSecrets, Secrets

LEMMA IInvInit == Init => IInv
<1> SUFFICES ASSUME Init PROVE IInv
    OBVIOUS
<1>1. kind \in DOMAIN Base /\ secrets \in Secrets /\ Manifest(Base[kind])
    BY SecretsType, ManifestAssumption DEF Init
<1>2. ASSUME NEW one \in Simple[kind] PROVE Manifest(one) /\ Keys(Base[kind]) \subseteq Keys(one)
    BY <1>1, SimpleManifest
<1>3. 0 \in 0..MaxEdits /\ 1 \in 0..MaxEdits
    BY BoundAssumption
<1> DEFINE Good == /\ Manifest(spec) /\ Keys(Base[kind]) \subseteq Keys(spec)
                   /\ ResourceKept /\ edits \in 0..MaxEdits
<1>4. ASSUME NEW one \in Simple[kind], NEW f \in DOMAIN Options[kind], NEW v \in Options[kind][f],
             spec = Field(f, v) ++ one, ext = Nothing, edits = 0
      PROVE  Good
    <2>1. Manifest(spec) /\ Keys(one) \subseteq Keys(spec)
        BY <1>1, <1>2, <1>4, ManifestWith
    <2> QED
        BY <1>2, <1>3, <1>4, <2>1 DEF ResourceKept
<1>5. ASSUME NEW other \in Simple[kind], Accepted(ToAnthropicNew(kind, other, FirstSecrets), Nothing),
             ext = After(ToAnthropicNew(kind, other, FirstSecrets), Nothing, FALSE),
             spec \in Simple[kind], edits = 1
      PROVE  Good
    <2>1. Kept(kind, ext)
        BY <1>1, <1>2, <1>5, AcceptedKept
    <2> QED
        BY <1>2, <1>3, <1>5, <2>1 DEF ResourceKept
<1>6. Good
    BY <1>4, <1>5 DEF Init
<1>7. ~IsMap(work) /\ ~IsMap(seen) /\ pc = "idle" /\ quiet = FALSE /\ sent = NoRequest
    BY NotNothing DEF Init
<1> QED
    BY <1>1, <1>6, <1>7
    DEF IInv, TypeOK, ResourceKept, WorkAdmitted, RequestMade, Kept, Valid, Secrets

LEMMA EditCounted ==
    ASSUME edits \in 0..MaxEdits, Edit
    PROVE  edits' \in 0..MaxEdits /\ edits' # edits /\ quiet' \in BOOLEAN
<1>1. edits < MaxEdits /\ edits' = edits + 1
    BY DEF Edit
<1>2. quiet' \in BOOLEAN
    BY DEF Edit
<1> QED
    BY <1>1, <1>2, BoundAssumption

LEMMA EditSpecNext ==
    ASSUME IInv, EditSpec
    PROVE  IInv'
<1>1. PICK k \in DOMAIN Options[kind] :
        \/ \E v \in Options[kind][k] : spec' = Field(k, v) ++ spec
        \/ k \notin Keys(Base[kind]) /\ spec' = Without(spec, {k})
    BY DEF EditSpec
<1>2. kind \in DOMAIN Base /\ Manifest(spec) /\ Keys(Base[kind]) \subseteq Keys(spec)
    BY DEF IInv, TypeOK
<1>3. Manifest(spec') /\ Keys(Base[kind]) \subseteq Keys(spec')
    <2>1. ASSUME NEW v \in Options[kind][k], spec' = Field(k, v) ++ spec
          PROVE  Manifest(spec') /\ Keys(Base[kind]) \subseteq Keys(spec')
        <3>1. Manifest(Field(k, v) ++ spec) /\ Keys(spec) \subseteq Keys(Field(k, v) ++ spec)
            BY <1>2, ManifestWith
        <3> QED
            BY <3>1, <2>1, <1>2
    <2>2. ASSUME k \notin Keys(Base[kind]), spec' = Without(spec, {k})
          PROVE  Manifest(spec') /\ Keys(Base[kind]) \subseteq Keys(spec')
        <3>1. Manifest(Without(spec, {k})) /\ Keys(Without(spec, {k})) = Keys(spec) \ {k}
            BY <1>2, ManifestWithout
        <3> QED
            BY <3>1, <2>2, <1>2
    <2> QED
        BY <1>1, <2>1, <2>2
<1>4. edits' \in 0..MaxEdits /\ quiet' \in BOOLEAN
    BY EditCounted DEF IInv, TypeOK, EditSpec
<1>5. sent' = NoRequest /\ UNCHANGED <<kind, pc, work, seen, secrets, ext>>
    BY DEF EditSpec, Edit
<1>6. TypeOK'
    BY <1>3, <1>4, <1>5 DEF IInv, TypeOK
<1>7. ResourceKept' /\ WorkAdmitted' /\ RequestMade'
    BY <1>5 DEF IInv, ResourceKept, WorkAdmitted, RequestMade
<1> QED
    BY <1>6, <1>7 DEF IInv

LEMMA RotateNext ==
    ASSUME IInv, Rotate
    PROVE  IInv'
<1>1. secrets' \in [Key -> SecretValue]
    <2>1. PICK r \in {l[2] : l \in Leaves(spec)} \cap Key, v \in SecretValue :
            secrets' = [secrets EXCEPT ![r] = v]
        BY DEF Rotate
    <2> QED
        BY <2>1 DEF IInv, TypeOK
<1>2. edits' \in 0..MaxEdits /\ quiet' \in BOOLEAN
    BY EditCounted DEF IInv, TypeOK, Rotate
<1>3. sent' = NoRequest /\ UNCHANGED <<kind, pc, work, seen, spec, ext>>
    BY DEF Rotate, Edit
<1>4. TypeOK'
    BY <1>1, <1>2, <1>3 DEF IInv, TypeOK
<1>5. ResourceKept' /\ WorkAdmitted' /\ RequestMade'
    BY <1>3 DEF IInv, ResourceKept, WorkAdmitted, RequestMade
<1> QED
    BY <1>4, <1>5 DEF IInv

LEMMA OutOfBandNext ==
    ASSUME IInv, OutOfBand
    PROVE  IInv'
<1>1. kind \in DOMAIN Base /\ Manifest(Base[kind]) /\ Kept(kind, ext)
    BY ManifestAssumption DEF IInv, TypeOK, ResourceKept, OutOfBand
<1>2. Kept(kind, ext')
    <2>1. ASSUME NEW params \in OtherUpdates[kind], Accepted(params, ext), ext' = After(params, ext, FALSE)
          PROVE  Kept(kind, ext')
        <3>1. PICK p \in Simple[kind] : params = ToAnthropicUpdate(kind, p, FirstSecrets)
            BY <1>1 DEF OtherUpdates
        <3>2. Manifest(p)
            BY <1>1, SimpleManifest
        <3> QED
            BY <1>1, <2>1, <3>1, <3>2, AcceptedKept
    <2>2. ASSUME NEW k, ext' = Stored(Without(ext, {k}))
          PROVE  Kept(kind, ext')
        BY <1>1, <2>2, ClearedKept
    <2> QED
        BY <2>1, <2>2 DEF OutOfBand
<1>3. edits' \in 0..MaxEdits /\ quiet' \in BOOLEAN
    BY EditCounted DEF IInv, TypeOK, OutOfBand
<1>4. sent' = NoRequest /\ UNCHANGED <<kind, pc, work, seen, spec, secrets>>
    BY DEF OutOfBand, Edit
<1>5. TypeOK'
    BY <1>2, <1>3, <1>4 DEF IInv, TypeOK, Kept, Valid
<1>6. ResourceKept' /\ WorkAdmitted' /\ RequestMade'
    BY <1>2, <1>4 DEF IInv, ResourceKept, WorkAdmitted, RequestMade
<1> QED
    BY <1>5, <1>6 DEF IInv

LEMMA CreateNext ==
    ASSUME IInv, Create
    PROVE  IInv'
<1> DEFINE params == ToAnthropicNew(kind, spec, secrets)
<1>1. kind \in DOMAIN Base /\ Manifest(spec) /\ secrets \in Secrets
    BY DEF IInv, TypeOK, Secrets
<1>2. sent' = Request(params, spec) /\ UNCHANGED <<kind, spec, secrets, pc, work, seen, edits>>
    BY DEF Create
<1>3. ResourceKept' /\ quiet' \in BOOLEAN
    <2>1. CASE Accepted(params, Nothing)
        <3>1. PICK explicit \in Answers : ext' = After(params, Nothing, explicit) /\ quiet' = TRUE
            BY <2>1 DEF Create
        <3> QED
            BY <1>1, <1>2, <2>1, <3>1, AcceptedKept DEF ResourceKept
    <2>2. CASE ~Accepted(params, Nothing)
        BY <1>2, <2>2 DEF Create, IInv, TypeOK, ResourceKept
    <2> QED
        BY <2>1, <2>2
<1>4. RequestMade'
    <2>1. sent'.params = params /\ sent'.of = spec
        BY <1>2 DEF Request
    <2>2. Sent(params, spec, secrets, SecretsFor(kind, spec)) /\ TokensIn(params, spec, secrets)
        BY <1>1, RequestSent, RequestTokens
    <2> QED
        BY <1>1, <1>2, <2>1, <2>2 DEF RequestMade
<1>5. TypeOK'
    BY <1>2, <1>3 DEF IInv, TypeOK, ResourceKept, Kept, Valid
<1>6. WorkAdmitted'
    BY <1>2 DEF Create, WorkAdmitted
<1> QED
    BY <1>3, <1>4, <1>5, <1>6 DEF IInv

LEMMA ObserveNext ==
    ASSUME IInv, Observe
    PROVE  IInv'
<1>1. kind \in DOMAIN Base /\ Manifest(spec) /\ Kept(kind, ext)
    BY DEF IInv, TypeOK, ResourceKept, Observe
<1>2. IsMap(spec) /\ IsMap(FromAnthropicObservation(kind, ext))
    BY <1>1, ManifestMap, ObservationMap DEF Kept
<1>3. /\ pc' = "observed" /\ work' = spec /\ sent' = NoRequest
      /\ seen' = FromAnthropicObservation(kind, ext)
      /\ UNCHANGED <<kind, spec, secrets, ext, quiet, edits>>
    BY DEF Observe
<1>4. TypeOK'
    BY <1>2, <1>3 DEF IInv, TypeOK
<1>5. ResourceKept' /\ WorkAdmitted' /\ RequestMade'
    BY <1>1, <1>3 DEF IInv, ResourceKept, WorkAdmitted, RequestMade
<1> QED
    BY <1>4, <1>5 DEF IInv

LEMMA RestNext ==
    ASSUME IInv, Rest
    PROVE  IInv'
<1>1. ~IsMap(Nothing)
    BY NotNothing
<1>2. /\ pc' = "idle" /\ work' = Nothing /\ seen' = Nothing /\ sent' = NoRequest
      /\ UNCHANGED <<kind, spec, secrets, ext, quiet, edits>>
    BY DEF Rest, Return
<1>3. TypeOK'
    BY <1>1, <1>2 DEF IInv, TypeOK
<1>4. ResourceKept' /\ WorkAdmitted' /\ RequestMade'
    BY <1>2 DEF IInv, ResourceKept, WorkAdmitted, RequestMade
<1> QED
    BY <1>3, <1>4 DEF IInv

LEMMA UpdateNext ==
    ASSUME IInv, Update
    PROVE  IInv'
<1> DEFINE params == ToAnthropicUpdate(kind, work, secrets)
<1>1. kind \in DOMAIN Base /\ Manifest(work) /\ secrets \in Secrets
    BY DEF IInv, TypeOK, Secrets, WorkAdmitted, Update
<1>2. /\ sent' = Request(params, work) /\ pc' = "idle" /\ work' = Nothing /\ seen' = Nothing
      /\ UNCHANGED <<kind, spec, secrets, edits>>
    BY DEF Update, Return
<1>3. ResourceKept' /\ quiet' \in BOOLEAN
    <2>1. CASE Accepted(params, ext)
        <3>1. PICK explicit \in Answers :
                ext' = After(params, ext, explicit) /\ quiet' = (work = spec)
            BY <2>1 DEF Update
        <3>2. Kept(kind, ext')
            BY <1>1, <2>1, <3>1, AcceptedKept DEF IInv, ResourceKept
        <3> QED
            BY <1>2, <3>1, <3>2 DEF ResourceKept
    <2>2. CASE ~Accepted(params, ext)
        BY <1>2, <2>2 DEF Update, IInv, TypeOK, ResourceKept
    <2> QED
        BY <2>1, <2>2
<1>4. RequestMade'
    <2>1. sent'.params = params /\ sent'.of = work
        BY <1>2 DEF Request
    <2>2. Sent(params, work, secrets, SecretsFor(kind, work)) /\ TokensIn(params, work, secrets)
        BY <1>1, RequestSent, RequestTokens
    <2> QED
        BY <1>1, <1>2, <2>1, <2>2 DEF RequestMade
<1>5. ~IsMap(Nothing)
    BY NotNothing
<1>6. TypeOK'
    BY <1>2, <1>3, <1>5 DEF IInv, TypeOK, ResourceKept, Kept, Valid
<1>7. WorkAdmitted'
    BY <1>2 DEF WorkAdmitted
<1> QED
    BY <1>3, <1>4, <1>6, <1>7 DEF IInv

LEMMA IInvNext == IInv /\ [Next]_vars => IInv'
<1> SUFFICES ASSUME IInv, [Next]_vars PROVE IInv'
    OBVIOUS
<1>1. CASE UNCHANGED vars
    BY <1>1 DEF vars, IInv, TypeOK, ResourceKept, WorkAdmitted, RequestMade
<1> QED
    BY <1>1, EditSpecNext, RotateNext, OutOfBandNext, CreateNext, ObserveNext, RestNext, UpdateNext
       DEF Next

\* The strengthened invariant always holds.
THEOREM IInvAlways == Spec => []IInv
BY IInvInit, IInvNext, PTL DEF Spec

---------------------------------------------------------------------------
(***************************************************************************)
(* The theorems.                                                           *)
(***************************************************************************)

\* Whatever the users edit and whatever the API makes of a request, the manifest
\* stays one that the CRD admits, and the resource one that the API would accept.
THEOREM TypeCorrect == Spec => []TypeOK
<1>1. IInv => TypeOK
    BY DEF IInv
<1> QED
    BY <1>1, IInvAlways, PTL

\* Secrets go where they belong: a secret in a request comes from the reference of
\* the same entry of the manifest, for that purpose and that variant; and every
\* repository gets its own token.
THEOREM SecretsSafe == Spec => []SecretsGoWhereTheyBelong
<1>1. IInv => SecretsGoWhereTheyBelong
    <2> SUFFICES ASSUME IInv PROVE SecretsGoWhereTheyBelong
        OBVIOUS
    <2> DEFINE params == sent.params
               of     == sent.of
               for    == SecretsFor(kind, of)
    <2>1. CASE sent = NoRequest
        <3>1. params = Nothing
            BY <2>1 DEF NoRequest, Request
        <3>2. \A n \in Nothing : n[2] = "nothing"
            BY LeafTree DEF Nothing
        <3>3. "resources" \notin Keys(params)
            BY <3>1, KeysNone
        <3> QED
            BY <3>1, <3>2, <3>3 DEF SecretsGoWhereTheyBelong, Leaves
    <2>2. CASE sent # NoRequest
        <3>1. Sent(params, of, secrets, for) /\ TokensIn(params, of, secrets) /\ kind \in DOMAIN Base
            BY <2>2 DEF IInv, TypeOK, RequestMade
        <3>2. ASSUME NEW n \in Leaves(params) \ of, n[2] \notin {"", "nothing"}, n[1] # <<>>,
                     Last(n[1]) \in Purpose
              PROVE  /\ \E r \in Key :
                            /\ <<Append(Front(n[1]), SecretFields[Last(n[1])].ref), r>> \in of
                            /\ n[2] = secrets[r]
                     /\ kind = "credential" =>
                            Text(At(of, "auth"), "type") = SecretFields[Last(n[1])].type
            <4>1. n \in params /\ n \notin of /\ n[2] \notin {"{}", "", "nothing"}
                BY <3>2 DEF Leaves
            <4>2. IsNode(n) /\ SentNode(n, of, secrets, for)
                BY <3>1, <4>1, Nodes DEF Sent
            <4>3. SecretNode(n, of, secrets, for)
                BY <3>2, <4>1, <4>2, SecretSent
            <4>4. kind = "credential" =>
                    Text(At(of, "auth"), "type") = SecretFields[Last(n[1])].type
                BY <3>1, <4>3, SecretsForKind DEF SecretNode
            <4> QED
                BY <4>3, <4>4 DEF SecretNode
        <3> QED
            BY <3>1, <3>2 DEF SecretsGoWhereTheyBelong, TokensIn, Purpose
    <2> QED
        BY <2>1, <2>2
<1> QED
    BY <1>1, IInvAlways, PTL

\* Nothing is made up: every value in a request is in the manifest it was made of,
\* at the place it is sent from, but for what the conversions add by name.
THEOREM RequestsAsAsked == Spec => []SentAsAsked
<1>1. IInv => SentAsAsked
    <2> SUFFICES ASSUME IInv, NEW n \in Leaves(sent.params), n[2] \notin {"", "nothing"}
                 PROVE  \/ <<Renamed(n[1]), n[2]>> \in sent.of
                        \/ n[1] # <<>> /\ (Last(n[1]) \in DOMAIN SecretFields \/ Added(n, sent.of))
        BY DEF SentAsAsked
    <2>1. n \in sent.params /\ n[2] \notin {"{}", "", "nothing"}
        BY DEF Leaves
    <2>2. sent # NoRequest
        <3>1. NoRequest.params = Nothing
            BY DEF NoRequest, Request
        <3>2. \A m \in Nothing : m[2] = "nothing"
            BY LeafTree DEF Nothing
        <3> QED
            BY <2>1, <3>1, <3>2
    <2>3. Sent(sent.params, sent.of, secrets, SecretsFor(kind, sent.of)) /\ kind \in DOMAIN Base
        BY <2>2 DEF IInv, TypeOK, RequestMade
    <2>4. SentNode(n, sent.of, secrets, SecretsFor(kind, sent.of))
        BY <2>1, <2>3 DEF Sent
    <2>5. SecretsFor(kind, sent.of) \subseteq DOMAIN SecretFields
        BY <2>3, SecretsForKind DEF Purpose
    <2> QED
        BY <2>1, <2>4, <2>5 DEF SentNode, SecretNode
<1> QED
    BY <1>1, IInvAlways, PTL

\* Update leaves alone what the manifest does not mention, whatever defaults the
\* API fills in and whatever it merges.
THEOREM UnaskedKept == Spec => UnaskedUntouched
<1>1. ASSUME IInv, [Next]_vars, pc = "observed", ext # Nothing, NEW k \in Keys(ext),
             AskedBy(k) \cap Keys(work) = {}, edits' = edits
      PROVE  k \in Keys(ext') /\ At(ext', k) = At(ext, k)
    <2>1. CASE ext' = ext
        BY <1>1, <2>1
    <2>2. CASE Update /\ ext' # ext
        <3> DEFINE params == ToAnthropicUpdate(kind, work, secrets)
        <3>1. kind \in DOMAIN Base /\ Manifest(work) /\ Kept(kind, ext)
            BY <1>1 DEF IInv, TypeOK, ResourceKept, WorkAdmitted
        <3>2. Accepted(params, ext)
            BY <2>2 DEF Update
        <3>3. PICK explicit \in Answers : ext' = After(params, ext, explicit)
            BY <2>2, <3>2 DEF Update
        <3>4. Valid(params) /\ IsMap(params)
            BY <3>1, <3>2, AcceptedKept
        <3>5. k \notin Keys(params)
            BY <1>1, <3>1, UpdateKeys DEF Asked
        <3> QED
            BY <3>1, <3>3, <3>4, <3>5, AfterUntouched
    <2>3. CASE EditSpec \/ Rotate \/ OutOfBand
        <3>1. edits' # edits
            BY <1>1, <2>3, EditCounted DEF IInv, TypeOK, EditSpec, Rotate, OutOfBand
        <3> QED
            BY <1>1, <3>1
    <2> QED
        BY <1>1, <2>1, <2>2, <2>3 DEF Next, Create, Observe, Rest, vars
<1>2. IInv /\ [Next]_vars =>
        [pc = "observed" /\ ext # Nothing =>
            \A k \in Keys(ext) :
                AskedBy(k) \cap Keys(work) = {} /\ edits' = edits =>
                    k \in Keys(ext') /\ At(ext', k) = At(ext, k)]_vars
    BY <1>1
<1> QED
    BY <1>2, IInvAlways, PTL DEF Spec, UnaskedUntouched
=============================================================================
