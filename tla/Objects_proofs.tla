----------------------------- MODULE Objects_proofs -----------------------------
(***************************************************************************)
(* An object of any size, shape and nesting is read back as it was         *)
(* written, and the strings that it holds stay where its views point to:   *)
(* the theorems of ObjectFormat, then those of StringSlabs.                *)
(*                                                                         *)
(* Writer and reader are two runs of one recursion over the nodes in their *)
(* order, so the invariant says of each how far it is, m nodes, and that   *)
(* its state is a function of m: the open calls are a path from the root   *)
(* (Walk) whose frames have the children after m (Frames), the stream has  *)
(* m headers at places that the roles of the nodes determine (HeadersIn),  *)
(* and the lists have the vectors whose calls have ended, in the order in  *)
(* which they ended (Queued).  That order, Earlier, can be read off the    *)
(* tree, so the lists of the reader are those the writer flushed.          *)
(***************************************************************************)
EXTENDS ObjectFormat, StringSlabs, FiniteSetTheorems, SequenceTheorems, TLAPS

--------------------------------------------------------------------------------
(* Least and greatest numbers *)

LEMMA Least ==
    ASSUME NEW S \in SUBSET Nat, S # {}
    PROVE  \E x \in S : \A y \in S : x <= y
<1>1. PICK x \in S : \A y \in S : ~(<<y, x>> \in OpToRel(<, Nat))
  BY NatLessThanWellFounded, WFMin
<1>2. ASSUME NEW y \in S PROVE x <= y
  <2>1. y < x => <<y, x>> \in OpToRel(<, Nat)
    BY DEF OpToRel
  <2>2. ~(y < x)
    BY <1>1, <2>1, Zenon
  <2> QED
    BY <2>2
<1> QED
  BY <1>1, <1>2

LEMMA Greatest ==
    ASSUME NEW S \in SUBSET Nat, S # {}, NEW bound \in Nat, \A y \in S : y <= bound
    PROVE  \E x \in S : \A y \in S : x >= y
<1> DEFINE T == {bound - y : y \in S}
<1>1. T \in SUBSET Nat /\ T # {}
  <2>1. \A y \in S : bound - y \in Nat
    OBVIOUS
  <2> QED
    BY <2>1
<1>2. PICK d \in T : \A e \in T : d <= e
  <2> HIDE DEF T
  <2> QED
    BY <1>1, Least
<1>3. PICK x \in S : d = bound - x
  BY <1>2
<1>4. \A y \in S : d <= bound - y
  BY <1>2
<1> QED
  BY <1>3, <1>4

LEMMA MinIs ==
    ASSUME NEW S \in SUBSET Nat, NEW x \in S, \A y \in S : x <= y
    PROVE  Min(S) = x
<1>1. \E y \in S : \A z \in S : y <= z
  OBVIOUS
<1>2. PICK z \in S : z = Min(S) /\ \A y \in S : z <= y
  BY <1>1 DEF Min
<1>3. z <= x /\ x <= z
  BY <1>2
<1> QED
  BY <1>2, <1>3

LEMMA MaxIs ==
    ASSUME NEW S \in SUBSET Nat, S # {}, NEW bound \in Nat, \A y \in S : y <= bound
    PROVE  Max(S) \in S /\ \A y \in S : Max(S) >= y
<1>1. \E x \in S : \A y \in S : x >= y
  BY Greatest
<1> QED
  BY <1>1 DEF Max

--------------------------------------------------------------------------------
(* Objects and walks *)

Size(o) == Cardinality(DOMAIN o.type)

IsObject(o) ==
    /\ Size(o) \in Nat \ {0}
    /\ DOMAIN o.type = 1..Size(o)
    /\ \A j \in 1..Size(o) : o.type[j] \in Types
    /\ \A j \in 2..Size(o) : o.role[j] \in {"attribute", "element"}
    /\ Preorder(o.parent, Size(o)) /\ Roles(o.parent, o.role, o.type, Size(o))
    /\ o.full \subseteq {j \in 1..Size(o) : o.type[j] \notin {"nil", "list"}}

\* The state of a recursion over the nodes of o in their order: m nodes have been
\* entered, d calls are open, call i is on node s[i].  The open calls are a path
\* from the root; what has been entered since is below them; a node to come hangs
\* from an open call, or from a node to come.
Walk(o, s, d, m) ==
    /\ d \in Nat /\ m \in 0..Size(o) /\ (m = 0 => d = 0)
    /\ \A i \in 1..d : s[i] \in 1..m
    /\ d > 0 => s[1] = 1
    /\ \A i, j \in 1..d : i < j => s[i] < s[j]
    /\ \A i \in 2..d : o.parent[s[i]] = s[i - 1]
    /\ \A i \in 1..d : \A c \in (s[i] + 1)..m : o.parent[c] >= s[i]
    /\ \A c \in 2..Size(o) : c > m /\ o.parent[c] \in 1..m => \E i \in 1..d : s[i] = o.parent[c]

LEMMA ParentBefore ==
    ASSUME NEW o, IsObject(o), NEW j \in 2..Size(o)
    PROVE  o.parent[j] \in 1..(j - 1) /\ o.parent[j] \in Nat
  BY DEF IsObject, Preorder

\* When the last call has a child to come, that is the next node, and an
\* attribute if an attribute is to come.
LEMMA NextNode ==
    ASSUME NEW o, IsObject(o), NEW s, NEW d \in Nat \ {0}, NEW m, Walk(o, s, d, m),
           NEW c \in 2..Size(o), c > m, o.parent[c] = s[d]
    PROVE  /\ m + 1 \in 2..Size(o) /\ o.parent[m + 1] = s[d]
           /\ o.role[c] = "attribute" => o.role[m + 1] = "attribute"
<1>1. m \in 1..Size(o) /\ Size(o) \in Nat /\ s[d] \in 1..m /\ d \in 1..d
  BY DEF Walk, IsObject
<1>2. PICK e \in 2..Size(o) : e = m + 1 /\ e <= c
  BY <1>1
<1>3. o.parent[e] \in 1..m
  <2>1. o.parent[e] \in 1..(e - 1)
    BY ParentBefore
  <2> QED
    BY <1>1, <1>2, <2>1
<1>4. PICK i \in 1..d : s[i] = o.parent[e]
  BY <1>1, <1>2, <1>3 DEF Walk
<1>5. o.parent[e] >= s[d]
  <2>1. CASE e = c
    BY <1>1, <2>1
  <2>2. CASE e # c
    <3>1. e \in (o.parent[c] + 1)..(c - 1)
      BY <1>1, <1>2, <2>2
    <3> QED
      BY <3>1 DEF IsObject, Preorder
  <2> QED
    BY <2>1, <2>2
<1>6. o.parent[e] = s[d]
  <2>1. CASE i = d
    BY <1>4, <2>1
  <2>2. CASE i # d
    <3>1. i < d
      BY <2>2
    <3>2. s[i] < s[d]
      BY <1>1, <3>1 DEF Walk
    <3> QED
      BY <1>1, <1>3, <1>4, <1>5, <3>2
  <2> QED
    BY <2>1, <2>2
<1>7. o.role[c] = "attribute" => o.role[e] = "attribute"
  <2> SUFFICES ASSUME o.role[c] = "attribute", o.role[e] = "element" PROVE FALSE
    BY DEF IsObject
  <2>1. c # e
    OBVIOUS
  <2>2. c \in (e + 1)..Size(o)
    BY <1>1, <1>2, <2>1
  <2>3. o.parent[c] = o.parent[e]
    BY <1>6
  <2> QED
    BY <2>2, <2>3 DEF IsObject, Roles
<1> QED
  BY <1>1, <1>2, <1>6, <1>7

LEMMA WalkRoot ==
    ASSUME NEW o, IsObject(o), NEW s, s[1] = 1
    PROVE  Walk(o, s, 1, 1)
<1>1. Size(o) \in Nat \ {0}
  BY DEF IsObject
<1>2. \A c \in 2..Size(o) : c > 1 /\ o.parent[c] \in 1..1 => \E i \in 1..1 : s[i] = o.parent[c]
  OBVIOUS
<1> QED
  BY <1>1, <1>2 DEF Walk

\* The next node is entered from the last call.
LEMMA WalkPush ==
    ASSUME NEW o, IsObject(o), NEW s, NEW d \in Nat \ {0}, NEW m, Walk(o, s, d, m),
           m + 1 \in 2..Size(o), o.parent[m + 1] = s[d],
           NEW t, \A i \in 1..d : t[i] = s[i], t[d + 1] = m + 1
    PROVE  Walk(o, t, d + 1, m + 1)
<1>1. m \in 1..Size(o) /\ Size(o) \in Nat /\ d \in 1..d /\ \A i \in 1..d : s[i] \in 1..m
  BY DEF Walk, IsObject
<1>2. PICK e \in 2..Size(o) : e = m + 1
  OBVIOUS
<1>3. PICK f \in Nat \ {0} : f = d + 1
  OBVIOUS
<1>4. \A i \in 1..f : t[i] \in 1..e
  BY <1>1, <1>2, <1>3
<1>5. t[1] = 1
  BY <1>1 DEF Walk
<1>6. \A i, j \in 1..f : i < j => t[i] < t[j]
  <2> SUFFICES ASSUME NEW i \in 1..f, NEW j \in 1..f, i < j PROVE t[i] < t[j]
    OBVIOUS
  <2>1. i \in 1..d /\ t[i] = s[i]
    BY <1>3
  <2>2. CASE j = f
    BY <1>1, <1>3, <2>1, <2>2
  <2>3. CASE j # f
    <3>1. j \in 1..d
      BY <1>3, <2>3
    <3> QED
      BY <2>1, <3>1 DEF Walk
  <2> QED
    BY <2>2, <2>3
<1>7. \A i \in 2..f : o.parent[t[i]] = t[i - 1]
  <2> SUFFICES ASSUME NEW i \in 2..f PROVE o.parent[t[i]] = t[i - 1]
    OBVIOUS
  <2>1. PICK h \in 1..d : h = i - 1
    BY <1>3
  <2>2. t[h] = s[h]
    OBVIOUS
  <2>3. CASE i = f
    BY <1>2, <1>3, <2>1, <2>2, <2>3
  <2>4. CASE i # f
    <3>1. i \in 2..d /\ i \in 1..d
      BY <1>3, <2>4
    <3>2. o.parent[s[i]] = s[i - 1]
      BY <3>1 DEF Walk
    <3> QED
      BY <2>1, <2>2, <3>1, <3>2
  <2> QED
    BY <2>3, <2>4
<1>8. \A i \in 1..f : \A c \in (t[i] + 1)..e : o.parent[c] >= t[i]
  <2> SUFFICES ASSUME NEW i \in 1..f, NEW c \in (t[i] + 1)..e PROVE o.parent[c] >= t[i]
    OBVIOUS
  <2>1. i \in 1..d
    BY <1>1, <1>2, <1>3, <1>4
  <2>2. t[i] = s[i]
    BY <2>1
  <2>3. CASE c = e
    <3>1. s[d] >= s[i]
      <4>1. i = d \/ i < d
        BY <2>1
      <4>2. s[i] \in Nat /\ s[d] \in Nat
        BY <1>1, <2>1
      <4> QED
        BY <1>1, <2>1, <4>1, <4>2 DEF Walk
    <3> QED
      BY <1>2, <2>2, <2>3, <3>1
  <2>4. CASE c # e
    <3>1. c \in (s[i] + 1)..m
      BY <1>1, <1>2, <2>1, <2>2, <2>4
    <3> QED
      BY <2>1, <2>2, <3>1 DEF Walk
  <2> QED
    BY <2>3, <2>4
<1>9. \A c \in 2..Size(o) : c > e /\ o.parent[c] \in 1..e => \E i \in 1..f : t[i] = o.parent[c]
  <2> SUFFICES ASSUME NEW c \in 2..Size(o), c > e, o.parent[c] \in 1..e
               PROVE  \E i \in 1..f : t[i] = o.parent[c]
    OBVIOUS
  <2>1. CASE o.parent[c] = e
    BY <1>2, <1>3, <2>1
  <2>2. CASE o.parent[c] # e
    <3>1. o.parent[c] \in 1..m /\ c > m
      BY <1>1, <1>2, <2>2
    <3>2. PICK i \in 1..d : s[i] = o.parent[c]
      BY <3>1 DEF Walk
    <3>3. i \in 1..f /\ t[i] = s[i]
      BY <1>3
    <3> QED
      BY <3>2, <3>3
  <2> QED
    BY <2>1, <2>2
<1>10. f \in Nat /\ e \in 0..Size(o) /\ e # 0
  BY <1>1, <1>2
<1>11. Walk(o, t, f, e)
  BY <1>4, <1>5, <1>6, <1>7, <1>8, <1>9, <1>10 DEF Walk
<1> QED
  BY <1>2, <1>3, <1>11

\* The last call ends when it has no child to come.
LEMMA WalkPop ==
    ASSUME NEW o, IsObject(o), NEW s, NEW d \in Nat \ {0}, NEW m, Walk(o, s, d, m),
           \A c \in 2..Size(o) : c > m => o.parent[c] # s[d],
           NEW t, \A i \in 1..(d - 1) : t[i] = s[i]
    PROVE  Walk(o, t, d - 1, m)
<1>1. m \in 1..Size(o) /\ Size(o) \in Nat /\ \A i \in 1..d : s[i] \in 1..m
  BY DEF Walk, IsObject
<1>2. PICK f \in Nat : f = d - 1
  OBVIOUS
<1>3. \A i \in 1..f : i \in 1..d /\ t[i] = s[i]
  BY <1>2
<1>4. \A c \in 2..Size(o) : c > m /\ o.parent[c] \in 1..m => \E i \in 1..f : t[i] = o.parent[c]
  <2> SUFFICES ASSUME NEW c \in 2..Size(o), c > m, o.parent[c] \in 1..m
               PROVE  \E i \in 1..f : t[i] = o.parent[c]
    OBVIOUS
  <2>1. PICK i \in 1..d : s[i] = o.parent[c]
    BY DEF Walk
  <2>2. i # d
    BY <2>1
  <2>3. i \in 1..f
    BY <1>2, <2>2
  <2> QED
    BY <1>3, <2>1, <2>3
<1>5. \A i \in 2..f : o.parent[t[i]] = t[i - 1]
  <2> SUFFICES ASSUME NEW i \in 2..f PROVE o.parent[t[i]] = t[i - 1]
    OBVIOUS
  <2>1. i \in 1..f /\ i - 1 \in 1..f /\ i \in 2..d
    BY <1>2
  <2> QED
    BY <1>3, <2>1 DEF Walk
<1>6. f > 0 => t[1] = 1
  BY <1>3 DEF Walk
<1>7. /\ \A i, j \in 1..f : i < j => t[i] < t[j]
      /\ \A i \in 1..f : t[i] \in 1..m
      /\ \A i \in 1..f : \A c \in (t[i] + 1)..m : o.parent[c] >= t[i]
  BY <1>3 DEF Walk
<1>8. Walk(o, t, f, m)
  BY <1>1, <1>4, <1>5, <1>6, <1>7 DEF Walk
<1> QED
  BY <1>2, <1>8

\* A walk whose calls have all ended has entered every node.
LEMMA WalkDone ==
    ASSUME NEW o, IsObject(o), NEW s, NEW m \in Nat \ {0}, Walk(o, s, 0, m)
    PROVE  m = Size(o)
<1>1. m \in 1..Size(o) /\ Size(o) \in Nat
  BY DEF Walk, IsObject
<1> SUFFICES ASSUME m # Size(o) PROVE FALSE
  OBVIOUS
<1>2. PICK e \in 2..Size(o) : e = m + 1
  BY <1>1
<1>3. o.parent[e] \in 1..(e - 1)
  BY ParentBefore
<1>4. o.parent[e] \in 1..m /\ e > m
  BY <1>1, <1>2, <1>3
<1>5. \E i \in 1..0 : s[i] = o.parent[e]
  BY <1>4 DEF Walk
<1> QED
  BY <1>5

--------------------------------------------------------------------------------
(* Depth *)

DepthOf(o) ==
    CHOOSE f : f = [k \in DOMAIN o.type |-> IF k = 1 THEN 1 ELSE f[o.parent[k]] + 1]
NestingOf(o) == Max({DepthOf(o)[k] : k \in DOMAIN o.type})

LEMMA DepthIs == Depth = DepthOf(obj) /\ Nesting = NestingOf(obj)
<1>1. Depth = DepthOf(obj)
  BY DEF Depth, DepthOf, Nodes
<1> QED
  BY <1>1 DEF Nesting, NestingOf, Nodes

\* f is the depth of the first m nodes.
DepthUpTo(o, m, f) ==
    /\ f \in [1..m -> Nat]
    /\ \A k \in 1..m : f[k] = IF k = 1 THEN 1 ELSE f[o.parent[k]] + 1

LEMMA DepthExtends ==
    ASSUME NEW o, IsObject(o), NEW m \in 1..Size(o)
    PROVE  \E f : DepthUpTo(o, m, f)
<1>1. Size(o) \in Nat
  BY DEF IsObject
<1> DEFINE Bad == {k \in 1..Size(o) : ~\E f : DepthUpTo(o, k, f)}
<1> SUFFICES ASSUME Bad # {} PROVE FALSE
  OBVIOUS
<1>2. Bad \in SUBSET Nat
  BY <1>1
<1>3. PICK k \in Bad : \A j \in Bad : k <= j
  <2> HIDE DEF Bad
  <2> QED
    BY <1>2, Least
<1>4. k \in 1..Size(o) /\ k \in Nat /\ ~\E f : DepthUpTo(o, k, f)
  BY <1>1, <1>3
<1>5. CASE k = 1
  <2>1. DepthUpTo(o, 1, [j \in 1..1 |-> 1])
    BY DEF DepthUpTo
  <2> QED
    BY <1>4, <1>5, <2>1
<1>6. CASE k # 1
  <2>1. PICK h \in 1..Size(o) : h = k - 1 /\ h \in Nat
    BY <1>1, <1>4, <1>6
  <2>2. h \notin Bad
    BY <1>3, <1>4, <2>1
  <2>3. PICK f : DepthUpTo(o, h, f)
    BY <2>1, <2>2
  <2> DEFINE g == [j \in 1..k |-> IF j = k THEN f[o.parent[k]] + 1 ELSE f[j]]
  <2>4. k \in 2..Size(o) /\ o.parent[k] \in 1..h
    <3>1. k \in 2..Size(o)
      BY <1>1, <1>4, <1>6
    <3>2. o.parent[k] \in 1..(k - 1)
      BY <3>1, ParentBefore
    <3> QED
      BY <2>1, <3>1, <3>2
  <2>5. \A j \in 1..k : j = k \/ j \in 1..h
    BY <2>1
  <2>6. g \in [1..k -> Nat]
    BY <2>3, <2>4, <2>5 DEF DepthUpTo
  <2>7. ASSUME NEW j \in 1..k PROVE g[j] = IF j = 1 THEN 1 ELSE g[o.parent[j]] + 1
    <3>1. CASE j = k
      <4>1. o.parent[k] \in 1..k /\ o.parent[k] # k
        BY <2>1, <2>4
      <4>2. g[o.parent[k]] = f[o.parent[k]]
        BY <4>1
      <4> QED
        BY <1>6, <3>1, <4>2
    <3>2. CASE j # k
      <4>1. j \in 1..h
        BY <2>5, <3>2
      <4>2. f[j] = IF j = 1 THEN 1 ELSE f[o.parent[j]] + 1
        BY <2>3, <4>1 DEF DepthUpTo
      <4>3. j # 1 => o.parent[j] \in 1..k /\ o.parent[j] # k
        <5> SUFFICES ASSUME j # 1 PROVE o.parent[j] \in 1..k /\ o.parent[j] # k
          OBVIOUS
        <5>1. j \in 2..Size(o)
          BY <1>1, <2>1, <4>1
        <5>2. o.parent[j] \in 1..(j - 1)
          BY <5>1, ParentBefore
        <5> QED
          BY <2>1, <4>1, <5>2
      <4> QED
        BY <3>2, <4>2, <4>3
    <3> QED
      BY <3>1, <3>2
  <2>8. DepthUpTo(o, k, g)
    <3> HIDE DEF g
    <3> QED
      BY <2>6, <2>7 DEF DepthUpTo
  <2> QED
    BY <1>4, <2>8
<1> QED
  BY <1>5, <1>6

\* Depth is what its definition says.
LEMMA DepthEquation ==
    ASSUME NEW o, IsObject(o), NEW k \in 1..Size(o)
    PROVE  DepthOf(o)[k] = IF k = 1 THEN 1 ELSE DepthOf(o)[o.parent[k]] + 1
<1>1. Size(o) \in Nat \ {0} /\ DOMAIN o.type = 1..Size(o)
  BY DEF IsObject
<1>2. PICK f : DepthUpTo(o, Size(o), f)
  BY <1>1, DepthExtends
<1>3. f = [j \in DOMAIN o.type |-> IF j = 1 THEN 1 ELSE f[o.parent[j]] + 1]
  BY <1>1, <1>2 DEF DepthUpTo
<1>4. DepthOf(o) = [j \in DOMAIN o.type |->
                      IF j = 1 THEN 1 ELSE DepthOf(o)[o.parent[j]] + 1]
  BY <1>3, Zenon DEF DepthOf
<1> QED
  BY <1>1, <1>4

LEMMA DepthType ==
    ASSUME NEW o, IsObject(o), NEW k \in 1..Size(o)
    PROVE  DepthOf(o)[k] \in 1..k
<1>1. Size(o) \in Nat
  BY DEF IsObject
<1> DEFINE Bad == {j \in 1..Size(o) : DepthOf(o)[j] \notin 1..j}
<1> SUFFICES ASSUME Bad # {} PROVE FALSE
  OBVIOUS
<1>2. Bad \in SUBSET Nat
  BY <1>1
<1>3. PICK j \in Bad : \A i \in Bad : j <= i
  <2> HIDE DEF Bad
  <2> QED
    BY <1>2, Least
<1>4. j \in 1..Size(o) /\ j \in Nat /\ DepthOf(o)[j] \notin 1..j
  BY <1>1, <1>3
<1>5. DepthOf(o)[j] = IF j = 1 THEN 1 ELSE DepthOf(o)[o.parent[j]] + 1
  BY <1>4, DepthEquation
<1>6. j # 1
  BY <1>4, <1>5
<1>7. o.parent[j] \in 1..(j - 1)
  <2>1. j \in 2..Size(o)
    BY <1>1, <1>4, <1>6
  <2> QED
    BY <2>1, ParentBefore
<1>8. PICK p \in 1..Size(o) : p = o.parent[j] /\ p < j
  BY <1>1, <1>4, <1>7
<1>9. DepthOf(o)[p] \in 1..p
  BY <1>3, <1>4, <1>8
<1>10. DepthOf(o)[j] = DepthOf(o)[p] + 1
  BY <1>5, <1>6, <1>8
<1> QED
  BY <1>4, <1>8, <1>9, <1>10

\* The i-th open call is at depth i.
LEMMA DepthOfCall ==
    ASSUME NEW o, IsObject(o), NEW s, NEW d, NEW m, Walk(o, s, d, m), NEW i \in 1..d
    PROVE  DepthOf(o)[s[i]] = i
<1>1. Size(o) \in Nat /\ d \in Nat /\ m \in 0..Size(o)
  BY DEF IsObject, Walk
<1> DEFINE Bad == {j \in 1..d : DepthOf(o)[s[j]] # j}
<1> SUFFICES ASSUME Bad # {} PROVE FALSE
  OBVIOUS
<1>2. Bad \in SUBSET Nat
  BY <1>1
<1>3. PICK j \in Bad : \A h \in Bad : j <= h
  <2> HIDE DEF Bad
  <2> QED
    BY <1>2, Least
<1>4. j \in 1..d /\ j \in Nat /\ DepthOf(o)[s[j]] # j
  BY <1>1, <1>3
<1>5. s[j] \in 1..Size(o) /\ s[1] = 1
  BY <1>1, <1>4 DEF Walk
<1>6. DepthOf(o)[s[j]] = IF s[j] = 1 THEN 1 ELSE DepthOf(o)[o.parent[s[j]]] + 1
  BY <1>5, DepthEquation
<1>7. j # 1
  BY <1>4, <1>5, <1>6
<1>8. PICK h \in 1..d : h = j - 1
  BY <1>1, <1>4, <1>7
<1>9. s[h] < s[j] /\ o.parent[s[j]] = s[h] /\ s[h] \in 1..m
  <2>1. j \in 2..d /\ h < j
    BY <1>4, <1>7, <1>8
  <2> QED
    BY <1>4, <1>8, <2>1 DEF Walk
<1>10. DepthOf(o)[s[h]] = h
  BY <1>3, <1>4, <1>8
<1>11. s[j] # 1
  BY <1>1, <1>5, <1>9
<1> QED
  BY <1>4, <1>6, <1>8, <1>9, <1>10, <1>11

\* The nesting is the depth of a node that is nested as deep as any.
LEMMA NestingIs ==
    ASSUME NEW o, IsObject(o)
    PROVE  /\ \A k \in 1..Size(o) : DepthOf(o)[k] <= NestingOf(o)
           /\ \E k \in 1..Size(o) : NestingOf(o) = DepthOf(o)[k]
<1>1. Size(o) \in Nat \ {0} /\ DOMAIN o.type = 1..Size(o)
  BY DEF IsObject
<1> DEFINE D == {DepthOf(o)[k] : k \in DOMAIN o.type}
<1>2. \A k \in 1..Size(o) : DepthOf(o)[k] \in Nat /\ DepthOf(o)[k] <= Size(o)
  BY <1>1, DepthType
<1>3. D \in SUBSET Nat /\ \A x \in D : x <= Size(o)
  BY <1>1, <1>2
<1>4. DepthOf(o)[1] \in D
  BY <1>1
<1>5. Max(D) \in D /\ \A x \in D : Max(D) >= x
  <2> HIDE DEF D
  <2> QED
    BY <1>1, <1>3, <1>4, MaxIs
<1>6. PICK x \in D : x = NestingOf(o) /\ \A y \in D : x >= y
  BY <1>5 DEF NestingOf
<1>7. \A k \in 1..Size(o) : DepthOf(o)[k] <= x
  BY <1>1, <1>2, <1>6
<1> QED
  BY <1>1, <1>6, <1>7

--------------------------------------------------------------------------------
(* The order in which calls end *)

\* The call on node i ends before the call on node j: it is below j, or j comes
\* when all that is below i has come.
Earlier(o, i, j) ==
    \/ i < j /\ \E c \in (i + 1)..j : o.parent[c] < i
    \/ j < i /\ \A c \in (j + 1)..i : o.parent[c] >= j

LEMMA EarlierIsOrder ==
    ASSUME NEW o, IsObject(o), NEW i \in 1..Size(o), NEW j \in 1..Size(o),
           Earlier(o, i, j), Earlier(o, j, i)
    PROVE  FALSE
<1>1. Size(o) \in Nat
  BY DEF IsObject
<1>2. ASSUME NEW a \in 1..Size(o), NEW b \in 1..Size(o), a < b, NEW c \in (a + 1)..b,
             o.parent[c] < a, o.parent[c] >= a
      PROVE  FALSE
  <2>1. c \in 2..Size(o)
    BY <1>1, <1>2
  <2>2. o.parent[c] \in Nat
    BY <2>1, ParentBefore
  <2> QED
    BY <1>1, <1>2, <2>2
<1>3. i < j \/ j < i
  BY <1>1 DEF Earlier
<1>4. CASE i < j
  <2>1. PICK c \in (i + 1)..j : o.parent[c] < i
    BY <1>1, <1>4 DEF Earlier
  <2>2. o.parent[c] >= i
    BY <1>1, <1>4, <2>1 DEF Earlier
  <2> QED
    BY <1>2, <1>4, <2>1, <2>2
<1>5. CASE j < i
  <2>1. PICK c \in (j + 1)..i : o.parent[c] < j
    BY <1>1, <1>5 DEF Earlier
  <2>2. o.parent[c] >= j
    BY <1>1, <1>5, <2>1 DEF Earlier
  <2> QED
    BY <1>2, <1>5, <2>1, <2>2
<1> QED
  BY <1>3, <1>4, <1>5

\* A call that has ended has ended before the last one that is open.
LEMMA EndedIsEarlier ==
    ASSUME NEW o, IsObject(o), NEW s, NEW d \in Nat \ {0}, NEW m, Walk(o, s, d, m),
           NEW x \in 1..m, \A i \in 1..d : s[i] # x
    PROVE  Earlier(o, x, s[d])
<1>1. /\ Size(o) \in Nat /\ m \in 1..Size(o) /\ d \in 1..d /\ 1 \in 1..d
      /\ \A i \in 1..d : s[i] \in 1..m /\ s[i] # x
  BY DEF IsObject, Walk
<1>2. s[d] < x \/ x < s[d]
  BY <1>1
<1>3. CASE s[d] < x
  <2>1. \A c \in (s[d] + 1)..x : o.parent[c] >= s[d]
    <3> SUFFICES ASSUME NEW c \in (s[d] + 1)..x PROVE o.parent[c] >= s[d]
      OBVIOUS
    <3>1. c \in (s[d] + 1)..m
      BY <1>1
    <3> QED
      BY <1>1, <3>1 DEF Walk
  <2> QED
    BY <1>3, <2>1 DEF Earlier
<1>4. CASE x < s[d]
  <2> DEFINE Above == {i \in 1..d : s[i] > x}
  <2>1. Above \in SUBSET Nat /\ d \in Above
    BY <1>1, <1>4
  <2>2. PICK i \in Above : \A j \in Above : i <= j
    <3> HIDE DEF Above
    <3> QED
      BY <2>1, Least
  <2>3. i \in 1..d /\ i \in Nat /\ s[i] > x
    BY <1>1, <2>2
  <2>4. i # 1
    <3>1. s[1] = 1
      BY DEF Walk
    <3> QED
      BY <1>1, <2>3, <3>1
  <2>5. PICK h \in 1..d : h = i - 1 /\ h < i
    BY <1>1, <2>3, <2>4
  <2>6. s[h] < x
    <3>1. h \notin Above
      BY <2>2, <2>3, <2>5
    <3> QED
      BY <1>1, <3>1
  <2>7. o.parent[s[i]] = s[h]
    <3>1. i \in 2..d
      BY <2>3, <2>4
    <3> QED
      BY <2>5, <3>1 DEF Walk
  <2>8. s[i] <= s[d]
    <3>1. i = d \/ i < d
      BY <2>3
    <3> QED
      BY <1>1, <2>3, <3>1 DEF Walk
  <2>9. s[i] \in (x + 1)..s[d]
    BY <1>1, <2>3, <2>8
  <2> QED
    BY <1>4, <2>6, <2>7, <2>9 DEF Earlier
<1> QED
  BY <1>2, <1>3, <1>4

\* The nodes with a payload whose calls have ended.
Ended(o, s, d, m) == {k \in 1..m : k \in o.full /\ \A i \in 1..d : s[i] # k}

LEMMA EndedPush ==
    ASSUME NEW o, IsObject(o), NEW s, NEW d \in Nat \ {0}, NEW m, Walk(o, s, d, m),
           NEW t, \A i \in 1..d : t[i] = s[i], t[d + 1] = m + 1
    PROVE  Ended(o, t, d + 1, m + 1) = Ended(o, s, d, m)
<1>1. PICK f \in Nat : f = d + 1
  OBVIOUS
<1>2. m \in Nat
  BY DEF IsObject, Walk
<1>3. PICK e \in Nat : e = m + 1
  BY <1>2
<1>4. ASSUME NEW k \in Ended(o, t, f, e) PROVE k \in Ended(o, s, d, m)
  <2>1. k \in 1..e /\ k \in o.full /\ \A i \in 1..f : t[i] # k
    BY DEF Ended
  <2>2. f \in 1..f /\ \A i \in 1..d : i \in 1..f
    BY <1>1
  <2>3. k # e
    BY <1>1, <1>3, <2>1, <2>2
  <2>4. k \in 1..m
    BY <1>2, <1>3, <2>1, <2>3
  <2> QED
    BY <2>1, <2>2, <2>4 DEF Ended
<1>5. ASSUME NEW k \in Ended(o, s, d, m) PROVE k \in Ended(o, t, f, e)
  <2>1. k \in 1..m /\ k \in o.full /\ \A i \in 1..d : s[i] # k
    BY DEF Ended
  <2>2. k \in 1..e /\ k # e
    BY <1>2, <1>3, <2>1
  <2>3. \A i \in 1..f : t[i] # k
    <3> SUFFICES ASSUME NEW i \in 1..f PROVE t[i] # k
      OBVIOUS
    <3>1. i \in 1..d \/ i = f
      BY <1>1
    <3> QED
      BY <1>1, <1>3, <2>1, <2>2, <3>1
  <2> QED
    BY <2>1, <2>2, <2>3 DEF Ended
<1> QED
  BY <1>1, <1>3, <1>4, <1>5

WithEnded(o, D, k) == IF k \in o.full THEN D \cup {k} ELSE D

\* t is s, of length d, without its last.
Shorter(s, d, t, f) ==
    d \in Nat \ {0} /\ f \in Nat /\ f = d - 1 /\ \A i \in 1..f : t[i] = s[i]

LEMMA EndedPop ==
    ASSUME NEW o, IsObject(o), NEW s, NEW d, NEW m, Walk(o, s, d, m),
           NEW f, NEW t, Shorter(s, d, t, f)
    PROVE  Ended(o, t, f, m) = WithEnded(o, Ended(o, s, d, m), s[d])
<1> SUFFICES ASSUME d \in Nat \ {0}, f \in Nat, f = d - 1, \A i \in 1..f : t[i] = s[i]
             PROVE  Ended(o, t, f, m) = WithEnded(o, Ended(o, s, d, m), s[d])
  BY DEF Shorter
<1>1. /\ Size(o) \in Nat /\ m \in Nat /\ d \in 1..d /\ \A i \in 1..d : s[i] \in 1..m
      /\ \A i, j \in 1..d : i < j => s[i] < s[j]
  BY DEF IsObject, Walk
<1>2. \A i \in 1..f : i \in 1..d /\ t[i] = s[i] /\ s[i] # s[d]
  <2> SUFFICES ASSUME NEW i \in 1..f PROVE i \in 1..d /\ t[i] = s[i] /\ s[i] # s[d]
    OBVIOUS
  <2>1. i \in 1..d /\ i < d /\ t[i] = s[i]
    OBVIOUS
  <2>2. s[i] < s[d]
    BY <1>1, <2>1
  <2> QED
    BY <1>1, <2>1, <2>2
<1>3. \A i \in 1..d : i \in 1..f \/ i = d
  OBVIOUS
<1>4. ASSUME NEW k PROVE k \in Ended(o, t, f, m) <=>
                           k \in Ended(o, s, d, m) \/ (k = s[d] /\ s[d] \in o.full)
  BY <1>1, <1>2, <1>3 DEF Ended
<1> QED
  BY <1>4 DEF WithEnded

--------------------------------------------------------------------------------
(* The lists of payloads *)

LEMMA GroupsAre ==
    /\ DOMAIN Groups = 1..5
    /\ Range(Groups) = {"string", "complex", "real", "integer", "raw"}
    /\ \A i \in 1..5 : Groups[i] \in Range(Groups)
    /\ \A g \in Range(Groups) : \E i \in 1..5 : Groups[i] = g
    /\ \A i, j \in 1..5 : Groups[i] = Groups[j] => i = j
<1>1. DOMAIN Groups = 1..5
  BY DEF Groups
<1>2. /\ Groups[1] = "string" /\ Groups[2] = "complex" /\ Groups[3] = "real"
      /\ Groups[4] = "integer" /\ Groups[5] = "raw"
  BY DEF Groups
<1>3. \A i \in 1..5 : i = 1 \/ i = 2 \/ i = 3 \/ i = 4 \/ i = 5
  OBVIOUS
<1>4. 1 \in 1..5 /\ 2 \in 1..5 /\ 3 \in 1..5 /\ 4 \in 1..5 /\ 5 \in 1..5
  OBVIOUS
<1>5. Range(Groups) = {Groups[i] : i \in 1..5}
  BY <1>1 DEF Range
<1>6. Range(Groups) = {"string", "complex", "real", "integer", "raw"}
  BY <1>2, <1>3, <1>4, <1>5
<1>7. \A g \in Range(Groups) : \E i \in 1..5 : Groups[i] = g
  BY <1>5
<1>8. \A i \in 1..5 : Groups[i] \in Range(Groups)
  BY <1>5
<1>9. \A i, j \in 1..5 : Groups[i] = Groups[j] => i = j
  BY <1>2, <1>3
<1> QED
  BY <1>1, <1>6, <1>7, <1>8, <1>9

\* What is a node's group in o
Group(o, k) == GroupOf(o.type[k])

LEMMA FullHasGroup ==
    ASSUME NEW o, IsObject(o), NEW k \in o.full
    PROVE  k \in 1..Size(o) /\ Group(o, k) \in Range(Groups)
<1>1. k \in 1..Size(o) /\ o.type[k] \in Types /\ o.type[k] \notin {"nil", "list"}
  BY DEF IsObject
<1>2. o.type[k] \in {"logical", "integer", "real", "complex", "string", "raw"}
  BY <1>1, TypesAssumption
<1> QED
  BY <1>1, <1>2, GroupsAre DEF Group, GroupOf

\* The payload of a is stored before that of b.
Before(o, a, b) ==
    \E i, j \in 1..5 :
       /\ Groups[i] = Group(o, a) /\ Groups[j] = Group(o, b)
       /\ i < j \/ (i = j /\ Earlier(o, a, b))

LEMMA BeforeIsOrder ==
    ASSUME NEW o, IsObject(o), NEW a \in 1..Size(o), NEW b \in 1..Size(o),
           Before(o, a, b), Before(o, b, a)
    PROVE  FALSE
<1>1. PICK i \in 1..5, j \in 1..5 :
         /\ Groups[i] = Group(o, a) /\ Groups[j] = Group(o, b)
         /\ i < j \/ (i = j /\ Earlier(o, a, b))
  BY DEF Before
<1>2. PICK k \in 1..5, l \in 1..5 :
         /\ Groups[k] = Group(o, b) /\ Groups[l] = Group(o, a)
         /\ k < l \/ (k = l /\ Earlier(o, b, a))
  BY DEF Before
<1>3. k = j /\ l = i
  BY <1>1, <1>2, GroupsAre
<1>4. Earlier(o, a, b) /\ Earlier(o, b, a)
  BY <1>1, <1>2, <1>3
<1> QED
  BY <1>4, EarlierIsOrder

\* l lists the nodes of D of group g in the order in which their calls end.
Lists(o, l, g, D) ==
    /\ l \in Seq(Nat)
    /\ \A i \in 1..Len(l) : l[i] \in D /\ Group(o, l[i]) = g
    /\ \A i, j \in 1..Len(l) : i < j => Earlier(o, l[i], l[j])
    /\ \A k \in D : Group(o, k) = g => \E i \in 1..Len(l) : l[i] = k

LEMMA ListsAppend ==
    ASSUME NEW o, NEW l, NEW g, NEW D, Lists(o, l, g, D), NEW k \in Nat, Group(o, k) = g,
           \A x \in D : Earlier(o, x, k)
    PROVE  Lists(o, Append(l, k), g, D \cup {k})
<1>1. l \in Seq(Nat) /\ Len(l) \in Nat
  BY DEF Lists
<1>2. PICK e : e = Append(l, k)
  OBVIOUS
<1>3. e \in Seq(Nat) /\ Len(e) = Len(l) + 1 /\ e[Len(l) + 1] = k
      /\ \A i \in 1..Len(l) : e[i] = l[i]
  BY <1>1, <1>2
<1>4. PICK n \in Nat : n = Len(l) + 1
  BY <1>1
<1>5. \A i \in 1..n : i \in 1..Len(l) \/ i = n
  BY <1>1, <1>4
<1>6. \A i \in 1..n : e[i] \in D \cup {k} /\ Group(o, e[i]) = g
  BY <1>3, <1>4, <1>5 DEF Lists
<1>7. ASSUME NEW i \in 1..n, NEW j \in 1..n, i < j PROVE Earlier(o, e[i], e[j])
  <2>1. i \in 1..Len(l) /\ e[i] = l[i] /\ l[i] \in D
    BY <1>1, <1>3, <1>4, <1>7 DEF Lists
  <2>2. CASE j = n
    BY <1>3, <1>4, <2>1, <2>2
  <2>3. CASE j # n
    <3>1. j \in 1..Len(l) /\ e[j] = l[j]
      BY <1>3, <1>5, <2>3
    <3> QED
      BY <1>7, <2>1, <3>1 DEF Lists
  <2> QED
    BY <2>2, <2>3
<1>8. ASSUME NEW x \in D \cup {k}, Group(o, x) = g PROVE \E i \in 1..n : e[i] = x
  <2>1. CASE x = k
    <3>1. n \in 1..n
      BY <1>1, <1>4
    <3> QED
      BY <1>3, <1>4, <2>1, <3>1
  <2>2. CASE x # k
    <3>1. PICK i \in 1..Len(l) : l[i] = x
      BY <1>8, <2>2 DEF Lists
    <3>2. i \in 1..n /\ e[i] = l[i]
      BY <1>1, <1>3, <1>4
    <3> QED
      BY <3>1, <3>2
  <2> QED
    BY <2>1, <2>2
<1>9. Len(e) = n
  BY <1>3, <1>4
<1> QED
  BY <1>2, <1>3, <1>6, <1>7, <1>8, <1>9 DEF Lists

LEMMA ListsTail ==
    ASSUME NEW o, IsObject(o), NEW l, NEW g, NEW D \in SUBSET o.full, Lists(o, l, g, D),
           l # << >>, NEW h, h = Head(l)
    PROVE  /\ h \in D /\ Group(o, h) = g
           /\ Lists(o, Tail(l), g, D \ {h})
           /\ \A x \in D \ {h} : Group(o, x) = g => Earlier(o, h, x)
<1>1. l \in Seq(Nat) /\ Len(l) \in Nat
  BY DEF Lists
<1>2. PICK e : e = Tail(l)
  OBVIOUS
<1>3. PICK n \in Nat : n = Len(l) - 1
  BY <1>1
<1>4. e \in Seq(Nat) /\ Len(e) = n
  BY <1>1, <1>2, <1>3
<1>5. ASSUME NEW i \in 1..n PROVE i + 1 \in 1..Len(l) /\ e[i] = l[i + 1]
  BY <1>1, <1>2, <1>3
<1>6. 1 \in 1..Len(l) /\ h = l[1]
  BY <1>1
<1>7. h \in D /\ Group(o, h) = g /\ h \in 1..Size(o)
  BY <1>6, FullHasGroup DEF Lists
<1>8. ASSUME NEW i \in 2..Len(l) PROVE Earlier(o, h, l[i]) /\ l[i] # h /\ l[i] \in D
  <2>1. i \in 1..Len(l) /\ 1 < i
    BY <1>1
  <2>2. Earlier(o, h, l[i]) /\ l[i] \in D
    BY <1>6, <2>1 DEF Lists
  <2>3. l[i] # h
    BY <1>7, <2>2, EarlierIsOrder
  <2> QED
    BY <2>2, <2>3
<1>9. ASSUME NEW i \in 1..n PROVE e[i] \in D \ {h} /\ Group(o, e[i]) = g
  <2>1. PICK j \in 2..Len(l) : j = i + 1
    BY <1>1, <1>3
  <2>2. e[i] = l[j] /\ j \in 1..Len(l)
    BY <1>5, <2>1
  <2>3. l[j] \in D /\ l[j] # h
    BY <1>8
  <2>4. Group(o, l[j]) = g
    BY <2>2 DEF Lists
  <2> QED
    BY <2>2, <2>3, <2>4
<1>10. ASSUME NEW i \in 1..n, NEW j \in 1..n, i < j PROVE Earlier(o, e[i], e[j])
  <2>1. PICK a \in 1..Len(l), b \in 1..Len(l) : a = i + 1 /\ b = j + 1 /\ a < b
    BY <1>5, <1>10
  <2>2. e[i] = l[a] /\ e[j] = l[b]
    BY <1>5, <2>1
  <2>3. Earlier(o, l[a], l[b])
    BY <2>1 DEF Lists
  <2> QED
    BY <2>2, <2>3
<1>11. ASSUME NEW x \in D \ {h}, Group(o, x) = g
       PROVE  Earlier(o, h, x) /\ \E i \in 1..n : e[i] = x
  <2>1. PICK j \in 1..Len(l) : l[j] = x
    BY <1>11 DEF Lists
  <2>2. j # 1
    BY <1>6, <2>1
  <2>3. PICK i \in 1..n : j = i + 1
    BY <1>1, <1>3, <2>2
  <2>4. e[i] = x
    BY <1>5, <2>1, <2>3
  <2>5. j \in 2..Len(l)
    BY <1>1, <2>2
  <2> QED
    BY <1>8, <2>1, <2>4, <2>5
<1>12. Lists(o, e, g, D \ {h})
  BY <1>4, <1>9, <1>10, <1>11 DEF Lists
<1> QED
  BY <1>2, <1>7, <1>11, <1>12

\* Another group's list does not change.
LEMMA ListsOther ==
    ASSUME NEW o, NEW l, NEW g, NEW D, Lists(o, l, g, D), NEW k, Group(o, k) # g
    PROVE  Lists(o, l, g, D \cup {k}) /\ Lists(o, l, g, D \ {k})
  BY DEF Lists

\* q lists the nodes of D.
Queued(o, q, D) ==
    /\ DOMAIN q = Range(Groups)
    /\ q = [g \in Range(Groups) |-> q[g]]
    /\ \A g \in Range(Groups) : Lists(o, q[g], g, D)

LEMMA QueuedNone ==
    ASSUME NEW o
    PROVE  Queued(o, NoPayloads, {})
<1>1. /\ DOMAIN NoPayloads = Range(Groups)
      /\ \A g \in Range(Groups) : NoPayloads[g] = << >>
      /\ NoPayloads = [g \in Range(Groups) |-> NoPayloads[g]]
  BY DEF NoPayloads
<1>2. ASSUME NEW g \in Range(Groups) PROVE Lists(o, NoPayloads[g], g, {})
  <2>1. PICK l : l = NoPayloads[g] /\ l = << >>
    BY <1>1
  <2>2. Lists(o, l, g, {})
    BY <2>1 DEF Lists
  <2> QED
    BY <2>1, <2>2
<1>3. PICK q : q = NoPayloads
  OBVIOUS
<1>4. Queued(o, q, {})
  BY <1>1, <1>2, <1>3 DEF Queued
<1> QED
  BY <1>3, <1>4

LEMMA QueuedAppend ==
    ASSUME NEW o, IsObject(o), NEW q, NEW D, Queued(o, q, D), NEW k \in o.full,
           \A x \in D : Earlier(o, x, k)
    PROVE  Queued(o, [q EXCEPT ![Group(o, k)] = Append(@, k)], D \cup {k})
<1>1. Group(o, k) \in Range(Groups) /\ k \in 1..Size(o) /\ Size(o) \in Nat
  BY FullHasGroup DEF IsObject
<1>2. PICK p : p = [q EXCEPT ![Group(o, k)] = Append(@, k)]
  OBVIOUS
<1>3. /\ DOMAIN p = Range(Groups) /\ p = [g \in Range(Groups) |-> p[g]]
      /\ \A g \in Range(Groups) : p[g] = IF g = Group(o, k) THEN Append(q[g], k) ELSE q[g]
  BY <1>1, <1>2 DEF Queued
<1>4. ASSUME NEW g \in Range(Groups) PROVE Lists(o, p[g], g, D \cup {k})
  <2>1. Lists(o, q[g], g, D)
    BY DEF Queued
  <2>2. CASE g = Group(o, k)
    <3>1. p[g] = Append(q[g], k) /\ k \in Nat
      BY <1>1, <1>3, <2>2
    <3> QED
      BY <2>1, <2>2, <3>1, ListsAppend
  <2>3. CASE g # Group(o, k)
    BY <1>3, <2>1, <2>3, ListsOther
  <2> QED
    BY <2>2, <2>3
<1> QED
  BY <1>2, <1>3, <1>4 DEF Queued

LEMMA NextGroupIs ==
    ASSUME NEW q
    PROVE  /\ NextGroup(q) = 0 => \A g \in Range(Groups) : q[g] = << >>
           /\ NextGroup(q) # 0 =>
                /\ NextGroup(q) \in 1..5 /\ q[Groups[NextGroup(q)]] # << >>
                /\ \A j \in 1..5 : j < NextGroup(q) => q[Groups[j]] = << >>
<1> DEFINE open == {i \in 1..5 : q[Groups[i]] # << >>}
<1>1. NextGroup(q) = IF open = {} THEN 0 ELSE Min(open)
  BY GroupsAre DEF NextGroup
<1>2. CASE open = {}
  <2>1. \A i \in 1..5 : q[Groups[i]] = << >>
    BY <1>2
  <2>2. \A g \in Range(Groups) : q[g] = << >>
    BY <2>1, GroupsAre
  <2> QED
    BY <1>1, <1>2, <2>2
<1>3. CASE open # {}
  <2>1. open \in SUBSET Nat
    OBVIOUS
  <2>2. PICK x \in open : \A y \in open : x <= y
    <3> HIDE DEF open
    <3> QED
      BY <1>3, <2>1, Least
  <2>3. Min(open) = x
    <3> HIDE DEF open
    <3> QED
      BY <2>1, <2>2, MinIs
  <2>4. NextGroup(q) = x /\ x \in 1..5 /\ q[Groups[x]] # << >>
    BY <1>1, <1>3, <2>2, <2>3
  <2>5. \A j \in 1..5 : j < x => q[Groups[j]] = << >>
    BY <2>2, <2>4
  <2> QED
    BY <2>4, <2>5
<1> QED
  BY <1>2, <1>3

LEMMA QueuedEmpty ==
    ASSUME NEW o, IsObject(o), NEW q, NEW D \in SUBSET o.full, Queued(o, q, D),
           NextGroup(q) = 0
    PROVE  D = {}
<1> SUFFICES ASSUME NEW k \in D PROVE FALSE
  OBVIOUS
<1>1. Group(o, k) \in Range(Groups)
  BY FullHasGroup
<1>2. q[Group(o, k)] = << >>
  BY <1>1, NextGroupIs
<1>3. PICK l : l = q[Group(o, k)]
  OBVIOUS
<1>4. Lists(o, l, Group(o, k), D)
  BY <1>1, <1>3 DEF Queued
<1>5. \E i \in 1..Len(l) : l[i] = k
  BY <1>4 DEF Lists
<1> QED
  BY <1>2, <1>3, <1>5

\* The next payload is before the others.
LEMMA QueuedNext ==
    ASSUME NEW o, IsObject(o), NEW q, NEW D \in SUBSET o.full, Queued(o, q, D),
           NextGroup(q) # 0, NEW g, g = Groups[NextGroup(q)], NEW h, h = Head(q[g])
    PROVE  /\ h \in D /\ g = Group(o, h)
           /\ Queued(o, [q EXCEPT ![g] = Tail(@)], D \ {h})
           /\ \A x \in D \ {h} : Before(o, h, x)
<1>1. PICK n \in 1..5 : /\ n = NextGroup(q) /\ q[g] # << >>
                        /\ \A j \in 1..5 : j < n => q[Groups[j]] = << >>
  BY NextGroupIs
<1>2. g \in Range(Groups) /\ Lists(o, q[g], g, D) /\ Groups[n] = g
  BY <1>1, GroupsAre DEF Queued
<1>3. /\ h \in D /\ Group(o, h) = g /\ Lists(o, Tail(q[g]), g, D \ {h})
      /\ \A x \in D \ {h} : Group(o, x) = g => Earlier(o, h, x)
  <2>1. PICK l : l = q[g]
    OBVIOUS
  <2>2. Lists(o, l, g, D) /\ l # << >> /\ h = Head(l)
    BY <1>1, <1>2, <2>1
  <2> QED
    BY <2>1, <2>2, ListsTail
<1>4. PICK p : p = [q EXCEPT ![g] = Tail(@)]
  OBVIOUS
<1>5. /\ DOMAIN p = Range(Groups) /\ p = [f \in Range(Groups) |-> p[f]]
      /\ \A f \in Range(Groups) : p[f] = IF f = g THEN Tail(q[g]) ELSE q[f]
  BY <1>2, <1>4 DEF Queued
<1>6. ASSUME NEW f \in Range(Groups) PROVE Lists(o, p[f], f, D \ {h})
  <2>1. CASE f = g
    BY <1>3, <1>5, <2>1
  <2>2. CASE f # g
    <3>1. Lists(o, q[f], f, D) /\ Group(o, h) # f /\ p[f] = q[f]
      BY <1>3, <1>5, <2>2 DEF Queued
    <3> QED
      BY <3>1, ListsOther
  <2> QED
    BY <2>1, <2>2
<1>7. ASSUME NEW x \in D \ {h} PROVE Before(o, h, x)
  <2>1. PICK j \in 1..5 : Groups[j] = Group(o, x)
    BY FullHasGroup, GroupsAre
  <2>2. PICK l : l = q[Groups[j]] /\ Lists(o, l, Group(o, x), D)
    BY <2>1, GroupsAre DEF Queued
  <2>3. \E i \in 1..Len(l) : l[i] = x
    BY <2>2 DEF Lists
  <2>4. l # << >>
    BY <2>3
  <2>5. ~(j < n)
    BY <1>1, <2>2, <2>4
  <2>6. n < j \/ n = j
    BY <2>5
  <2>7. n = j => Earlier(o, h, x)
    BY <1>2, <1>3, <2>1
  <2>8. Groups[n] = Group(o, h) /\ Groups[j] = Group(o, x)
    BY <1>2, <1>3, <2>1
  <2> QED
    BY <2>6, <2>7, <2>8 DEF Before
<1>8. Queued(o, p, D \ {h})
  BY <1>5, <1>6 DEF Queued
<1> QED
  BY <1>3, <1>4, <1>7, <1>8

--------------------------------------------------------------------------------
(* Headers in the stream *)

Kids(o, x, r) == {c \in 2..Size(o) : o.parent[c] = x /\ o.role[c] = r}
Left(o, x, m, r) == {c \in 2..Size(o) : c > m /\ o.parent[c] = x /\ o.role[c] = r}

HeaderOf(o, k) ==
    [unit |-> "header", type |-> o.type[k],
     length |-> IF o.type[k] = "list" THEN Cardinality(Kids(o, k, "element"))
                ELSE IF k \in o.full THEN 1 ELSE 0,
     attributes |-> Cardinality(Kids(o, k, "attribute"))]

Units == [unit : {"header"}, type : Types, length : Nat, attributes : Nat]
           \cup [unit : {"name", "payload"}, of : Nat]

LEMMA ChildrenAre ==
    ASSUME IsObject(obj)
    PROVE  /\ Nodes = 1..Size(obj) /\ Cardinality(Nodes) = Size(obj)
           /\ \A k : /\ Attributes(k) = Kids(obj, k, "attribute")
                     /\ Elements(k) = Kids(obj, k, "element")
                     /\ Header(k) = HeaderOf(obj, k)
<1>1. Nodes = 1..Size(obj) /\ Size(obj) \in Nat /\ Cardinality(Nodes) = Size(obj)
  BY DEF IsObject, Nodes, Size
<1>2. \A c : c \in Nodes \ {1} <=> c \in 2..Size(obj)
  BY <1>1
<1>3. ASSUME NEW k PROVE /\ Attributes(k) = Kids(obj, k, "attribute")
                         /\ Elements(k) = Kids(obj, k, "element")
  BY <1>2 DEF Attributes, Elements, Kids
<1>4. ASSUME NEW k PROVE Header(k) = HeaderOf(obj, k)
  BY <1>3 DEF Header, HeaderOf
<1> QED
  BY <1>1, <1>3, <1>4

LEMMA Finite ==
    ASSUME NEW o, IsObject(o), NEW x, NEW m, NEW r
    PROVE  /\ IsFiniteSet(Kids(o, x, r)) /\ Cardinality(Kids(o, x, r)) \in Nat
           /\ IsFiniteSet(Left(o, x, m, r)) /\ Cardinality(Left(o, x, m, r)) \in Nat
           /\ Cardinality(Left(o, x, m, r)) = 0 <=> Left(o, x, m, r) = {}
           /\ Left(o, x, m, r) \in SUBSET Nat
<1>1. Size(o) \in Nat
  BY DEF IsObject
<1>2. IsFiniteSet(2..Size(o))
  BY <1>1, FS_Interval
<1>3. Kids(o, x, r) \in SUBSET (2..Size(o)) /\ Left(o, x, m, r) \in SUBSET (2..Size(o))
  BY DEF Kids, Left
<1>4. IsFiniteSet(Kids(o, x, r)) /\ IsFiniteSet(Left(o, x, m, r))
  BY <1>2, <1>3, FS_Subset
<1>5. Cardinality(Kids(o, x, r)) \in Nat /\ Cardinality(Left(o, x, m, r)) \in Nat
  BY <1>4, FS_CardinalityType
<1>6. Cardinality(Left(o, x, m, r)) = 0 <=> Left(o, x, m, r) = {}
  BY <1>4, FS_EmptySet
<1> QED
  BY <1>1, <1>3, <1>4, <1>5, <1>6

\* When node k has been entered, all its children are to come.
LEMMA LeftAtFirst ==
    ASSUME NEW o, IsObject(o), NEW k \in 1..Size(o), NEW r
    PROVE  Left(o, k, k, r) = Kids(o, k, r)
<1>1. ASSUME NEW c \in 2..Size(o), o.parent[c] = k PROVE c > k
  <2>1. o.parent[c] \in 1..(c - 1) /\ Size(o) \in Nat
    BY ParentBefore DEF IsObject
  <2> QED
    BY <1>1, <2>1
<1> QED
  BY <1>1 DEF Left, Kids

LEMMA LeftSame ==
    ASSUME NEW o, IsObject(o), NEW m \in Nat, NEW e \in 2..Size(o), e = m + 1, NEW x, NEW r,
           o.parent[e] # x \/ o.role[e] # r
    PROVE  Left(o, x, e, r) = Left(o, x, m, r)
<1>1. ASSUME NEW c \in 2..Size(o) PROVE c > m <=> c > e \/ c = e
  OBVIOUS
<1> QED
  BY <1>1 DEF Left

LEMMA LeftTaken ==
    ASSUME NEW o, IsObject(o), NEW m \in Nat, NEW e \in 2..Size(o), e = m + 1, NEW x, NEW r,
           o.parent[e] = x, o.role[e] = r
    PROVE  /\ Left(o, x, e, r) = Left(o, x, m, r) \ {e}
           /\ e \in Left(o, x, m, r) /\ Min(Left(o, x, m, r)) = e
           /\ Cardinality(Left(o, x, e, r)) = Cardinality(Left(o, x, m, r)) - 1
<1>1. ASSUME NEW c \in 2..Size(o) PROVE (c > m <=> c > e \/ c = e) /\ (c > e => c # e)
  OBVIOUS
<1>2. Left(o, x, e, r) = Left(o, x, m, r) \ {e}
  BY <1>1 DEF Left
<1>3. e \in Left(o, x, m, r)
  BY DEF Left
<1>4. Left(o, x, m, r) \in SUBSET Nat /\ IsFiniteSet(Left(o, x, m, r))
  BY Finite
<1>5. \A y \in Left(o, x, m, r) : e <= y
  BY DEF Left
<1>6. Min(Left(o, x, m, r)) = e
  BY <1>3, <1>4, <1>5, MinIs
<1>7. Cardinality(Left(o, x, m, r) \ {e}) = Cardinality(Left(o, x, m, r)) - 1
  BY <1>3, <1>4, FS_RemoveElement
<1> QED
  BY <1>2, <1>3, <1>6, <1>7

LEMMA HeaderFacts ==
    ASSUME NEW o, IsObject(o), NEW k \in 1..Size(o)
    PROVE  /\ HeaderOf(o, k) \in Units /\ HeaderOf(o, k).unit = "header"
           /\ HeaderOf(o, k).type = o.type[k]
           /\ HeaderOf(o, k).attributes = Cardinality(Kids(o, k, "attribute"))
           /\ (IF HeaderOf(o, k).type = "list" THEN HeaderOf(o, k).length ELSE 0)
                = Cardinality(Kids(o, k, "element"))
           /\ HeaderOf(o, k).type # "list" /\ HeaderOf(o, k).length > 0 <=> k \in o.full
<1>1. PICK a \in Nat, e \in Nat : /\ a = Cardinality(Kids(o, k, "attribute"))
                                  /\ e = Cardinality(Kids(o, k, "element"))
  BY Finite
<1>2. PICK h : h = HeaderOf(o, k)
  OBVIOUS
<1>3. h = [unit |-> "header", type |-> o.type[k],
           length |-> IF o.type[k] = "list" THEN e ELSE IF k \in o.full THEN 1 ELSE 0,
           attributes |-> a]
  BY <1>1, <1>2 DEF HeaderOf
<1>4. o.type[k] \in Types /\ (k \in o.full => o.type[k] # "list")
  BY DEF IsObject
<1>5. o.type[k] # "list" => e = 0
  <2> SUFFICES ASSUME o.type[k] # "list" PROVE e = 0
    OBVIOUS
  <2>1. Kids(o, k, "element") = {}
    <3> SUFFICES ASSUME NEW c \in Kids(o, k, "element") PROVE FALSE
      OBVIOUS
    <3>1. c \in 2..Size(o) /\ o.parent[c] = k /\ o.role[c] = "element"
      BY DEF Kids
    <3> QED
      BY <3>1 DEF IsObject, Roles
  <2> QED
    BY <1>1, <2>1, FS_EmptySet
<1>6. h \in Units
  BY <1>3, <1>4 DEF Units
<1>7. h.type # "list" /\ h.length > 0 <=> k \in o.full
  BY <1>3, <1>4
<1>8. (IF h.type = "list" THEN h.length ELSE 0) = e
  BY <1>3, <1>5
<1> QED
  BY <1>1, <1>2, <1>3, <1>6, <1>7, <1>8

\* The place in the stream of the header of the m-th node
AttributesTo(o, m) == {c \in 2..m : o.role[c] = "attribute"}
Pos(o, m) == m + Cardinality(AttributesTo(o, m))

LEMMA PosFacts ==
    ASSUME NEW o, NEW m \in Nat
    PROVE  /\ Pos(o, m) \in Nat /\ m <= Pos(o, m)
           /\ Pos(o, 0) = 0 /\ Pos(o, 1) = 1
           /\ \A k \in 0..m : Pos(o, k) <= Pos(o, m)
           /\ \A e \in Nat : e = m + 1 =>
                Pos(o, e) = IF m # 0 /\ o.role[e] = "attribute"
                              THEN Pos(o, m) + 2 ELSE Pos(o, m) + 1
<1>1. ASSUME NEW k \in Nat
      PROVE  IsFiniteSet(AttributesTo(o, k)) /\ Cardinality(AttributesTo(o, k)) \in Nat
  <2>1. IsFiniteSet(2..k)
    BY FS_Interval
  <2>2. AttributesTo(o, k) \in SUBSET (2..k)
    BY DEF AttributesTo
  <2>3. IsFiniteSet(AttributesTo(o, k))
    BY <2>1, <2>2, FS_Subset
  <2> QED
    BY <2>3, FS_CardinalityType
<1>2. Pos(o, m) \in Nat /\ m <= Pos(o, m)
  BY <1>1 DEF Pos
<1>3. Pos(o, 0) = 0 /\ Pos(o, 1) = 1
  <2>1. AttributesTo(o, 0) = {} /\ AttributesTo(o, 1) = {}
    BY DEF AttributesTo
  <2> QED
    BY <2>1, FS_EmptySet DEF Pos
<1>4. ASSUME NEW k \in 0..m PROVE Pos(o, k) <= Pos(o, m)
  <2>1. AttributesTo(o, k) \in SUBSET AttributesTo(o, m)
    BY DEF AttributesTo
  <2>2. Cardinality(AttributesTo(o, k)) <= Cardinality(AttributesTo(o, m))
    BY <1>1, <2>1, FS_Subset
  <2> QED
    BY <1>1, <2>2 DEF Pos
<1>5. ASSUME NEW e \in Nat, e = m + 1
      PROVE  Pos(o, e) = IF m # 0 /\ o.role[e] = "attribute"
                           THEN Pos(o, m) + 2 ELSE Pos(o, m) + 1
  <2>1. e = m + 1
    BY <1>5
  <2>2. \A c \in Nat : c \in 2..e <=> c \in 2..m \/ (c = e /\ m # 0)
    BY <2>1
  <2>3. CASE m # 0 /\ o.role[e] = "attribute"
    <3>1. AttributesTo(o, e) = AttributesTo(o, m) \cup {e} /\ e \notin AttributesTo(o, m)
      BY <2>1, <2>2, <2>3 DEF AttributesTo
    <3>2. Cardinality(AttributesTo(o, e)) = Cardinality(AttributesTo(o, m)) + 1
      BY <1>1, <3>1, FS_AddElement
    <3> QED
      BY <1>1, <2>1, <2>3, <3>2 DEF Pos
  <2>4. CASE ~(m # 0 /\ o.role[e] = "attribute")
    <3>1. AttributesTo(o, e) = AttributesTo(o, m)
      BY <2>1, <2>2, <2>4 DEF AttributesTo
    <3> QED
      BY <1>1, <2>1, <2>4, <3>1 DEF Pos
  <2> QED
    BY <2>1, <2>3, <2>4
<1> QED
  BY <1>2, <1>3, <1>4, <1>5

\* The headers of the first m nodes, each attribute's after its name
HeadersIn(o, st, m) ==
    \A k \in 1..m :
       /\ st[Pos(o, k)] = HeaderOf(o, k)
       /\ k # 1 /\ o.role[k] = "attribute" => st[Pos(o, k) - 1] = Name(k)

LEMMA HeadersKept ==
    ASSUME NEW o, NEW st, NEW m \in Nat, HeadersIn(o, st, m),
           NEW tu, \A i \in 1..Pos(o, m) : tu[i] = st[i]
    PROVE  HeadersIn(o, tu, m)
<1> SUFFICES ASSUME NEW k \in 1..m
             PROVE  /\ tu[Pos(o, k)] = HeaderOf(o, k)
                    /\ k # 1 /\ o.role[k] = "attribute" => tu[Pos(o, k) - 1] = Name(k)
  BY DEF HeadersIn
<1>1. k \in Nat /\ k \in 0..m
  OBVIOUS
<1>2. Pos(o, k) \in Nat /\ k <= Pos(o, k) /\ Pos(o, k) <= Pos(o, m) /\ Pos(o, m) \in Nat
  BY <1>1, PosFacts
<1>3. Pos(o, k) \in 1..Pos(o, m) /\ (k # 1 => Pos(o, k) - 1 \in 1..Pos(o, m))
  BY <1>2
<1> QED
  BY <1>3 DEF HeadersIn

\* tu is st, of length p, and h after it.
Appended(st, p, h, tu, b) ==
    /\ st \in Seq(Units) /\ p \in Nat /\ p = Len(st) /\ h \in Units
    /\ tu = Append(st, h) /\ b = p + 1

LEMMA OneMore ==
    ASSUME NEW st, NEW p, NEW h, NEW tu, NEW b, Appended(st, p, h, tu, b)
    PROVE  /\ tu \in Seq(Units) /\ Len(tu) = b /\ tu[b] = h
           /\ \A i \in 1..p : tu[i] = st[i]
  BY DEF Appended

\* The same with w and h.
Longer(st, p, w, h, tu, a, b) ==
    /\ st \in Seq(Units) /\ p \in Nat /\ p = Len(st) /\ w \in Units /\ h \in Units
    /\ tu = st \o <<w, h>> /\ a = p + 1 /\ b = p + 2

LEMMA TwoMore ==
    ASSUME NEW st, NEW p, NEW w, NEW h, NEW tu, NEW a, NEW b, Longer(st, p, w, h, tu, a, b)
    PROVE  /\ tu \in Seq(Units) /\ Len(tu) = b /\ tu[a] = w /\ tu[b] = h
           /\ \A i \in 1..p : tu[i] = st[i]
<1> USE DEF Longer
<1> DEFINE v == <<w, h>>
<1>1. v \in Seq(Units) /\ Len(v) = 2 /\ v[1] = w /\ v[2] = h
  OBVIOUS
<1> HIDE DEF v
<1>2. tu \in Seq(Units) /\ Len(tu) = b
  BY <1>1 DEF v
<1>3. tu[a] = w /\ tu[b] = h
  BY <1>1 DEF v
<1>4. \A i \in 1..p : tu[i] = st[i]
  BY <1>1 DEF v
<1> QED
  BY <1>2, <1>3, <1>4

\* The stream after node e has been entered
WithHeader(o, st, e) ==
    IF e # 1 /\ o.role[e] = "attribute" THEN st \o <<Name(e), HeaderOf(o, e)>>
                                       ELSE Append(st, HeaderOf(o, e))

LEMMA HeadersNext ==
    ASSUME NEW o, IsObject(o), NEW st \in Seq(Units), NEW m \in Nat,
           HeadersIn(o, st, m), Len(st) = Pos(o, m), NEW e \in 1..Size(o), e = m + 1,
           NEW tu, tu = WithHeader(o, st, e)
    PROVE  tu \in Seq(Units) /\ Len(tu) = Pos(o, e) /\ HeadersIn(o, tu, e)
<1>1. e \in Nat /\ (m # 0 <=> e # 1)
  BY DEF IsObject
<1>2. PICK h \in Units : h = HeaderOf(o, e)
  BY HeaderFacts
<1>3. PICK w \in Units : w = Name(e)
  <2>1. e \in Nat /\ Name(e) = [unit |-> "name", of |-> e]
    BY <1>1 DEF Name
  <2> QED
    BY <2>1 DEF Units
<1>4. PICK p \in Nat : p = Pos(o, m) /\ m <= p /\ p = Len(st)
  BY PosFacts
<1>5. Pos(o, e) = IF m # 0 /\ o.role[e] = "attribute" THEN p + 2 ELSE p + 1
  BY <1>1, <1>4, PosFacts
<1>6. /\ tu \in Seq(Units) /\ Len(tu) = Pos(o, e) /\ tu[Pos(o, e)] = h
      /\ m # 0 /\ o.role[e] = "attribute" => tu[Pos(o, e) - 1] = w
      /\ \A i \in 1..p : tu[i] = st[i]
  <2>1. CASE m # 0 /\ o.role[e] = "attribute"
    <3>1. tu = st \o <<w, h>>
      BY <1>1, <1>2, <1>3, <2>1 DEF WithHeader
    <3>2. PICK a \in Nat, b \in Nat : a = p + 1 /\ b = p + 2
      BY <1>4
    <3>3. /\ tu \in Seq(Units) /\ Len(tu) = b /\ tu[a] = w /\ tu[b] = h
          /\ \A i \in 1..p : tu[i] = st[i]
      <4>1. Longer(st, p, w, h, tu, a, b)
        BY <1>4, <3>1, <3>2 DEF Longer
      <4> QED
        BY <4>1, TwoMore
    <3>4. Pos(o, e) = b /\ Pos(o, e) - 1 = a
      BY <1>4, <1>5, <2>1, <3>2
    <3> QED
      BY <3>3, <3>4
  <2>2. CASE ~(m # 0 /\ o.role[e] = "attribute")
    <3>1. tu = Append(st, h)
      BY <1>1, <1>2, <2>2 DEF WithHeader
    <3>2. PICK b \in Nat : b = p + 1
      BY <1>4
    <3>3. /\ tu \in Seq(Units) /\ Len(tu) = b /\ tu[b] = h
          /\ \A i \in 1..p : tu[i] = st[i]
      <4>1. Appended(st, p, h, tu, b)
        BY <1>4, <3>1, <3>2 DEF Appended
      <4> QED
        BY <4>1, OneMore
    <3> QED
      BY <1>5, <2>2, <3>2, <3>3
  <2> QED
    BY <2>1, <2>2
<1>7. HeadersIn(o, tu, m)
  BY <1>4, <1>6, HeadersKept
<1>8. HeadersIn(o, tu, e)
  <2> SUFFICES ASSUME NEW k \in 1..e
               PROVE  /\ tu[Pos(o, k)] = HeaderOf(o, k)
                      /\ k # 1 /\ o.role[k] = "attribute" => tu[Pos(o, k) - 1] = Name(k)
    BY DEF HeadersIn
  <2>1. CASE k = e
    <3>1. k # 1 => m # 0
      BY <1>1, <2>1
    <3> QED
      BY <1>2, <1>3, <1>6, <2>1, <3>1
  <2>2. CASE k # e
    <3>1. k \in 1..m
      BY <1>1, <2>2
    <3> QED
      BY <1>7, <3>1 DEF HeadersIn
  <2> QED
    BY <2>1, <2>2
<1> QED
  BY <1>6, <1>8

--------------------------------------------------------------------------------
(* The frames of a recursion *)

Writer == "writer"
Reader == "reader"
Sides == {Writer, Reader}

LEMMA SidesAre == Writer \in Sides /\ Reader \in Sides /\ Writer # Reader
  BY DEF Writer, Reader, Sides

\* The frame of the call on node x when m nodes have been entered: the writer
\* has the children that are left, the reader counts them.
FrameOf(o, x, m, side) ==
    [node |-> x,
     attributes |-> IF side = Reader THEN Cardinality(Left(o, x, m, "attribute"))
                              ELSE Left(o, x, m, "attribute"),
     elements |-> IF side = Reader THEN Cardinality(Left(o, x, m, "element"))
                            ELSE Left(o, x, m, "element")]
AnyFrame == [node : Nat, attributes : Nat \cup SUBSET Nat, elements : Nat \cup SUBSET Nat]

Path(F) == [i \in 1..Len(F) |-> F[i].node]

Frames(o, F, m, side) ==
    /\ F \in Seq(AnyFrame)
    /\ Walk(o, Path(F), Len(F), m)
    /\ \A i \in 1..Len(F) : F[i] = FrameOf(o, F[i].node, m, side)

\* The nodes with a payload whose calls have ended
EndedOf(o, F, m) == Ended(o, Path(F), Len(F), m)

LEMMA PathIs ==
    ASSUME NEW F
    PROVE  \A i \in 1..Len(F) : Path(F)[i] = F[i].node
  BY DEF Path

LEMMA FrameType ==
    ASSUME NEW o, IsObject(o), NEW x \in Nat, NEW m, NEW side \in Sides
    PROVE  /\ FrameOf(o, x, m, side) \in AnyFrame
           /\ FrameOf(o, x, m, side).node = x
<1>1. PICK a, e : a = Left(o, x, m, "attribute") /\ e = Left(o, x, m, "element")
  OBVIOUS
<1>2. /\ a \in SUBSET Nat /\ Cardinality(a) \in Nat
      /\ e \in SUBSET Nat /\ Cardinality(e) \in Nat
  BY <1>1, Finite
<1>3. FrameOf(o, x, m, side) =
        [node |-> x, attributes |-> IF side = Reader THEN Cardinality(a) ELSE a,
         elements |-> IF side = Reader THEN Cardinality(e) ELSE e]
  BY <1>1 DEF FrameOf
<1>4. CASE side = Reader
  <2>1. FrameOf(o, x, m, side) =
          [node |-> x, attributes |-> Cardinality(a), elements |-> Cardinality(e)]
    BY <1>3, <1>4
  <2> QED
    BY <1>2, <2>1 DEF AnyFrame
<1>5. CASE side # Reader
  <2>1. FrameOf(o, x, m, side) = [node |-> x, attributes |-> a, elements |-> e]
    BY <1>3, <1>5
  <2> QED
    BY <1>2, <2>1 DEF AnyFrame
<1> QED
  BY <1>4, <1>5

LEMMA FramesNone ==
    ASSUME NEW o, IsObject(o), NEW side
    PROVE  Frames(o, << >>, 0, side) /\ EndedOf(o, << >>, 0) = {}
<1>1. Size(o) \in Nat
  BY DEF IsObject
<1>2. Walk(o, Path(<< >>), 0, 0)
  BY <1>1 DEF Walk
<1>3. EndedOf(o, << >>, 0) = {}
  BY DEF EndedOf, Ended
<1> QED
  BY <1>2, <1>3 DEF Frames

LEMMA FramesRoot ==
    ASSUME NEW o, IsObject(o), NEW side \in Sides,
           NEW G, G = <<FrameOf(o, 1, 1, side)>>
    PROVE  Frames(o, G, 1, side) /\ EndedOf(o, G, 1) = {}
<1>1. PICK f \in AnyFrame : f = FrameOf(o, 1, 1, side) /\ f.node = 1
  BY FrameType
<1>2. G = <<f>> /\ G \in Seq(AnyFrame) /\ Len(G) = 1 /\ G[1] = f
  BY <1>1
<1>3. Path(G)[1] = 1
  BY <1>1, <1>2 DEF Path
<1>4. Walk(o, Path(G), 1, 1)
  BY <1>3, WalkRoot
<1>5. Ended(o, Path(G), 1, 1) = {}
  BY <1>3 DEF Ended
<1> QED
  BY <1>1, <1>2, <1>4, <1>5 DEF Frames, EndedOf

\* A frame after a child e of it, of this role, has been entered
FrameAfter(f, e, r, side) ==
    [node |-> f.node,
     attributes |-> IF r # "attribute" THEN f.attributes
                    ELSE IF side = Reader THEN f.attributes - 1 ELSE f.attributes \ {e},
     elements |-> IF r = "attribute" THEN f.elements
                  ELSE IF side = Reader THEN f.elements - 1 ELSE f.elements \ {e}]

LEMMA FrameAfterIs ==
    ASSUME NEW f \in AnyFrame, NEW e
    PROVE  /\ FrameAfter(f, e, "attribute", Writer) =
                [f EXCEPT !.attributes = f.attributes \ {e}]
           /\ FrameAfter(f, e, "element", Writer) = [f EXCEPT !.elements = f.elements \ {e}]
           /\ FrameAfter(f, e, "attribute", Reader) = [f EXCEPT !.attributes = f.attributes - 1]
           /\ FrameAfter(f, e, "element", Reader) = [f EXCEPT !.elements = f.elements - 1]
<1>1. \A v : /\ [f EXCEPT !.attributes = v] =
                   [node |-> f.node, attributes |-> v, elements |-> f.elements]
             /\ [f EXCEPT !.elements = v] =
                   [node |-> f.node, attributes |-> f.attributes, elements |-> v]
  BY DEF AnyFrame
<1>2. /\ FrameAfter(f, e, "attribute", Writer) =
           [node |-> f.node, attributes |-> f.attributes \ {e}, elements |-> f.elements]
      /\ FrameAfter(f, e, "element", Writer) =
           [node |-> f.node, attributes |-> f.attributes, elements |-> f.elements \ {e}]
  BY SidesAre DEF FrameAfter
<1>3. /\ FrameAfter(f, e, "attribute", Reader) =
           [node |-> f.node, attributes |-> f.attributes - 1, elements |-> f.elements]
      /\ FrameAfter(f, e, "element", Reader) =
           [node |-> f.node, attributes |-> f.attributes, elements |-> f.elements - 1]
  BY DEF FrameAfter
<1> QED
  BY <1>1, <1>2, <1>3

LEMMA FrameTaken ==
    ASSUME NEW o, IsObject(o), NEW m \in Nat, NEW e \in 2..Size(o), e = m + 1,
           NEW side \in Sides, NEW x, o.parent[e] = x, NEW r, r = o.role[e],
           NEW f, f = FrameOf(o, x, m, side)
    PROVE  FrameOf(o, x, e, side) = FrameAfter(f, e, r, side)
<1>1. r \in {"attribute", "element"}
  BY DEF IsObject
<1>2. /\ Left(o, x, e, r) = Left(o, x, m, r) \ {e}
      /\ Cardinality(Left(o, x, e, r)) = Cardinality(Left(o, x, m, r)) - 1
  BY LeftTaken
<1>3. CASE r = "attribute"
  <2>1. Left(o, x, e, "element") = Left(o, x, m, "element")
    <3>1. PICK q : q = "element" /\ o.role[e] # q
      BY <1>3
    <3> QED
      BY <3>1, LeftSame
  <2> QED
    BY <1>2, <1>3, <2>1 DEF FrameOf, FrameAfter
<1>4. CASE r = "element"
  <2>1. Left(o, x, e, "attribute") = Left(o, x, m, "attribute")
    <3>1. PICK q : q = "attribute" /\ o.role[e] # q
      BY <1>4
    <3> QED
      BY <3>1, LeftSame
  <2> QED
    BY <1>2, <1>4, <2>1 DEF FrameOf, FrameAfter
<1> QED
  BY <1>1, <1>3, <1>4

\* G is F with another last frame and a frame on top of it.
OnTop(F, d, f, top, G) ==
    /\ G \in Seq(AnyFrame) /\ Len(G) = d + 1
    /\ \A i \in 1..(d - 1) : G[i] = F[i]
    /\ G[d] = f /\ G[d + 1] = top

\* The next node, e, is a child of x, on which the last call is.
Entering(o, F, m, side, d, x, e) ==
    /\ m \in Nat /\ e \in 2..Size(o) /\ e = m + 1
    /\ side \in Sides /\ Frames(o, F, m, side)
    /\ d \in Nat \ {0} /\ d = Len(F) /\ x = F[d].node
    /\ o.parent[e] = x

LEMMA FramesPush ==
    ASSUME NEW o, IsObject(o), NEW F, NEW m, NEW side, NEW d, NEW x, NEW e,
           Entering(o, F, m, side, d, x, e),
           NEW f, f = FrameOf(o, x, e, side), NEW top, top = FrameOf(o, e, e, side),
           NEW G, OnTop(F, d, f, top, G)
    PROVE  Frames(o, G, e, side) /\ EndedOf(o, G, e) = EndedOf(o, F, m)
<1> USE DEF Entering
<1>1. PICK s, t : s = Path(F) /\ t = Path(G)
  OBVIOUS
<1>0. /\ G \in Seq(AnyFrame) /\ Len(G) = d + 1 /\ \A i \in 1..(d - 1) : G[i] = F[i]
      /\ G[d] = FrameOf(o, x, e, side) /\ G[d + 1] = FrameOf(o, e, e, side)
  BY DEF OnTop
<1>2. PICK n \in Nat \ {0} : n = d + 1
  OBVIOUS
<1>3. /\ Walk(o, s, d, m) /\ \A i \in 1..d : s[i] = F[i].node
      /\ \A i \in 1..d : F[i] = FrameOf(o, s[i], m, side)
  BY <1>1, PathIs DEF Frames
<1>4. \A i \in 1..n : t[i] = G[i].node
  BY <1>0, <1>1, <1>2, PathIs
<1>5. \A i \in 1..n : i \in 1..(d - 1) \/ i = d \/ i = n
  BY <1>2
<1>6. d \in 1..d /\ d \in 1..n /\ n \in 1..n /\ s[d] = x /\ x \in 1..m
  BY <1>2, <1>3 DEF Walk
<1>7. /\ FrameOf(o, x, e, side).node = x
      /\ FrameOf(o, e, e, side).node = e
  BY <1>6, FrameType
<1>8. t[d] = x /\ t[n] = e
  BY <1>0, <1>2, <1>4, <1>6, <1>7
<1>9. ASSUME NEW i \in 1..(d - 1)
      PROVE  /\ i \in 1..d /\ i \in 1..n /\ t[i] = s[i] /\ G[i] = F[i] /\ s[i] # x
  <2>1. i \in 1..d /\ i \in 1..n /\ i < d
    BY <1>2
  <2>2. t[i] = s[i] /\ G[i] = F[i]
    BY <1>0, <1>3, <1>4, <2>1
  <2>3. s[i] < s[d] /\ s[i] \in 1..m
    BY <1>3, <1>6, <2>1 DEF Walk
  <2> QED
    BY <1>6, <2>1, <2>2, <2>3
<1>10. \A i \in 1..d : t[i] = s[i]
  <2> SUFFICES ASSUME NEW i \in 1..d PROVE t[i] = s[i]
    OBVIOUS
  <2>1. i \in 1..(d - 1) \/ i = d
    OBVIOUS
  <2> QED
    BY <1>6, <1>8, <1>9, <2>1
<1>11. Walk(o, t, n, e)
  <2>1. m + 1 \in 2..Size(o) /\ o.parent[m + 1] = s[d] /\ t[d + 1] = m + 1
    BY <1>2, <1>6, <1>8
  <2> QED
    BY <1>2, <1>3, <1>10, <2>1, WalkPush
<1>12. Ended(o, t, n, e) = Ended(o, s, d, m)
  <2>1. t[d + 1] = m + 1
    BY <1>2, <1>8
  <2> QED
    BY <1>2, <1>3, <1>10, <2>1, EndedPush
<1>13. ASSUME NEW i \in 1..n PROVE G[i] = FrameOf(o, G[i].node, e, side)
  <2>1. CASE i \in 1..(d - 1)
    <3>1. PICK y, g : y = s[i] /\ g = G[i] /\ g = F[i]
      BY <1>9, <2>1
    <3>2. g = FrameOf(o, y, m, side) /\ g.node = y /\ y # x
      BY <1>3, <1>9, <2>1, <3>1
    <3>3. \A r : Left(o, y, e, r) = Left(o, y, m, r)
      <4> SUFFICES ASSUME NEW r PROVE Left(o, y, e, r) = Left(o, y, m, r)
        OBVIOUS
      <4>1. o.parent[e] # y
        BY <3>2
      <4> QED
        BY <4>1, LeftSame
    <3>4. FrameOf(o, y, e, side) = FrameOf(o, y, m, side)
      BY <3>3 DEF FrameOf
    <3> QED
      BY <3>1, <3>2, <3>4
  <2>2. CASE i = d
    BY <1>0, <1>7, <2>2
  <2>3. CASE i = n
    BY <1>0, <1>2, <1>7, <2>3
  <2> QED
    BY <1>5, <2>1, <2>2, <2>3
<1>14. G \in Seq(AnyFrame)
  BY <1>0
<1>15. Len(G) = n
  BY <1>0, <1>2
<1>16. Frames(o, G, e, side)
  BY <1>1, <1>11, <1>13, <1>14, <1>15 DEF Frames
<1>17. EndedOf(o, G, e) = EndedOf(o, F, m)
  BY <1>1, <1>12, <1>15 DEF EndedOf
<1> QED
  BY <1>16, <1>17

\* The last call, on node x, ends: no child is left.  What remains is G.
Ending(o, F, m, side, d, x, G) ==
    /\ side \in Sides /\ Frames(o, F, m, side)
    /\ d \in Nat \ {0} /\ d = Len(F) /\ x = F[d].node
    /\ Left(o, x, m, "attribute") = {} /\ Left(o, x, m, "element") = {}
    /\ G = Front(F)

LEMMA FramesPop ==
    ASSUME NEW o, IsObject(o), NEW F, NEW m, NEW side, NEW d, NEW x, NEW G,
           Ending(o, F, m, side, d, x, G)
    PROVE  /\ m \in Nat \ {0} /\ Frames(o, G, m, side)
           /\ x \in 1..m /\ \A y \in EndedOf(o, F, m) : Earlier(o, y, x)
           /\ EndedOf(o, G, m) = WithEnded(o, EndedOf(o, F, m), x)
           /\ d = 1 => m = Size(o) /\ EndedOf(o, G, m) = o.full /\ G = << >>
<1> SUFFICES ASSUME side \in Sides, Frames(o, F, m, side),
                    d \in Nat \ {0}, d = Len(F), x = F[d].node,
                    Left(o, x, m, "attribute") = {}, Left(o, x, m, "element") = {},
                    G = Front(F)
             PROVE  /\ m \in Nat \ {0} /\ Frames(o, G, m, side)
                    /\ x \in 1..m /\ \A y \in EndedOf(o, F, m) : Earlier(o, y, x)
                    /\ EndedOf(o, G, m) = WithEnded(o, EndedOf(o, F, m), x)
                    /\ d = 1 => m = Size(o) /\ EndedOf(o, G, m) = o.full /\ G = << >>
  BY DEF Ending
<1>1. PICK s, t : s = Path(F) /\ t = Path(G)
  OBVIOUS
<1>2. PICK f \in Nat : f = d - 1
  OBVIOUS
<1>3. /\ F \in Seq(AnyFrame) /\ Walk(o, s, d, m) /\ \A i \in 1..d : s[i] = F[i].node
      /\ \A i \in 1..d : F[i] = FrameOf(o, s[i], m, side)
  BY <1>1, PathIs DEF Frames
<1>4. G \in Seq(AnyFrame) /\ Len(G) = f /\ \A i \in 1..f : i \in 1..d /\ G[i] = F[i]
  BY <1>2, <1>3 DEF Front
<1>5. \A i \in 1..f : t[i] = s[i] /\ t[i] = G[i].node
  BY <1>1, <1>3, <1>4, PathIs
<1>6. m \in Nat \ {0} /\ d \in 1..d /\ s[d] = x /\ x \in 1..m
  BY <1>3 DEF Walk, IsObject
<1>7. ASSUME NEW c \in 2..Size(o), c > m PROVE o.parent[c] # s[d]
  <2> SUFFICES ASSUME o.parent[c] = x PROVE FALSE
    BY <1>6
  <2>1. PICK r : r = o.role[c] /\ r \in {"attribute", "element"}
    BY DEF IsObject
  <2>2. c \in Left(o, x, m, r)
    BY <1>7, <2>1 DEF Left
  <2> QED
    BY <2>1, <2>2
<1>8. \A i \in 1..(d - 1) : t[i] = s[i]
  BY <1>2, <1>5
<1>9. Walk(o, t, f, m)
  BY <1>2, <1>3, <1>7, <1>8, WalkPop
<1>10. Frames(o, G, m, side)
  BY <1>1, <1>3, <1>4, <1>5, <1>9 DEF Frames
<1>11. Ended(o, t, f, m) = WithEnded(o, Ended(o, s, d, m), x)
  <2>1. Walk(o, s, d, m)
    BY <1>3
  <2>2. Shorter(s, d, t, f)
    BY <1>2, <1>5 DEF Shorter
  <2>3. Ended(o, t, f, m) = WithEnded(o, Ended(o, s, d, m), s[d])
    BY <2>1, <2>2, EndedPop
  <2> QED
    BY <1>6, <2>3
<1>12. ASSUME NEW y \in Ended(o, s, d, m) PROVE Earlier(o, y, x)
  <2>1. y \in 1..m /\ \A i \in 1..d : s[i] # y
    BY DEF Ended
  <2> QED
    BY <1>3, <1>6, <2>1, EndedIsEarlier
<1>13. d = 1 => m = Size(o) /\ Ended(o, t, f, m) = o.full
  <2> SUFFICES ASSUME d = 1 PROVE m = Size(o) /\ Ended(o, t, f, m) = o.full
    OBVIOUS
  <2>1. Walk(o, t, 0, m) /\ f = 0
    BY <1>2, <1>9
  <2>2. m = Size(o)
    BY <1>6, <2>1, WalkDone
  <2>3. o.full \subseteq 1..m
    BY <2>2 DEF IsObject
  <2> QED
    BY <2>1, <2>2, <2>3 DEF Ended
<1>14. d = 1 => G = << >>
  BY <1>2, <1>4
<1> QED
  BY <1>1, <1>2, <1>4, <1>6, <1>10, <1>11, <1>12, <1>13, <1>14 DEF EndedOf

\* A frame is changed and one is put on top.
LEMMA Stacked ==
    ASSUME NEW F \in Seq(AnyFrame), NEW d \in Nat \ {0}, d = Len(F),
           NEW f \in AnyFrame, NEW top \in AnyFrame,
           NEW G, G = Append([F EXCEPT ![d] = f], top)
    PROVE  OnTop(F, d, f, top, G)
<1>1. PICK E : E = [F EXCEPT ![d] = f]
  OBVIOUS
<1>2. /\ E \in Seq(AnyFrame) /\ Len(E) = d /\ E[d] = f
      /\ \A i \in 1..(d - 1) : E[i] = F[i]
  BY <1>1
<1>3. G = Append(E, top)
  BY <1>1
<1>4. /\ G \in Seq(AnyFrame) /\ Len(G) = d + 1 /\ G[d + 1] = top
      /\ \A i \in 1..d : G[i] = E[i]
  BY <1>2, <1>3
<1>5. \A i \in 1..(d - 1) : G[i] = F[i]
  BY <1>2, <1>4
<1>6. G[d] = f
  BY <1>2, <1>4
<1> QED
  BY <1>4, <1>5, <1>6 DEF OnTop

\* The frames when node e, a child of x, has been entered
Entered(o, F, m, side, d, x, e, G) ==
    /\ Entering(o, F, m, side, d, x, e)
    /\ G = Append([F EXCEPT ![d] = FrameAfter(F[d], e, o.role[e], side)],
                  FrameOf(o, e, e, side))

LEMMA Enter ==
    ASSUME NEW o, IsObject(o), NEW F, NEW m, NEW side, NEW d, NEW x, NEW e, NEW G,
           Entered(o, F, m, side, d, x, e, G)
    PROVE  Frames(o, G, e, side) /\ EndedOf(o, G, e) = EndedOf(o, F, m)
<1> SUFFICES ASSUME NEW r, r = o.role[e], Entering(o, F, m, side, d, x, e),
                    G = Append([F EXCEPT ![d] = FrameAfter(F[d], e, r, side)],
                               FrameOf(o, e, e, side))
             PROVE  Frames(o, G, e, side) /\ EndedOf(o, G, e) = EndedOf(o, F, m)
  BY DEF Entered
<1>1. /\ F \in Seq(AnyFrame) /\ d \in Nat \ {0} /\ d = Len(F) /\ d \in 1..Len(F)
      /\ m \in Nat /\ e \in 2..Size(o) /\ e \in Nat /\ e = m + 1
      /\ side \in Sides /\ x = F[d].node /\ o.parent[e] = x
  BY DEF Entering, Frames
<1>2. PICK f \in AnyFrame : f = F[d]
  BY <1>1
<1>3. x \in Nat
  BY <1>1, <1>2 DEF AnyFrame
<1>4. f = FrameOf(o, x, m, side)
  BY <1>1, <1>2 DEF Frames, Entering
<1>5. PICK h \in AnyFrame : h = FrameOf(o, x, e, side)
  BY <1>1, <1>3, FrameType
<1>6. h = FrameAfter(f, e, r, side)
  BY <1>1, <1>4, <1>5, FrameTaken
<1>7. PICK top \in AnyFrame : top = FrameOf(o, e, e, side)
  BY <1>1, FrameType
<1>8. G = Append([F EXCEPT ![d] = h], top)
  BY <1>2, <1>6, <1>7
<1>9. OnTop(F, d, h, top, G)
  BY <1>1, <1>8, Stacked
<1> QED
  BY <1>5, <1>7, <1>9, FramesPush

\* What has been entered is no deeper than the limit.
Within(o, m, limit) == \A k \in 1..m : DepthOf(o)[k] <= limit

LEMMA WithinRoot ==
    ASSUME NEW o, IsObject(o), NEW limit \in Nat \ {0}
    PROVE  Within(o, 0, limit) /\ Within(o, 1, limit)
<1>1. 1 \in 1..Size(o)
  BY DEF IsObject
<1>2. DepthOf(o)[1] = 1
  BY <1>1, DepthEquation
<1> QED
  BY <1>2 DEF Within

LEMMA DepthOfLast ==
    ASSUME NEW o, IsObject(o), NEW F, NEW m, NEW side, Frames(o, F, m, side),
           NEW d \in Nat \ {0}, d = Len(F)
    PROVE  F[d].node \in 1..m /\ F[d].node \in 1..Size(o) /\ DepthOf(o)[F[d].node] = d
<1>1. PICK s : s = Path(F) /\ s[d] = F[d].node /\ Walk(o, s, d, m)
  BY PathIs DEF Frames
<1>2. d \in 1..d
  OBVIOUS
<1>3. DepthOf(o)[s[d]] = d
  BY <1>1, <1>2, DepthOfCall
<1>4. s[d] \in 1..m /\ m \in 0..Size(o) /\ Size(o) \in Nat
  BY <1>1, <1>2 DEF Walk, IsObject
<1> QED
  BY <1>1, <1>3, <1>4

LEMMA WithinNext ==
    ASSUME NEW o, IsObject(o), NEW F, NEW m, NEW side, NEW d, NEW x, NEW e,
           Entering(o, F, m, side, d, x, e),
           NEW limit \in Nat, d < limit, Within(o, m, limit)
    PROVE  Within(o, e, limit)
<1>1. /\ Frames(o, F, m, side) /\ d \in Nat \ {0} /\ d = Len(F) /\ x = F[d].node
      /\ e \in 1..Size(o) /\ e # 1 /\ e = m + 1 /\ m \in Nat /\ o.parent[e] = x
  BY DEF IsObject, Entering
<1>2. DepthOf(o)[x] = d
  BY <1>1, DepthOfLast
<1>3. DepthOf(o)[e] = d + 1
  BY <1>1, <1>2, DepthEquation
<1>4. ASSUME NEW k \in 1..e PROVE DepthOf(o)[k] <= limit
  <2>1. k = e \/ k \in 1..m
    BY <1>1
  <2> QED
    BY <1>1, <1>3, <2>1 DEF Within
<1> QED
  BY <1>4 DEF Within

LEMMA StackWithin ==
    ASSUME NEW o, IsObject(o), NEW F, NEW m, NEW side, Frames(o, F, m, side),
           NEW limit \in Nat, Within(o, m, limit)
    PROVE  Len(F) <= limit
<1>1. PICK d \in Nat : d = Len(F)
  BY DEF Frames
<1>2. CASE d = 0
  BY <1>1, <1>2
<1>3. CASE d # 0
  <2>1. F[d].node \in 1..m /\ DepthOf(o)[F[d].node] = d
    BY <1>1, <1>3, DepthOfLast
  <2> QED
    BY <1>1, <2>1 DEF Within
<1> QED
  BY <1>2, <1>3

\* A child of a call at the limit is too deep.
LEMMA TooDeep ==
    ASSUME NEW o, IsObject(o), NEW F, NEW m, NEW side, Frames(o, F, m, side),
           NEW d \in Nat \ {0}, d = Len(F), NEW limit \in Nat, d >= limit,
           NEW r, Left(o, F[d].node, m, r) # {}
    PROVE  NestingOf(o) > limit
<1>1. PICK c \in 2..Size(o) : o.parent[c] = F[d].node
  BY DEF Left
<1>2. DepthOf(o)[F[d].node] = d
  BY DepthOfLast
<1>3. c \in 1..Size(o) /\ c # 1
  BY DEF IsObject
<1>4. DepthOf(o)[c] = d + 1
  BY <1>1, <1>2, <1>3, DepthEquation
<1>5. DepthOf(o)[c] <= NestingOf(o)
  BY <1>3, NestingIs
<1>6. NestingOf(o) \in Nat
  BY NestingIs, DepthType
<1> QED
  BY <1>4, <1>5, <1>6

LEMMA WithinAll ==
    ASSUME NEW o, IsObject(o), NEW limit \in Nat, Within(o, Size(o), limit)
    PROVE  NestingOf(o) <= limit
  BY NestingIs DEF Within

\* A child is left of the last call: the next node is a child of its node, an
\* attribute if there is one, and the least that is left.
Descending(o, F, m, side, d, x, r) ==
    /\ side \in Sides /\ Frames(o, F, m, side)
    /\ d \in Nat \ {0} /\ d = Len(F) /\ x = F[d].node
    /\ r \in {"attribute", "element"} /\ Left(o, x, m, r) # {}
    /\ r = "element" => Left(o, x, m, "attribute") = {}

LEMMA EnteringNext ==
    ASSUME NEW o, IsObject(o), NEW F, NEW m, NEW side, NEW d, NEW x, NEW r,
           Descending(o, F, m, side, d, x, r)
    PROVE  \E e : /\ Entering(o, F, m, side, d, x, e) /\ o.role[e] = r
                  /\ Min(Left(o, x, m, r)) = e
<1> SUFFICES ASSUME side \in Sides, Frames(o, F, m, side),
                    d \in Nat \ {0}, d = Len(F), x = F[d].node,
                    r \in {"attribute", "element"}, Left(o, x, m, r) # {},
                    r = "element" => Left(o, x, m, "attribute") = {}
             PROVE  \E e : /\ Entering(o, F, m, side, d, x, e) /\ o.role[e] = r
                           /\ Min(Left(o, x, m, r)) = e
  BY DEF Descending
<1>1. PICK c \in 2..Size(o) : c > m /\ o.parent[c] = x /\ o.role[c] = r
  BY DEF Left
<1>2. PICK s : s = Path(F) /\ s[d] = x /\ Walk(o, s, d, m)
  BY PathIs DEF Frames
<1>3. /\ m + 1 \in 2..Size(o) /\ o.parent[m + 1] = x
      /\ o.role[c] = "attribute" => o.role[m + 1] = "attribute"
  BY <1>1, <1>2, NextNode
<1>4. m \in Nat /\ m # 0
  BY <1>2 DEF Walk, IsObject
<1>5. PICK e \in 2..Size(o) : e = m + 1
  BY <1>3
<1>6. o.role[e] \in {"attribute", "element"} /\ e > m
  BY <1>4, <1>5 DEF IsObject
<1>7. r = "element" => o.role[e] # "attribute"
  <2> SUFFICES ASSUME r = "element", o.role[e] = "attribute" PROVE FALSE
    OBVIOUS
  <2>1. e \in Left(o, x, m, "attribute")
    BY <1>3, <1>5, <1>6 DEF Left
  <2> QED
    BY <2>1
<1>8. o.parent[e] = x /\ o.role[e] = r
  BY <1>1, <1>3, <1>5, <1>6, <1>7
<1>9. Entering(o, F, m, side, d, x, e)
  BY <1>4, <1>5, <1>8 DEF Entering
<1>10. Min(Left(o, x, m, r)) = e
  BY <1>4, <1>5, <1>8, LeftTaken
<1> QED
  BY <1>8, <1>9, <1>10

--------------------------------------------------------------------------------
(* Payloads in the stream *)

DanglingOf(o) ==
    CHOOSE f : f = [j \in DOMAIN o.type |-> j \in o.temps \/ (j # 1 /\ f[o.parent[j]])]

\* What is stored as the payload of node k
Stored(o, k) == IF DanglingOf(o)[k] THEN 0 ELSE k
PayloadOf(o, k) == [unit |-> "payload", of |-> Stored(o, k)]

LEMMA PayloadIs ==
    ASSUME NEW k
    PROVE  Payload(k) = PayloadOf(obj, k)
<1>1. Dangling = DanglingOf(obj)
  BY DEF Dangling, DanglingOf, Nodes
<1> QED
  BY <1>1 DEF Payload, PayloadOf, Stored

\* Where there is no temporary, a payload is its node's.
LEMMA NothingDangles ==
    ASSUME NEW o, IsObject(o), o.temps = {}, NEW k \in 1..Size(o)
    PROVE  Stored(o, k) = k
<1>1. Size(o) \in Nat \ {0} /\ DOMAIN o.type = 1..Size(o)
  BY DEF IsObject
<1>2. \A j \in 1..Size(o) : j # 1 => o.parent[j] \in 1..Size(o) /\ o.parent[j] < j
  <2> SUFFICES ASSUME NEW j \in 1..Size(o), j # 1
               PROVE  o.parent[j] \in 1..Size(o) /\ o.parent[j] < j
    OBVIOUS
  <2>1. j \in 2..Size(o)
    BY <1>1
  <2>2. o.parent[j] \in 1..(j - 1)
    BY <2>1, ParentBefore
  <2> QED
    BY <1>1, <2>2
<1>3. PICK f : f = [j \in DOMAIN o.type |-> FALSE]
  OBVIOUS
<1>4. f = [j \in DOMAIN o.type |-> j \in o.temps \/ (j # 1 /\ f[o.parent[j]])]
  <2>1. ASSUME NEW j \in DOMAIN o.type
        PROVE  (j \in o.temps \/ (j # 1 /\ f[o.parent[j]])) = FALSE
    <3>1. j # 1 => o.parent[j] \in DOMAIN o.type
      BY <1>1, <1>2
    <3>2. j # 1 => f[o.parent[j]] = FALSE
      BY <1>3, <3>1
    <3> QED
      BY <3>2
  <2> QED
    BY <1>3, <2>1
<1>5. DanglingOf(o) = [j \in DOMAIN o.type |->
                         j \in o.temps \/ (j # 1 /\ DanglingOf(o)[o.parent[j]])]
  BY <1>4, Zenon DEF DanglingOf
<1>6. \A j \in 1..Size(o) : DanglingOf(o)[j] <=> j # 1 /\ DanglingOf(o)[o.parent[j]]
  BY <1>1, <1>5
<1> DEFINE Bad == {j \in 1..Size(o) : DanglingOf(o)[j]}
<1>7. Bad = {}
  <2> SUFFICES ASSUME Bad # {} PROVE FALSE
    OBVIOUS
  <2>1. Bad \in SUBSET Nat
    BY <1>1
  <2>2. PICK j \in Bad : \A i \in Bad : j <= i
    <3> HIDE DEF Bad
    <3> QED
      BY <2>1, Least
  <2>3. j # 1 /\ DanglingOf(o)[o.parent[j]] /\ j \in 1..Size(o)
    BY <1>6, <2>2
  <2>4. o.parent[j] \in Bad /\ o.parent[j] < j
    BY <1>2, <2>3
  <2>5. j <= o.parent[j]
    BY <2>2, <2>4
  <2> QED
    BY <1>1, <1>2, <2>3, <2>4, <2>5
<1>8. ~DanglingOf(o)[k]
  BY <1>7
<1> QED
  BY <1>8 DEF Stored

\* The payloads of w, in their order, after the first p units of st
PayloadsIn(o, st, p, w) ==
    /\ p \in Nat /\ st \in Seq(Units) /\ w \in Seq(Nat) /\ Len(st) = p + Len(w)
    /\ \A i \in 1..Len(w) : st[p + i] = PayloadOf(o, w[i])
    /\ \A i, j \in 1..Len(w) : i < j => Before(o, w[i], w[j])

\* w lists the nodes of D.
Covers(w, D) ==
    /\ \A i \in 1..Len(w) : w[i] \in D
    /\ \A k \in D : \E i \in 1..Len(w) : w[i] = k

\* The payloads of w are flushed, those of D are in the lists.
Flushing(o, st, q, w, D) ==
    /\ PayloadsIn(o, st, Pos(o, Size(o)), w) /\ HeadersIn(o, st, Size(o))
    /\ D \subseteq o.full /\ Queued(o, q, D) /\ Covers(w, o.full \ D)
    /\ \A i \in 1..Len(w) : \A x \in D : Before(o, w[i], x)

LEMMA FlushFirst ==
    ASSUME NEW o, IsObject(o), NEW st \in Seq(Units), Len(st) = Pos(o, Size(o)),
           HeadersIn(o, st, Size(o)), NEW q, Queued(o, q, o.full)
    PROVE  Flushing(o, st, q, << >>, o.full)
<1>1. Pos(o, Size(o)) \in Nat
  BY PosFacts DEF IsObject
<1>2. PICK w : w = << >> /\ w \in Seq(Nat) /\ Len(w) = 0
  <2>1. << >> \in Seq(Nat) /\ Len(<< >>) = 0
    OBVIOUS
  <2> QED
    BY <2>1
<1>3. PayloadsIn(o, st, Pos(o, Size(o)), w)
  BY <1>1, <1>2 DEF PayloadsIn
<1>4. Covers(w, o.full \ o.full)
  BY <1>2 DEF Covers
<1>5. \A i \in 1..Len(w) : \A x \in o.full : Before(o, w[i], x)
  BY <1>2
<1>6. Flushing(o, st, q, w, o.full)
  BY <1>3, <1>4, <1>5 DEF Flushing
<1> QED
  BY <1>2, <1>6

LEMMA FlushNext ==
    ASSUME NEW o, IsObject(o), NEW st, NEW q, NEW w, NEW D, Flushing(o, st, q, w, D),
           NextGroup(q) # 0, NEW g, g = Groups[NextGroup(q)], NEW h, h = Head(q[g]),
           NEW tu, tu = Append(st, PayloadOf(o, h)), NEW p, p = [q EXCEPT ![g] = Tail(@)]
    PROVE  Flushing(o, tu, p, Append(w, h), D \ {h})
<1>1. /\ h \in D /\ Queued(o, p, D \ {h}) /\ \A x \in D \ {h} : Before(o, h, x)
      /\ D \subseteq o.full
  BY QueuedNext DEF Flushing
<1>2. PICK b \in Nat : b = Pos(o, Size(o)) /\ PayloadsIn(o, st, b, w) /\ HeadersIn(o, st, Size(o))
  BY DEF Flushing, PayloadsIn
<1>3. /\ st \in Seq(Units) /\ w \in Seq(Nat) /\ Len(st) = b + Len(w) /\ Len(w) \in Nat
  BY <1>2 DEF PayloadsIn
<1>4. PICK u \in Units : u = PayloadOf(o, h)
  <2>1. h \in Nat
    BY <1>1 DEF IsObject
  <2>2. Stored(o, h) \in Nat
    BY <2>1 DEF Stored
  <2> QED
    BY <2>2 DEF PayloadOf, Units
<1>5. h \in Nat
  BY <1>1 DEF IsObject
<1>6. PICK e : e = Append(w, h)
  OBVIOUS
<1>7. PICK n \in Nat : n = Len(w) + 1
  BY <1>3
<1>8. /\ e \in Seq(Nat) /\ Len(e) = n /\ e[n] = h /\ \A i \in 1..Len(w) : e[i] = w[i]
  BY <1>3, <1>5, <1>6, <1>7
<1>9. /\ tu \in Seq(Units) /\ Len(tu) = b + n /\ tu[b + n] = u
      /\ \A i \in 1..Len(st) : tu[i] = st[i]
  BY <1>3, <1>4, <1>7
<1>10. \A i \in 1..n : i \in 1..Len(w) \/ i = n
  BY <1>3, <1>7
<1>11. \A i \in 1..n : tu[b + i] = PayloadOf(o, e[i])
  <2> SUFFICES ASSUME NEW i \in 1..n PROVE tu[b + i] = PayloadOf(o, e[i])
    OBVIOUS
  <2>1. CASE i = n
    BY <1>4, <1>8, <1>9, <2>1
  <2>2. CASE i # n
    <3>1. i \in 1..Len(w)
      BY <1>10, <2>2
    <3>2. PICK j \in 1..Len(st) : j = b + i
      BY <1>3, <3>1
    <3>3. st[j] = PayloadOf(o, w[i])
      BY <1>2, <3>1, <3>2 DEF PayloadsIn
    <3> QED
      BY <1>8, <1>9, <3>1, <3>2, <3>3
  <2> QED
    BY <2>1, <2>2
<1>12. ASSUME NEW i \in 1..n, NEW j \in 1..n, i < j PROVE Before(o, e[i], e[j])
  <2>1. i \in 1..Len(w) /\ e[i] = w[i]
    BY <1>3, <1>7, <1>8, <1>12
  <2>2. CASE j = n
    <3>1. Before(o, w[i], h)
      BY <1>1, <2>1 DEF Flushing
    <3> QED
      BY <1>8, <2>1, <2>2, <3>1
  <2>3. CASE j # n
    <3>1. j \in 1..Len(w) /\ e[j] = w[j]
      BY <1>8, <1>10, <2>3
    <3> QED
      BY <1>2, <1>12, <2>1, <3>1 DEF PayloadsIn
  <2> QED
    BY <2>2, <2>3
<1>13. PayloadsIn(o, tu, b, e)
  BY <1>8, <1>9, <1>11, <1>12 DEF PayloadsIn
<1>14. HeadersIn(o, tu, Size(o))
  <2>1. \A i \in 1..b : tu[i] = st[i]
    BY <1>3, <1>9
  <2>2. Size(o) \in Nat
    BY DEF IsObject
  <2> QED
    BY <1>2, <2>1, <2>2, HeadersKept
<1>15. Covers(e, o.full \ (D \ {h}))
  <2>1. Covers(w, o.full \ D)
    BY DEF Flushing
  <2>2. ASSUME NEW i \in 1..n PROVE e[i] \in o.full \ (D \ {h})
    <3>1. CASE i = n
      BY <1>1, <1>8, <3>1
    <3>2. CASE i # n
      <4>1. i \in 1..Len(w) /\ e[i] = w[i]
        BY <1>8, <1>10, <3>2
      <4> QED
        BY <2>1, <4>1 DEF Covers
    <3> QED
      BY <3>1, <3>2
  <2>3. ASSUME NEW k \in o.full \ (D \ {h}) PROVE \E i \in 1..n : e[i] = k
    <3>1. CASE k = h
      <4>1. n \in 1..n
        BY <1>3, <1>7
      <4> QED
        BY <1>8, <3>1, <4>1
    <3>2. CASE k # h
      <4>1. PICK i \in 1..Len(w) : w[i] = k
        BY <2>1, <3>2 DEF Covers
      <4>2. i \in 1..n /\ e[i] = k
        BY <1>3, <1>7, <1>8, <4>1
      <4> QED
        BY <4>2
    <3> QED
      BY <3>1, <3>2
  <2> QED
    BY <1>8, <2>2, <2>3 DEF Covers
<1>16. ASSUME NEW i \in 1..n, NEW x \in D \ {h} PROVE Before(o, e[i], x)
  <2>1. CASE i = n
    BY <1>1, <1>8, <2>1
  <2>2. CASE i # n
    <3>1. i \in 1..Len(w) /\ e[i] = w[i]
      BY <1>8, <1>10, <2>2
    <3> QED
      BY <3>1 DEF Flushing
  <2> QED
    BY <2>1, <2>2
<1>17. Flushing(o, tu, p, e, D \ {h})
  BY <1>1, <1>2, <1>8, <1>13, <1>14, <1>15, <1>16 DEF Flushing
<1> QED
  BY <1>6, <1>17

\* Every payload is in the stream, after the headers.
Flushed(o, st, w) ==
    /\ PayloadsIn(o, st, Pos(o, Size(o)), w) /\ HeadersIn(o, st, Size(o))
    /\ Covers(w, o.full)

LEMMA FlushLast ==
    ASSUME NEW o, IsObject(o), NEW st, NEW q, NEW w, NEW D, Flushing(o, st, q, w, D),
           NextGroup(q) = 0
    PROVE  Flushed(o, st, w)
<1>1. D = {}
  BY QueuedEmpty DEF Flushing
<1>2. o.full \ D = o.full
  BY <1>1
<1> QED
  BY <1>2 DEF Flushing, Flushed

\* The payloads of w are still to come, those of the nodes of D.
Filling(o, st, cur, q, w, D) ==
    /\ PayloadsIn(o, st, cur, w)
    /\ D \subseteq o.full /\ Queued(o, q, D) /\ Covers(w, D)

\* The next payload is that of the next node in the lists.
Taking(q, cur, h, p, c) ==
    /\ NextGroup(q) # 0 /\ h = Head(q[Groups[NextGroup(q)]])
    /\ p = [q EXCEPT ![Groups[NextGroup(q)]] = Tail(@)] /\ c = cur + 1

LEMMA FillNext ==
    ASSUME NEW o, IsObject(o), NEW st, NEW cur, NEW q, NEW w, NEW D,
           Filling(o, st, cur, q, w, D), NEW h, NEW p, NEW c, Taking(q, cur, h, p, c)
    PROVE  /\ h \in D /\ st[c] = PayloadOf(o, h)
           /\ Filling(o, st, c, p, Tail(w), D \ {h})
<1> SUFFICES ASSUME NextGroup(q) # 0, NEW g, g = Groups[NextGroup(q)], h = Head(q[g]),
                    p = [q EXCEPT ![g] = Tail(@)], c = cur + 1
             PROVE  /\ h \in D /\ st[c] = PayloadOf(o, h)
                    /\ Filling(o, st, c, p, Tail(w), D \ {h})
  BY DEF Taking
<1>1. /\ h \in D /\ Queued(o, p, D \ {h}) /\ \A x \in D \ {h} : Before(o, h, x)
      /\ D \subseteq o.full
  BY QueuedNext DEF Filling
<1>2. /\ cur \in Nat /\ st \in Seq(Units) /\ w \in Seq(Nat) /\ Len(st) = cur + Len(w)
      /\ Len(w) \in Nat
  BY DEF Filling, PayloadsIn
<1>3. PICK i \in 1..Len(w) : w[i] = h
  BY <1>1 DEF Filling, Covers
<1>4. 1 \in 1..Len(w) /\ w[1] \in D
  BY <1>2, <1>3 DEF Filling, Covers
<1>5. w[1] = h
  <2> SUFFICES ASSUME w[1] # h PROVE FALSE
    OBVIOUS
  <2>1. Before(o, h, w[1])
    BY <1>1, <1>4
  <2>2. i # 1 /\ 1 < i
    BY <1>3
  <2>3. Before(o, w[1], h)
    BY <1>3, <1>4, <2>2 DEF Filling, PayloadsIn
  <2>4. h \in 1..Size(o) /\ w[1] \in 1..Size(o)
    BY <1>1, <1>4 DEF IsObject
  <2> QED
    BY <2>1, <2>3, <2>4, BeforeIsOrder
<1>6. st[c] = PayloadOf(o, h)
  BY <1>4, <1>5 DEF Filling, PayloadsIn
<1>7. PICK e, n : e = Tail(w) /\ n = Len(w) - 1
  OBVIOUS
<1>8. n \in Nat /\ e \in Seq(Nat) /\ Len(e) = n
  BY <1>2, <1>4, <1>7
<1>9. ASSUME NEW j \in 1..n PROVE j + 1 \in 2..Len(w) /\ e[j] = w[j + 1]
  BY <1>2, <1>7
<1>10. c \in Nat /\ c = cur + 1
  BY <1>2
<1>11. ASSUME NEW j \in 1..n PROVE st[c + j] = PayloadOf(o, e[j])
  <2>1. PICK a \in 1..Len(w) : a = j + 1 /\ e[j] = w[a]
    BY <1>9
  <2>2. st[cur + a] = PayloadOf(o, w[a])
    BY <2>1 DEF Filling, PayloadsIn
  <2>3. cur + a = c + j
    BY <1>2, <1>10, <2>1
  <2> QED
    BY <2>1, <2>2, <2>3
<1>12. ASSUME NEW j \in 1..n, NEW k \in 1..n, j < k PROVE Before(o, e[j], e[k])
  <2>1. PICK a \in 1..Len(w), b \in 1..Len(w) : a = j + 1 /\ b = k + 1 /\ a < b
    BY <1>9, <1>12
  <2>2. e[j] = w[a] /\ e[k] = w[b]
    BY <1>9, <2>1
  <2> QED
    BY <2>1, <2>2 DEF Filling, PayloadsIn
<1>13. Len(st) = c + n
  BY <1>2, <1>7, <1>10
<1>14. PayloadsIn(o, st, c, e)
  BY <1>2, <1>8, <1>10, <1>11, <1>12, <1>13 DEF PayloadsIn
<1>15. ASSUME NEW j \in 1..n PROVE e[j] \in D \ {h}
  <2>1. PICK a \in 1..Len(w) : a = j + 1 /\ 1 < a /\ e[j] = w[a]
    BY <1>9
  <2>2. w[a] \in D /\ Before(o, w[1], w[a])
    BY <1>4, <2>1 DEF Filling, PayloadsIn, Covers
  <2>3. w[a] # h
    <3>1. h \in 1..Size(o)
      BY <1>1 DEF IsObject
    <3> QED
      BY <1>5, <2>2, <3>1, BeforeIsOrder
  <2> QED
    BY <2>1, <2>2, <2>3
<1>16. ASSUME NEW k \in D \ {h} PROVE \E j \in 1..n : e[j] = k
  <2>1. PICK a \in 1..Len(w) : w[a] = k
    BY DEF Filling, Covers
  <2>2. a # 1
    BY <1>5, <2>1
  <2>3. PICK j \in 1..n : a = j + 1
    BY <1>2, <1>7, <2>2
  <2>4. e[j] = k
    BY <1>9, <2>1, <2>3
  <2> QED
    BY <2>4
<1>17. Covers(e, D \ {h})
  BY <1>8, <1>15, <1>16 DEF Covers
<1>18. Filling(o, st, c, p, e, D \ {h})
  BY <1>1, <1>14, <1>17 DEF Filling
<1> QED
  BY <1>1, <1>6, <1>7, <1>10, <1>18

LEMMA FillLast ==
    ASSUME NEW o, IsObject(o), NEW st, NEW cur, NEW q, NEW w, NEW D,
           Filling(o, st, cur, q, w, D), NextGroup(q) = 0
    PROVE  D = {} /\ cur = Len(st)
<1>1. D = {}
  BY QueuedEmpty DEF Filling
<1>2. PICK n \in Nat : n = Len(w)
  BY DEF Filling, PayloadsIn
<1>3. n = 0
  <2> SUFFICES ASSUME n # 0 PROVE FALSE
    OBVIOUS
  <2>1. 1 \in 1..n
    BY <1>2
  <2>2. w[1] \in D
    BY <1>2, <2>1 DEF Filling, Covers
  <2> QED
    BY <1>1, <2>2
<1>4. cur \in Nat /\ Len(st) = cur + n
  BY <1>2 DEF Filling, PayloadsIn
<1> QED
  BY <1>1, <1>3, <1>4

--------------------------------------------------------------------------------
(* The inductive invariant *)

\* The object the reader has made of node k, whose payload is p
NodeOf(o, k, p) ==
    [type |-> o.type[k], full |-> k \in o.full, parent |-> o.parent[k],
     role |-> IF k = 1 THEN "root" ELSE o.role[k],
     name |-> IF k # 1 /\ o.role[k] = "attribute" THEN k ELSE 0, payload |-> p]
AnyNode == [type : Types, full : BOOLEAN, parent : Nat,
            role : {"root", "attribute", "element"}, name : Nat, payload : Nat]

\* The first m nodes are built and those of "filled" have their payload.
Built(o, b, m, filled) ==
    /\ b \in Seq(AnyNode) /\ Len(b) = m
    /\ \A k \in 1..m : b[k] = NodeOf(o, k, IF k \in filled THEN Stored(o, k) ELSE 0)

\* The writer has entered m nodes.
Writing(o, F, q, st, limit, m) ==
    /\ m \in Nat /\ Frames(o, F, m, Writer)
    /\ st \in Seq(Units) /\ Len(st) = Pos(o, m) /\ HeadersIn(o, st, m)
    /\ Queued(o, q, EndedOf(o, F, m)) /\ Within(o, m, limit)

\* The reader has entered m nodes.
Reading(o, F, q, cur, b, limit, m) ==
    /\ m \in Nat /\ Frames(o, F, m, Reader)
    /\ cur = Pos(o, m) /\ Built(o, b, m, {})
    /\ Queued(o, q, EndedOf(o, F, m)) /\ Within(o, m, limit)

NothingRead == cursor = 0 /\ rstack = << >> /\ lists = NoPayloads /\ built = << >>
WithinWrite == stack = << >> /\ Within(obj, Size(obj), limits.write)
WithinRead == rstack = << >> /\ Within(obj, Size(obj), limits.read)

InvWrite ==
    NothingRead /\ \E m : Writing(obj, stack, queues, stream, limits.write, m)
InvFlush ==
    NothingRead /\ WithinWrite /\ \E w, D : Flushing(obj, stream, queues, w, D)
InvRead ==
    /\ WithinWrite /\ \E w : Flushed(obj, stream, w)
    /\ \E m : Reading(obj, rstack, lists, cursor, built, limits.read, m)
InvPayloads ==
    /\ WithinWrite /\ WithinRead
    /\ \E w, D : /\ Filling(obj, stream, cursor, lists, w, D)
                 /\ Built(obj, built, Size(obj), obj.full \ D)
InvOk ==
    /\ WithinWrite /\ WithinRead
    /\ cursor = Len(stream) /\ Built(obj, built, Size(obj), obj.full)
InvWriteDepth ==
    NothingRead /\ Len(stack) <= limits.write /\ NestingOf(obj) > limits.write
InvReadDepth ==
    WithinWrite /\ Len(rstack) <= limits.read /\ NestingOf(obj) > limits.read

IInv ==
    /\ IsObject(obj) /\ limits.write \in Nat \ {0} /\ limits.read \in Nat \ {0}
    /\ \/ mode = "write" /\ InvWrite
       \/ mode = "flush" /\ InvFlush
       \/ mode = "read" /\ InvRead
       \/ mode = "payloads" /\ InvPayloads
       \/ mode = "ok" /\ InvOk
       \/ mode = "write_depth" /\ InvWriteDepth
       \/ mode = "read_depth" /\ InvReadDepth

LEMMA InitInv == Init => IInv
<1> SUFFICES ASSUME Init PROVE IInv
  OBVIOUS
<1>1. PICK n \in 1..MaxNodes : \E parent \in [1..n -> 0..(n - 1)] :
         /\ Preorder(parent, n)
         /\ \E type \in [1..n -> Types], role \in [2..n -> {"attribute", "element"}] :
              /\ Roles(parent, role, type, n)
              /\ \E full \in SUBSET {k \in 1..n : type[k] \notin {"nil", "list"}},
                    temps \in (IF Temporaries THEN SUBSET (2..n) ELSE {{}}) :
                   obj = [parent |-> parent, role |-> role, type |-> type,
                          full |-> full, temps |-> temps]
  BY DEF Init
<1>2. PICK parent \in [1..n -> 0..(n - 1)] :
         /\ Preorder(parent, n)
         /\ \E type \in [1..n -> Types], role \in [2..n -> {"attribute", "element"}] :
              /\ Roles(parent, role, type, n)
              /\ \E full \in SUBSET {k \in 1..n : type[k] \notin {"nil", "list"}},
                    temps \in (IF Temporaries THEN SUBSET (2..n) ELSE {{}}) :
                   obj = [parent |-> parent, role |-> role, type |-> type,
                          full |-> full, temps |-> temps]
  BY <1>1
<1>3. PICK type \in [1..n -> Types], role \in [2..n -> {"attribute", "element"}] :
         /\ Roles(parent, role, type, n)
         /\ \E full \in SUBSET {k \in 1..n : type[k] \notin {"nil", "list"}},
               temps \in (IF Temporaries THEN SUBSET (2..n) ELSE {{}}) :
              obj = [parent |-> parent, role |-> role, type |-> type,
                     full |-> full, temps |-> temps]
  BY <1>2
<1>4. PICK full \in SUBSET {k \in 1..n : type[k] \notin {"nil", "list"}},
            temps \in (IF Temporaries THEN SUBSET (2..n) ELSE {{}}) :
              obj = [parent |-> parent, role |-> role, type |-> type,
                     full |-> full, temps |-> temps]
  BY <1>3
<1>5. n \in Nat \ {0}
  BY ObjectsAssumption
<1>6. /\ obj.type = type /\ obj.parent = parent /\ obj.role = role /\ obj.full = full
      /\ DOMAIN obj.type = 1..n
  BY <1>4
<1>7. Size(obj) = n
  <2>1. Cardinality(1..n) = n
    BY <1>5, FS_Interval
  <2> QED
    BY <1>6, <2>1 DEF Size
<1>8. IsObject(obj)
  BY <1>2, <1>3, <1>4, <1>5, <1>6, <1>7 DEF IsObject
<1>9. limits.write \in Nat \ {0} /\ limits.read \in Nat \ {0}
  BY DepthAssumption DEF Init
<1>10. /\ mode = "write" /\ stack = << >> /\ queues = NoPayloads /\ stream = << >>
      /\ NothingRead
  BY DEF Init, NothingRead
<1>11. Writing(obj, stack, queues, stream, limits.write, 0)
  <2>1. Frames(obj, stack, 0, Writer) /\ EndedOf(obj, stack, 0) = {}
    BY <1>8, <1>10, FramesNone
  <2>2. Queued(obj, queues, {})
    BY <1>10, QueuedNone
  <2>3. stream \in Seq(Units) /\ Len(stream) = 0 /\ Pos(obj, 0) = 0
    BY <1>10, PosFacts
  <2>4. HeadersIn(obj, stream, 0)
    BY DEF HeadersIn
  <2>5. Within(obj, 0, limits.write)
    BY <1>8, <1>9, WithinRoot
  <2> QED
    BY <2>1, <2>2, <2>3, <2>4, <2>5 DEF Writing
<1> QED
  BY <1>8, <1>9, <1>10, <1>11 DEF IInv, InvWrite


\* The last frame
LEMMA LastFrame ==
    ASSUME NEW o, NEW F, NEW m, NEW side, Frames(o, F, m, side), F # << >>
    PROVE  \E d \in Nat \ {0}, x \in Nat :
              /\ d = Len(F) /\ x = F[d].node /\ Last(F) = F[d] /\ F[d] \in AnyFrame
              /\ F[d] = FrameOf(o, x, m, side)
<1>1. F \in Seq(AnyFrame) /\ \A i \in 1..Len(F) : F[i] = FrameOf(o, F[i].node, m, side)
  BY DEF Frames
<1>2. PICK d \in Nat \ {0} : d = Len(F)
  BY <1>1
<1>3. d \in 1..d /\ Last(F) = F[d] /\ F[d] \in AnyFrame
  BY <1>1, <1>2 DEF Last
<1>4. F[d].node \in Nat
  BY <1>3 DEF AnyFrame
<1> QED
  BY <1>1, <1>2, <1>3, <1>4

LEMMA FrameParts ==
    ASSUME NEW o, NEW x, NEW m
    PROVE  /\ FrameOf(o, x, m, Writer).node = x /\ FrameOf(o, x, m, Reader).node = x
           /\ FrameOf(o, x, m, Writer).attributes = Left(o, x, m, "attribute")
           /\ FrameOf(o, x, m, Writer).elements = Left(o, x, m, "element")
           /\ FrameOf(o, x, m, Reader).attributes = Cardinality(Left(o, x, m, "attribute"))
           /\ FrameOf(o, x, m, Reader).elements = Cardinality(Left(o, x, m, "element"))
  BY SidesAre DEF FrameOf

\* The writer enters the next node.
LEMMA WritingNext ==
    ASSUME NEW o, IsObject(o), NEW F, NEW q, NEW st, NEW limit \in Nat, NEW m,
           Writing(o, F, q, st, limit, m),
           NEW d, NEW x, NEW e, NEW G, Entered(o, F, m, Writer, d, x, e, G), d < limit,
           NEW tu, tu = WithHeader(o, st, e)
    PROVE  Writing(o, G, q, tu, limit, e)
<1>1. m \in Nat /\ e \in 2..Size(o) /\ e = m + 1 /\ Entering(o, F, m, Writer, d, x, e)
  BY DEF Entered, Entering
<1>2. e \in Nat /\ e \in 1..Size(o)
  BY <1>1 DEF IsObject
<1>3. Frames(o, G, e, Writer) /\ EndedOf(o, G, e) = EndedOf(o, F, m)
  BY Enter
<1>4. tu \in Seq(Units) /\ Len(tu) = Pos(o, e) /\ HeadersIn(o, tu, e)
  <2>1. st \in Seq(Units) /\ Len(st) = Pos(o, m) /\ HeadersIn(o, st, m)
    BY DEF Writing
  <2> QED
    BY <1>1, <1>2, <2>1, HeadersNext
<1>5. Within(o, e, limit)
  <2>1. Within(o, m, limit)
    BY DEF Writing
  <2> QED
    BY <1>1, <2>1, WithinNext
<1>6. Queued(o, q, EndedOf(o, G, e))
  BY <1>3 DEF Writing
<1> QED
  BY <1>2, <1>3, <1>4, <1>5, <1>6 DEF Writing

\* The lists when the call on node k has ended
WithQueued(o, q, k) ==
    IF k \in o.full THEN [q EXCEPT ![Group(o, k)] = Append(@, k)] ELSE q

LEMMA QueuedEnd ==
    ASSUME NEW o, IsObject(o), NEW q, NEW D, Queued(o, q, D), NEW k,
           \A x \in D : Earlier(o, x, k)
    PROVE  Queued(o, WithQueued(o, q, k), WithEnded(o, D, k))
<1>1. CASE k \in o.full
  <2>1. Queued(o, [q EXCEPT ![Group(o, k)] = Append(@, k)], D \cup {k})
    BY <1>1, QueuedAppend
  <2> QED
    BY <1>1, <2>1 DEF WithQueued, WithEnded
<1>2. CASE k \notin o.full
  BY <1>2 DEF WithQueued, WithEnded
<1> QED
  BY <1>1, <1>2

\* The last call of the writer ends.
LEMMA WritingEnds ==
    ASSUME NEW o, IsObject(o), NEW F, NEW q, NEW st, NEW limit, NEW m,
           Writing(o, F, q, st, limit, m),
           NEW d, NEW x, NEW G, Ending(o, F, m, Writer, d, x, G), NEW p, p = WithQueued(o, q, x)
    PROVE  /\ Writing(o, G, p, st, limit, m)
           /\ d = 1 => m = Size(o) /\ EndedOf(o, G, m) = o.full /\ G = << >>
<1>1. Frames(o, F, m, Writer) /\ Queued(o, q, EndedOf(o, F, m))
  BY DEF Writing
<1>2. /\ Frames(o, G, m, Writer)
      /\ \A y \in EndedOf(o, F, m) : Earlier(o, y, x)
      /\ EndedOf(o, G, m) = WithEnded(o, EndedOf(o, F, m), x)
      /\ d = 1 => m = Size(o) /\ EndedOf(o, G, m) = o.full /\ G = << >>
  BY <1>1, FramesPop
<1>3. Queued(o, p, EndedOf(o, G, m))
  BY <1>1, <1>2, QueuedEnd
<1> QED
  BY <1>2, <1>3 DEF Writing

\* The writer's frame of node k when it is entered
LEMMA WriterFrame ==
    ASSUME IsObject(obj), NEW k \in 1..Size(obj)
    PROVE  Frame(k) = FrameOf(obj, k, k, Writer)
<1>1. \A r : Left(obj, k, k, r) = Kids(obj, k, r)
  BY LeftAtFirst
<1> QED
  BY <1>1, ChildrenAre, SidesAre DEF Frame, FrameOf

\* The invariant, in the mode that it is about
LEMMA Modes ==
    ASSUME IInv
    PROVE  /\ IsObject(obj) /\ limits.write \in Nat \ {0} /\ limits.read \in Nat \ {0}
           /\ mode = "write" => InvWrite
           /\ mode = "flush" => InvFlush
           /\ mode = "read" => InvRead
           /\ mode = "payloads" => InvPayloads
           /\ mode = "ok" => InvOk
           /\ mode = "write_depth" => InvWriteDepth
           /\ mode = "read_depth" => InvReadDepth
  BY DEF IInv

--------------------------------------------------------------------------------
(* The writer's steps *)

LEMMA WriteRootKeeps ==
    ASSUME IInv, WriteRoot
    PROVE  IInv'
<1> DEFINE o == obj
           limit == limits.write
<1>1. /\ IsObject(o) /\ limit \in Nat \ {0} /\ limits.read \in Nat \ {0}
      /\ NothingRead /\ \E m : Writing(o, stack, queues, stream, limit, m)
  BY Modes DEF WriteRoot, InvWrite
<1>2. PICK m : Writing(o, stack, queues, stream, limit, m)
  BY <1>1
<1>3. m = 0
  <2>1. m \in Nat /\ Pos(o, m) = 0
    BY <1>2 DEF Writing, WriteRoot
  <2> QED
    BY <2>1, PosFacts
<1>4. stack' = <<FrameOf(o, 1, 1, Writer)>>
  <2>1. 1 \in 1..Size(o)
    BY <1>1 DEF IsObject
  <2>2. \A r : Left(o, 1, 1, r) = Kids(o, 1, r)
    BY <1>1, <2>1, LeftAtFirst
  <2>3. Frame(1) = FrameOf(o, 1, 1, Writer)
    BY <1>1, <2>2, ChildrenAre, SidesAre DEF Frame, FrameOf
  <2> QED
    BY <2>3 DEF WriteRoot
<1>5. stream' = WithHeader(o, stream, 1)
  <2>1. Header(1) = HeaderOf(o, 1)
    BY <1>1, ChildrenAre
  <2>2. stream' = Append(stream, Header(1))
    BY DEF WriteRoot
  <2> QED
    BY <2>1, <2>2 DEF WithHeader
<1>6. Frames(o, stack', 1, Writer) /\ EndedOf(o, stack', 1) = {}
  BY <1>1, <1>4, FramesRoot, SidesAre
<1>7. stream' \in Seq(Units) /\ Len(stream') = Pos(o, 1) /\ HeadersIn(o, stream', 1)
  <2>1. /\ stream \in Seq(Units) /\ Len(stream) = Pos(o, 0) /\ HeadersIn(o, stream, 0)
    BY <1>2, <1>3 DEF Writing
  <2>2. PICK e \in 1..Size(o) : e = 1 /\ e = 0 + 1
    BY <1>1 DEF IsObject
  <2> QED
    BY <1>1, <1>5, <2>1, <2>2, HeadersNext
<1>8. Queued(o, queues, {})
  <2>1. EndedOf(o, stack, 0) = {}
    BY DEF EndedOf, Ended
  <2> QED
    BY <1>2, <1>3, <2>1 DEF Writing
<1>9. Within(o, 1, limit)
  BY <1>1, WithinRoot
<1>10. /\ o' = o /\ limits' = limits /\ mode' = "write" /\ queues' = queues
       /\ UNCHANGED <<cursor, rstack, lists, built>>
  BY DEF WriteRoot, reader
<1>11. Writing(o, stack', queues', stream', limit, 1)
  BY <1>6, <1>7, <1>8, <1>9, <1>10 DEF Writing
<1> QED
  BY <1>1, <1>10, <1>11 DEF IInv, InvWrite, NothingRead

LEMMA WriteAttributeKeeps ==
    ASSUME IInv, WriteAttribute
    PROVE  IInv'
<1> DEFINE o == obj
           limit == limits.write
<1>1. /\ IsObject(o) /\ limit \in Nat \ {0} /\ limits.read \in Nat \ {0}
      /\ NothingRead /\ \E m : Writing(o, stack, queues, stream, limit, m)
  BY Modes DEF WriteAttribute, InvWrite
<1>2. PICK m : Writing(o, stack, queues, stream, limit, m)
  BY <1>1
<1>3. Frames(o, stack, m, Writer) /\ stack # << >> /\ ~AtLimit(stack, limit)
  BY <1>2 DEF Writing, WriteAttribute
<1>4. PICK d \in Nat \ {0}, x \in Nat :
         /\ d = Len(stack) /\ x = stack[d].node /\ Last(stack) = stack[d]
         /\ stack[d] \in AnyFrame /\ stack[d] = FrameOf(o, x, m, Writer)
  BY <1>3, LastFrame
<1>5. Last(stack).attributes = Left(o, x, m, "attribute")
  BY <1>4, FrameParts
<1>6. d < limit
  BY <1>1, <1>3, <1>4 DEF AtLimit
<1>7. PICK r \in {"attribute", "element"} : r = "attribute"
  OBVIOUS
<1>8. Descending(o, stack, m, Writer, d, x, r)
  BY <1>3, <1>4, <1>5, <1>7, SidesAre DEF WriteAttribute, Descending
<1>9. PICK e : /\ Entering(o, stack, m, Writer, d, x, e) /\ o.role[e] = r
               /\ Min(Left(o, x, m, r)) = e
  BY <1>1, <1>8, EnteringNext
<1>10. e \in 1..Size(o) /\ e # 1
  BY <1>1, <1>9 DEF Entering, IsObject
<1>11. stack' = Append([stack EXCEPT ![d] = FrameAfter(stack[d], e, r, Writer)],
                       FrameOf(o, e, e, Writer))
  <2>1. FrameAfter(stack[d], e, r, Writer) =
          [stack[d] EXCEPT !.attributes = stack[d].attributes \ {e}]
    BY <1>4, <1>7, FrameAfterIs
  <2>2. FrameAfter(stack[d], e, r, Writer) =
          [stack[d] EXCEPT !.attributes = Left(o, x, m, r) \ {e}]
    BY <1>4, <1>5, <1>7, <2>1, Zenon
  <2>3. stack' = Append([stack EXCEPT ![d].attributes = Left(o, x, m, r) \ {e}], Frame(e))
    BY <1>4, <1>5, <1>7, <1>9 DEF WriteAttribute
  <2>4. Frame(e) = FrameOf(o, e, e, Writer)
    BY <1>1, <1>10, WriterFrame
  <2> QED
    BY <2>2, <2>3, <2>4, Zenon
<1>12. stream' = WithHeader(o, stream, e)
  <2>1. stream' = stream \o <<Name(e), Header(e)>> /\ Header(e) = HeaderOf(o, e)
    BY <1>1, <1>5, <1>7, <1>9, ChildrenAre DEF WriteAttribute
  <2> QED
    BY <1>7, <1>9, <1>10, <2>1 DEF WithHeader
<1>13. Writing(o, stack', queues, stream', limit, e)
  <2>1. Entered(o, stack, m, Writer, d, x, e, stack')
    BY <1>9, <1>11, Zenon DEF Entered
  <2> QED
    BY <1>1, <1>2, <1>6, <1>12, <2>1, WritingNext
<1>14. /\ o' = o /\ limits' = limits /\ mode' = "write" /\ queues' = queues
       /\ UNCHANGED <<cursor, rstack, lists, built>>
  BY DEF WriteAttribute, reader
<1> QED
  BY <1>1, <1>13, <1>14 DEF IInv, InvWrite, NothingRead

LEMMA WriteElementKeeps ==
    ASSUME IInv, WriteElement
    PROVE  IInv'
<1> DEFINE o == obj
           limit == limits.write
<1>1. /\ IsObject(o) /\ limit \in Nat \ {0} /\ limits.read \in Nat \ {0}
      /\ NothingRead /\ \E m : Writing(o, stack, queues, stream, limit, m)
  BY Modes DEF WriteElement, InvWrite
<1>2. PICK m : Writing(o, stack, queues, stream, limit, m)
  BY <1>1
<1>3. Frames(o, stack, m, Writer) /\ stack # << >> /\ ~AtLimit(stack, limit)
  BY <1>2 DEF Writing, WriteElement
<1>4. PICK d \in Nat \ {0}, x \in Nat :
         /\ d = Len(stack) /\ x = stack[d].node /\ Last(stack) = stack[d]
         /\ stack[d] \in AnyFrame /\ stack[d] = FrameOf(o, x, m, Writer)
  BY <1>3, LastFrame
<1>5. /\ Last(stack).attributes = Left(o, x, m, "attribute")
      /\ Last(stack).elements = Left(o, x, m, "element")
  BY <1>4, FrameParts
<1>6. d < limit
  BY <1>1, <1>3, <1>4 DEF AtLimit
<1>7. PICK r \in {"attribute", "element"} : r = "element"
  OBVIOUS
<1>8. Descending(o, stack, m, Writer, d, x, r)
  BY <1>3, <1>4, <1>5, <1>7, SidesAre DEF WriteElement, Descending
<1>9. PICK e : /\ Entering(o, stack, m, Writer, d, x, e) /\ o.role[e] = r
               /\ Min(Left(o, x, m, r)) = e
  BY <1>1, <1>8, EnteringNext
<1>10. e \in 1..Size(o)
  BY <1>1, <1>9 DEF Entering, IsObject
<1>11. stack' = Append([stack EXCEPT ![d] = FrameAfter(stack[d], e, r, Writer)],
                       FrameOf(o, e, e, Writer))
  <2>1. FrameAfter(stack[d], e, r, Writer) =
          [stack[d] EXCEPT !.elements = stack[d].elements \ {e}]
    BY <1>4, <1>7, FrameAfterIs
  <2>2. FrameAfter(stack[d], e, r, Writer) =
          [stack[d] EXCEPT !.elements = Left(o, x, m, r) \ {e}]
    BY <1>4, <1>5, <1>7, <2>1, Zenon
  <2>3. stack' = Append([stack EXCEPT ![d].elements = Left(o, x, m, r) \ {e}], Frame(e))
    BY <1>4, <1>5, <1>7, <1>9 DEF WriteElement
  <2>4. Frame(e) = FrameOf(o, e, e, Writer)
    BY <1>1, <1>10, WriterFrame
  <2> QED
    BY <2>2, <2>3, <2>4, Zenon
<1>12. stream' = WithHeader(o, stream, e)
  <2>1. stream' = Append(stream, Header(e)) /\ Header(e) = HeaderOf(o, e)
    BY <1>1, <1>5, <1>7, <1>9, ChildrenAre DEF WriteElement
  <2> QED
    BY <1>7, <1>9, <2>1 DEF WithHeader
<1>13. Writing(o, stack', queues, stream', limit, e)
  <2>1. Entered(o, stack, m, Writer, d, x, e, stack')
    BY <1>9, <1>11, Zenon DEF Entered
  <2> QED
    BY <1>1, <1>2, <1>6, <1>12, <2>1, WritingNext
<1>14. /\ o' = o /\ limits' = limits /\ mode' = "write" /\ queues' = queues
       /\ UNCHANGED <<cursor, rstack, lists, built>>
  BY DEF WriteElement, reader
<1> QED
  BY <1>1, <1>13, <1>14 DEF IInv, InvWrite, NothingRead

LEMMA WriteTooDeepKeeps ==
    ASSUME IInv, WriteTooDeep
    PROVE  IInv'
<1> DEFINE o == obj
           limit == limits.write
<1>1. /\ IsObject(o) /\ limit \in Nat \ {0} /\ limits.read \in Nat \ {0}
      /\ NothingRead /\ \E m : Writing(o, stack, queues, stream, limit, m)
  BY Modes DEF WriteTooDeep, InvWrite
<1>2. PICK m : Writing(o, stack, queues, stream, limit, m)
  BY <1>1
<1>3. /\ Frames(o, stack, m, Writer) /\ Within(o, m, limit)
      /\ stack # << >> /\ AtLimit(stack, limit)
  BY <1>2 DEF Writing, WriteTooDeep
<1>4. PICK d \in Nat \ {0}, x \in Nat :
         /\ d = Len(stack) /\ x = stack[d].node /\ Last(stack) = stack[d]
         /\ stack[d] \in AnyFrame /\ stack[d] = FrameOf(o, x, m, Writer)
  BY <1>3, LastFrame
<1>5. /\ Last(stack).attributes = Left(o, x, m, "attribute")
      /\ Last(stack).elements = Left(o, x, m, "element")
  BY <1>4, FrameParts
<1>6. PICK r : Left(o, x, m, r) # {}
  BY <1>5 DEF WriteTooDeep
<1>7. NestingOf(o) > limit
  <2>1. d >= limit
    BY <1>1, <1>3, <1>4 DEF AtLimit
  <2> QED
    BY <1>1, <1>3, <1>4, <1>6, <2>1, TooDeep
<1>8. Len(stack) <= limit
  BY <1>1, <1>3, StackWithin
<1>9. /\ o' = o /\ limits' = limits /\ mode' = "write_depth" /\ stack' = stack
      /\ UNCHANGED <<cursor, rstack, lists, built>>
  BY DEF WriteTooDeep, writer, reader
<1> QED
  BY <1>1, <1>7, <1>8, <1>9 DEF IInv, InvWriteDepth, NothingRead

LEMMA WriteEndKeeps ==
    ASSUME IInv, WriteEnd
    PROVE  IInv'
<1> DEFINE o == obj
           limit == limits.write
<1>1. /\ IsObject(o) /\ limit \in Nat \ {0} /\ limits.read \in Nat \ {0}
      /\ NothingRead /\ \E m : Writing(o, stack, queues, stream, limit, m)
  BY Modes DEF WriteEnd, InvWrite
<1>2. PICK m : Writing(o, stack, queues, stream, limit, m)
  BY <1>1
<1>3. Frames(o, stack, m, Writer) /\ stack # << >>
  BY <1>2 DEF Writing, WriteEnd
<1>4. PICK d \in Nat \ {0}, x \in Nat :
         /\ d = Len(stack) /\ x = stack[d].node /\ Last(stack) = stack[d]
         /\ stack[d] \in AnyFrame /\ stack[d] = FrameOf(o, x, m, Writer)
  BY <1>3, LastFrame
<1>5. /\ Last(stack).attributes = Left(o, x, m, "attribute")
      /\ Last(stack).elements = Left(o, x, m, "element") /\ Last(stack).node = x
  BY <1>4, FrameParts
<1>6. Ending(o, stack, m, Writer, d, x, stack')
  <2>1. Last(stack).attributes \cup Last(stack).elements = {} /\ stack' = Front(stack)
    BY DEF WriteEnd
  <2>2. Left(o, x, m, "attribute") = {} /\ Left(o, x, m, "element") = {}
    BY <1>5, <2>1
  <2> QED
    BY <1>3, <1>4, <2>1, <2>2, SidesAre DEF Ending
<1>7. queues' = WithQueued(o, queues, x)
  BY <1>5, Zenon DEF WriteEnd, WithQueued, Group
<1>8. /\ Writing(o, stack', queues', stream, limit, m)
      /\ d = 1 => m = Size(o) /\ EndedOf(o, stack', m) = o.full /\ stack' = << >>
  BY <1>1, <1>2, <1>6, <1>7, WritingEnds
<1>9. /\ o' = o /\ limits' = limits /\ stream' = stream
      /\ mode' = IF d = 1 THEN "flush" ELSE "write"
      /\ UNCHANGED <<cursor, rstack, lists, built>>
  BY <1>4, Zenon DEF WriteEnd, reader
<1>10. CASE d # 1
  <2>1. mode' = "write"
    BY <1>9, <1>10
  <2>2. Writing(o, stack', queues', stream', limit, m)
    BY <1>8, <1>9
  <2> QED
    BY <1>1, <1>9, <2>1, <2>2 DEF IInv, InvWrite, NothingRead
<1>11. CASE d = 1
  <2>1. mode' = "flush" /\ m = Size(o) /\ EndedOf(o, stack', m) = o.full /\ stack' = << >>
    BY <1>8, <1>9, <1>11
  <2>2. /\ stream \in Seq(Units) /\ Len(stream) = Pos(o, Size(o))
        /\ HeadersIn(o, stream, Size(o)) /\ Queued(o, queues', o.full)
        /\ Within(o, Size(o), limit)
    BY <1>8, <2>1 DEF Writing
  <2>3. Flushing(o, stream, queues', << >>, o.full)
    BY <1>1, <2>2, FlushFirst
  <2> QED
    BY <1>1, <1>9, <2>1, <2>2, <2>3 DEF IInv, InvFlush, NothingRead, WithinWrite
<1> QED
  BY <1>10, <1>11

LEMMA FlushPayloadKeeps ==
    ASSUME IInv, FlushPayload
    PROVE  IInv'
<1> DEFINE o == obj
<1>1. /\ IsObject(o) /\ limits.write \in Nat \ {0} /\ limits.read \in Nat \ {0}
      /\ NothingRead /\ WithinWrite /\ \E w, D : Flushing(o, stream, queues, w, D)
  BY Modes DEF FlushPayload, InvFlush
<1>2. PICK w, D : Flushing(o, stream, queues, w, D)
  BY <1>1
<1>3. PICK g, h : g = Groups[NextGroup(queues)] /\ h = Head(queues[g])
  OBVIOUS
<1>4. /\ NextGroup(queues) # 0
      /\ stream' = Append(stream, PayloadOf(o, h))
      /\ queues' = [queues EXCEPT ![g] = Tail(@)]
  BY <1>3, PayloadIs DEF FlushPayload
<1>5. Flushing(o, stream', queues', Append(w, h), D \ {h})
  BY <1>1, <1>2, <1>3, <1>4, FlushNext
<1>6. /\ o' = o /\ limits' = limits /\ mode' = "flush" /\ stack' = stack
      /\ UNCHANGED <<cursor, rstack, lists, built>>
  BY DEF FlushPayload, reader
<1> QED
  BY <1>1, <1>5, <1>6 DEF IInv, InvFlush, NothingRead, WithinWrite

LEMMA FlushDoneKeeps ==
    ASSUME IInv, FlushDone
    PROVE  IInv'
<1> DEFINE o == obj
<1>1. /\ IsObject(o) /\ limits.write \in Nat \ {0} /\ limits.read \in Nat \ {0}
      /\ NothingRead /\ WithinWrite /\ \E w, D : Flushing(o, stream, queues, w, D)
  BY Modes DEF FlushDone, InvFlush
<1>2. PICK w : Flushed(o, stream, w)
  <2>1. PICK w, D : Flushing(o, stream, queues, w, D)
    BY <1>1
  <2>2. Flushed(o, stream, w)
    BY <1>1, <2>1, FlushLast DEF FlushDone
  <2> QED
    BY <2>2
<1>3. Reading(o, rstack, lists, cursor, built, limits.read, 0)
  <2>1. cursor = 0 /\ rstack = << >> /\ lists = NoPayloads /\ built = << >>
    BY <1>1 DEF NothingRead
  <2>2. Frames(o, rstack, 0, Reader) /\ EndedOf(o, rstack, 0) = {}
    BY <1>1, <2>1, FramesNone
  <2>3. Queued(o, lists, {})
    BY <2>1, QueuedNone
  <2>4. cursor = Pos(o, 0)
    BY <2>1, PosFacts
  <2>5. Built(o, built, 0, {})
    BY <2>1 DEF Built
  <2>6. Within(o, 0, limits.read)
    BY <1>1, WithinRoot
  <2> QED
    BY <2>2, <2>3, <2>4, <2>5, <2>6 DEF Reading
<1>4. /\ o' = o /\ limits' = limits /\ mode' = "read"
      /\ UNCHANGED <<stack, queues, stream, cursor, rstack, lists, built>>
  BY DEF FlushDone, writer, reader
<1> QED
  BY <1>1, <1>2, <1>3, <1>4 DEF IInv, InvRead, WithinWrite

--------------------------------------------------------------------------------
(* The reader's steps *)

LEMMA NodeType ==
    ASSUME NEW o, IsObject(o), NEW k \in 1..Size(o), NEW p \in Nat
    PROVE  NodeOf(o, k, p) \in AnyNode
<1>1. /\ o.type[k] \in Types /\ k \in Nat
      /\ k # 1 => o.role[k] \in {"attribute", "element"}
  BY DEF IsObject
<1>2. o.parent[k] \in Nat
  <2>1. CASE k = 1
    BY <2>1 DEF IsObject, Preorder
  <2>2. CASE k # 1
    <3>1. k \in 2..Size(o)
      BY <2>2 DEF IsObject
    <3> QED
      BY <3>1, ParentBefore
  <2> QED
    BY <2>1, <2>2
<1> QED
  BY <1>1, <1>2 DEF NodeOf, AnyNode

LEMMA BuiltNext ==
    ASSUME NEW o, IsObject(o), NEW b, NEW m \in Nat, Built(o, b, m, {}),
           NEW e \in 1..Size(o), e = m + 1, NEW c, c = Append(b, NodeOf(o, e, 0))
    PROVE  Built(o, c, e, {})
<1>1. PICK v \in AnyNode : v = NodeOf(o, e, 0)
  BY NodeType
<1>2. b \in Seq(AnyNode) /\ Len(b) = m /\ \A k \in 1..m : b[k] = NodeOf(o, k, 0)
  BY DEF Built
<1>3. c \in Seq(AnyNode) /\ Len(c) = e /\ c[e] = v /\ \A k \in 1..m : c[k] = b[k]
  BY <1>1, <1>2
<1>4. \A k \in 1..e : k \in 1..m \/ k = e
  OBVIOUS
<1> QED
  BY <1>1, <1>2, <1>3, <1>4 DEF Built

\* What the reader makes of the header of node k
LEMMA NewNodeIs ==
    ASSUME NEW o, IsObject(o), NEW k \in 1..Size(o), NEW h, h = HeaderOf(o, k),
           NEW role, role = IF k = 1 THEN "root" ELSE o.role[k],
           NEW name, name = IF k # 1 /\ o.role[k] = "attribute" THEN k ELSE 0
    PROVE  NewNode(h, o.parent[k], role, name) = NodeOf(o, k, 0)
<1>1. h.type = o.type[k] /\ (h.type # "list" /\ h.length > 0 <=> k \in o.full)
  BY HeaderFacts
<1>2. (h.type # "list" /\ h.length > 0) = (k \in o.full)
  BY <1>1
<1> QED
  BY <1>1, <1>2, Zenon DEF NewNode, NodeOf

LEMMA NewFrameIs ==
    ASSUME IsObject(obj), NEW k \in 1..Size(obj), k = Len(built) + 1,
           NEW h, h = HeaderOf(obj, k)
    PROVE  NewFrame(h) = FrameOf(obj, k, k, Reader)
<1>1. \A r : Left(obj, k, k, r) = Kids(obj, k, r)
  BY LeftAtFirst
<1>2. /\ h.attributes = Cardinality(Kids(obj, k, "attribute"))
      /\ (IF h.type = "list" THEN h.length ELSE 0) = Cardinality(Kids(obj, k, "element"))
  BY HeaderFacts
<1>3. FrameOf(obj, k, k, Reader) =
        [node |-> k, attributes |-> Cardinality(Kids(obj, k, "attribute")),
         elements |-> Cardinality(Kids(obj, k, "element"))]
  BY <1>1 DEF FrameOf
<1>4. NewFrame(h) = [node |-> k, attributes |-> h.attributes,
                     elements |-> IF h.type = "list" THEN h.length ELSE 0]
  BY DEF NewFrame
<1> QED
  BY <1>2, <1>3, <1>4, Zenon

\* The reader enters the next node.
LEMMA ReadingNext ==
    ASSUME NEW o, IsObject(o), NEW F, NEW q, NEW cur, NEW b, NEW limit \in Nat, NEW m,
           Reading(o, F, q, cur, b, limit, m),
           NEW d, NEW x, NEW e, NEW G, Entered(o, F, m, Reader, d, x, e, G), d < limit,
           NEW cu, cu = Pos(o, e), NEW c, c = Append(b, NodeOf(o, e, 0))
    PROVE  Reading(o, G, q, cu, c, limit, e)
<1>1. m \in Nat /\ e \in 2..Size(o) /\ e = m + 1 /\ Entering(o, F, m, Reader, d, x, e)
  BY DEF Entered, Entering
<1>2. e \in Nat /\ e \in 1..Size(o)
  BY <1>1 DEF IsObject
<1>3. Frames(o, G, e, Reader) /\ EndedOf(o, G, e) = EndedOf(o, F, m)
  BY Enter
<1>4. Built(o, c, e, {})
  <2>1. Built(o, b, m, {})
    BY DEF Reading
  <2> QED
    BY <1>1, <1>2, <2>1, BuiltNext
<1>5. Within(o, e, limit)
  <2>1. Within(o, m, limit)
    BY DEF Reading
  <2> QED
    BY <1>1, <2>1, WithinNext
<1>6. Queued(o, q, EndedOf(o, G, e))
  BY <1>3 DEF Reading
<1> QED
  BY <1>2, <1>3, <1>4, <1>5, <1>6 DEF Reading

\* The last call of the reader ends.
LEMMA ReadingEnds ==
    ASSUME NEW o, IsObject(o), NEW F, NEW q, NEW cur, NEW b, NEW limit, NEW m,
           Reading(o, F, q, cur, b, limit, m),
           NEW d, NEW x, NEW G, Ending(o, F, m, Reader, d, x, G), NEW p, p = WithQueued(o, q, x)
    PROVE  /\ Reading(o, G, p, cur, b, limit, m)
           /\ d = 1 => m = Size(o) /\ EndedOf(o, G, m) = o.full /\ G = << >>
<1>1. Frames(o, F, m, Reader) /\ Queued(o, q, EndedOf(o, F, m))
  BY DEF Reading
<1>2. /\ Frames(o, G, m, Reader)
      /\ \A y \in EndedOf(o, F, m) : Earlier(o, y, x)
      /\ EndedOf(o, G, m) = WithEnded(o, EndedOf(o, F, m), x)
      /\ d = 1 => m = Size(o) /\ EndedOf(o, G, m) = o.full /\ G = << >>
  BY <1>1, FramesPop
<1>3. Queued(o, p, EndedOf(o, G, m))
  BY <1>1, <1>2, QueuedEnd
<1> QED
  BY <1>2, <1>3 DEF Reading

LEMMA ReadRootKeeps ==
    ASSUME IInv, ReadRoot
    PROVE  IInv'
<1> DEFINE o == obj
           limit == limits.read
<1>1. /\ IsObject(o) /\ limits.write \in Nat \ {0} /\ limit \in Nat \ {0}
      /\ WithinWrite /\ (\E w : Flushed(o, stream, w))
      /\ \E m : Reading(o, rstack, lists, cursor, built, limit, m)
  BY Modes DEF ReadRoot, InvRead
<1>2. PICK m : Reading(o, rstack, lists, cursor, built, limit, m)
  BY <1>1
<1>3. m = 0 /\ cursor = 0 /\ built = << >>
  <2>1. built = << >> /\ Len(built) = m /\ cursor = Pos(o, m)
    BY <1>2 DEF Reading, Built, ReadRoot
  <2> QED
    BY <2>1, PosFacts
<1>4. PICK e \in 1..Size(o) : e = 1 /\ e = 0 + 1 /\ e = Len(built) + 1
  BY <1>1, <1>3 DEF IsObject
<1>5. Unit(1) = HeaderOf(o, e)
  <2>1. HeadersIn(o, stream, Size(o)) /\ Pos(o, e) = 1
    BY <1>1, <1>4, PosFacts DEF Flushed
  <2>2. stream[1] = HeaderOf(o, e)
    BY <2>1 DEF HeadersIn
  <2> QED
    BY <1>3, <2>2 DEF Unit
<1>6. built' = Append(built, NodeOf(o, e, 0))
  <2>1. built' = <<NewNode(Unit(1), 0, "root", 0)>>
    BY DEF ReadRoot
  <2>2. o.parent[e] = 0
    BY <1>1, <1>4 DEF IsObject, Preorder
  <2>3. PICK role, name : role = "root" /\ name = 0
    OBVIOUS
  <2>4. /\ role = IF e = 1 THEN "root" ELSE o.role[e]
        /\ name = IF e # 1 /\ o.role[e] = "attribute" THEN e ELSE 0
    BY <1>4, <2>3
  <2>5. NewNode(Unit(1), o.parent[e], role, name) = NodeOf(o, e, 0)
    BY <1>1, <1>5, <2>4, NewNodeIs
  <2> QED
    BY <1>3, <2>1, <2>2, <2>3, <2>5
<1>7. rstack' = <<FrameOf(o, 1, 1, Reader)>>
  <2>1. NewFrame(Unit(1)) = FrameOf(o, e, e, Reader)
    BY <1>1, <1>4, <1>5, NewFrameIs
  <2> QED
    BY <1>4, <2>1 DEF ReadRoot
<1>8. Frames(o, rstack', 1, Reader) /\ EndedOf(o, rstack', 1) = {}
  BY <1>1, <1>7, FramesRoot, SidesAre
<1>9. Built(o, built', 1, {})
  <2>1. Built(o, built, 0, {})
    BY <1>2, <1>3 DEF Reading
  <2>2. Built(o, built', e, {})
    BY <1>1, <1>4, <1>6, <2>1, BuiltNext
  <2> QED
    BY <1>4, <2>2
<1>10. Queued(o, lists, {})
  <2>1. EndedOf(o, rstack, 0) = {}
    BY DEF EndedOf, Ended
  <2> QED
    BY <1>2, <1>3, <2>1 DEF Reading
<1>11. cursor' = Pos(o, 1)
  BY <1>3, PosFacts DEF ReadRoot
<1>12. Within(o, 1, limit)
  BY <1>1, WithinRoot
<1>13. /\ o' = o /\ limits' = limits /\ mode' = "read" /\ lists' = lists
       /\ UNCHANGED <<stack, queues, stream>>
  BY DEF ReadRoot, writer
<1>14. Reading(o, rstack', lists', cursor', built', limit, 1)
  BY <1>8, <1>9, <1>10, <1>11, <1>12, <1>13 DEF Reading
<1> QED
  BY <1>1, <1>13, <1>14 DEF IInv, InvRead, WithinWrite

LEMMA ReadAttributeKeeps ==
    ASSUME IInv, ReadAttribute
    PROVE  IInv'
<1> DEFINE o == obj
           limit == limits.read
<1>1. /\ IsObject(o) /\ limits.write \in Nat \ {0} /\ limit \in Nat \ {0}
      /\ WithinWrite /\ (\E w : Flushed(o, stream, w))
      /\ \E m : Reading(o, rstack, lists, cursor, built, limit, m)
  BY Modes DEF ReadAttribute, InvRead
<1>2. PICK m : Reading(o, rstack, lists, cursor, built, limit, m)
  BY <1>1
<1>3. /\ Frames(o, rstack, m, Reader) /\ rstack # << >> /\ ~AtLimit(rstack, limit)
      /\ m \in Nat /\ cursor = Pos(o, m) /\ Len(built) = m
  BY <1>2 DEF Reading, Built, ReadAttribute
<1>4. PICK d \in Nat \ {0}, x \in Nat :
         /\ d = Len(rstack) /\ x = rstack[d].node /\ Last(rstack) = rstack[d]
         /\ rstack[d] \in AnyFrame /\ rstack[d] = FrameOf(o, x, m, Reader)
  BY <1>3, LastFrame
<1>5. Last(rstack).attributes = Cardinality(Left(o, x, m, "attribute"))
  BY <1>4, FrameParts
<1>6. d < limit
  BY <1>1, <1>3, <1>4 DEF AtLimit
<1>7. PICK r \in {"attribute", "element"} : r = "attribute"
  OBVIOUS
<1>8. Descending(o, rstack, m, Reader, d, x, r)
  <2>1. Last(rstack).attributes > 0
    BY DEF ReadAttribute
  <2>2. Left(o, x, m, r) # {} /\ (r = "element" => Left(o, x, m, "attribute") = {})
    BY <1>1, <1>5, <1>7, <2>1, Finite
  <2> QED
    BY <1>3, <1>4, <2>2, SidesAre DEF Descending
<1>9. PICK e : Entering(o, rstack, m, Reader, d, x, e) /\ o.role[e] = r
  BY <1>1, <1>8, EnteringNext
<1>10. e \in 1..Size(o) /\ e # 1 /\ e = m + 1 /\ m # 0 /\ o.parent[e] = x
  BY <1>1, <1>9 DEF Entering, IsObject
<1>11. Pos(o, e) = cursor + 2
  BY <1>3, <1>7, <1>9, <1>10, PosFacts
<1>12. Unit(1).of = e /\ Unit(2) = HeaderOf(o, e)
  <2>1. HeadersIn(o, stream, Size(o))
    BY <1>1 DEF Flushed
  <2>2. PICK cu \in Nat : cu = Pos(o, e) /\ cursor + 1 = cu - 1
    BY <1>3, <1>10, <1>11, PosFacts
  <2>3. stream[cu] = HeaderOf(o, e) /\ stream[cu - 1] = Name(e)
    BY <1>7, <1>9, <1>10, <2>1, <2>2 DEF HeadersIn
  <2> QED
    BY <1>11, <2>2, <2>3 DEF Unit, Name
<1>13. built' = Append(built, NodeOf(o, e, 0))
  <2>1. built' = Append(built, NewNode(Unit(2), Last(rstack).node, "attribute", Unit(1).of))
    BY DEF ReadAttribute
  <2>2. PICK role, name : role = "attribute" /\ name = Unit(1).of
    OBVIOUS
  <2>3. /\ role = IF e = 1 THEN "root" ELSE o.role[e]
        /\ name = IF e # 1 /\ o.role[e] = "attribute" THEN e ELSE 0
    BY <1>7, <1>9, <1>10, <1>12, <2>2
  <2>4. NewNode(Unit(2), o.parent[e], role, name) = NodeOf(o, e, 0)
    BY <1>1, <1>10, <1>12, <2>3, NewNodeIs
  <2> QED
    BY <1>4, <1>10, <2>1, <2>2, <2>4
<1>14. rstack' = Append([rstack EXCEPT ![d] = FrameAfter(rstack[d], e, r, Reader)],
                        FrameOf(o, e, e, Reader))
  <2>1. FrameAfter(rstack[d], e, r, Reader) =
          [rstack[d] EXCEPT !.attributes = rstack[d].attributes - 1]
    BY <1>4, <1>7, FrameAfterIs
  <2>2. rstack' = Append([rstack EXCEPT ![d].attributes = @ - 1], NewFrame(Unit(2)))
    BY <1>4, Zenon DEF ReadAttribute
  <2>3. NewFrame(Unit(2)) = FrameOf(o, e, e, Reader)
    BY <1>1, <1>3, <1>10, <1>12, NewFrameIs
  <2> QED
    BY <2>1, <2>2, <2>3, Zenon
<1>15. cursor' = Pos(o, e)
  BY <1>11 DEF ReadAttribute
<1>16. Reading(o, rstack', lists, cursor', built', limit, e)
  <2>1. Entered(o, rstack, m, Reader, d, x, e, rstack')
    BY <1>9, <1>14, Zenon DEF Entered
  <2> QED
    BY <1>1, <1>2, <1>6, <1>13, <1>15, <2>1, ReadingNext
<1>17. /\ o' = o /\ limits' = limits /\ mode' = "read" /\ lists' = lists
       /\ UNCHANGED <<stack, queues, stream>>
  BY DEF ReadAttribute, writer
<1> QED
  BY <1>1, <1>16, <1>17 DEF IInv, InvRead, WithinWrite

LEMMA ReadElementKeeps ==
    ASSUME IInv, ReadElement
    PROVE  IInv'
<1> DEFINE o == obj
           limit == limits.read
<1>1. /\ IsObject(o) /\ limits.write \in Nat \ {0} /\ limit \in Nat \ {0}
      /\ WithinWrite /\ (\E w : Flushed(o, stream, w))
      /\ \E m : Reading(o, rstack, lists, cursor, built, limit, m)
  BY Modes DEF ReadElement, InvRead
<1>2. PICK m : Reading(o, rstack, lists, cursor, built, limit, m)
  BY <1>1
<1>3. /\ Frames(o, rstack, m, Reader) /\ rstack # << >> /\ ~AtLimit(rstack, limit)
      /\ m \in Nat /\ cursor = Pos(o, m) /\ Len(built) = m
  BY <1>2 DEF Reading, Built, ReadElement
<1>4. PICK d \in Nat \ {0}, x \in Nat :
         /\ d = Len(rstack) /\ x = rstack[d].node /\ Last(rstack) = rstack[d]
         /\ rstack[d] \in AnyFrame /\ rstack[d] = FrameOf(o, x, m, Reader)
  BY <1>3, LastFrame
<1>5. /\ Last(rstack).attributes = Cardinality(Left(o, x, m, "attribute"))
      /\ Last(rstack).elements = Cardinality(Left(o, x, m, "element"))
  BY <1>4, FrameParts
<1>6. d < limit
  BY <1>1, <1>3, <1>4 DEF AtLimit
<1>7. PICK r \in {"attribute", "element"} : r = "element"
  OBVIOUS
<1>8. Descending(o, rstack, m, Reader, d, x, r)
  <2>1. Last(rstack).attributes = 0 /\ Last(rstack).elements > 0
    BY DEF ReadElement
  <2>2. Left(o, x, m, r) # {} /\ (r = "element" => Left(o, x, m, "attribute") = {})
    BY <1>1, <1>5, <1>7, <2>1, Finite
  <2> QED
    BY <1>3, <1>4, <2>2, SidesAre DEF Descending
<1>9. PICK e : Entering(o, rstack, m, Reader, d, x, e) /\ o.role[e] = r
  BY <1>1, <1>8, EnteringNext
<1>10. e \in 1..Size(o) /\ e # 1 /\ e = m + 1 /\ m # 0 /\ o.parent[e] = x
  BY <1>1, <1>9 DEF Entering, IsObject
<1>11. Pos(o, e) = cursor + 1
  BY <1>3, <1>7, <1>9, <1>10, PosFacts
<1>12. Unit(1) = HeaderOf(o, e)
  <2>1. HeadersIn(o, stream, Size(o))
    BY <1>1 DEF Flushed
  <2>2. PICK cu \in Nat : cu = Pos(o, e)
    BY <1>3, <1>10, <1>11, PosFacts
  <2>3. stream[cu] = HeaderOf(o, e)
    BY <1>7, <1>9, <1>10, <2>1, <2>2 DEF HeadersIn
  <2> QED
    BY <1>11, <2>2, <2>3 DEF Unit
<1>13. built' = Append(built, NodeOf(o, e, 0))
  <2>1. built' = Append(built, NewNode(Unit(1), Last(rstack).node, "element", 0))
    BY DEF ReadElement
  <2>2. PICK role, name : role = "element" /\ name = 0
    OBVIOUS
  <2>3. /\ role = IF e = 1 THEN "root" ELSE o.role[e]
        /\ name = IF e # 1 /\ o.role[e] = "attribute" THEN e ELSE 0
    BY <1>7, <1>9, <1>10, <1>12, <2>2
  <2>4. NewNode(Unit(1), o.parent[e], role, name) = NodeOf(o, e, 0)
    BY <1>1, <1>10, <1>12, <2>3, NewNodeIs
  <2> QED
    BY <1>4, <1>10, <2>1, <2>2, <2>4
<1>14. rstack' = Append([rstack EXCEPT ![d] = FrameAfter(rstack[d], e, r, Reader)],
                        FrameOf(o, e, e, Reader))
  <2>1. FrameAfter(rstack[d], e, r, Reader) =
          [rstack[d] EXCEPT !.elements = rstack[d].elements - 1]
    BY <1>4, <1>7, FrameAfterIs
  <2>2. rstack' = Append([rstack EXCEPT ![d].elements = @ - 1], NewFrame(Unit(1)))
    BY <1>4, Zenon DEF ReadElement
  <2>3. NewFrame(Unit(1)) = FrameOf(o, e, e, Reader)
    BY <1>1, <1>3, <1>10, <1>12, NewFrameIs
  <2> QED
    BY <2>1, <2>2, <2>3, Zenon
<1>15. cursor' = Pos(o, e)
  BY <1>11 DEF ReadElement
<1>16. Reading(o, rstack', lists, cursor', built', limit, e)
  <2>1. Entered(o, rstack, m, Reader, d, x, e, rstack')
    BY <1>9, <1>14, Zenon DEF Entered
  <2> QED
    BY <1>1, <1>2, <1>6, <1>13, <1>15, <2>1, ReadingNext
<1>17. /\ o' = o /\ limits' = limits /\ mode' = "read" /\ lists' = lists
       /\ UNCHANGED <<stack, queues, stream>>
  BY DEF ReadElement, writer
<1> QED
  BY <1>1, <1>16, <1>17 DEF IInv, InvRead, WithinWrite

LEMMA ReadTooDeepKeeps ==
    ASSUME IInv, ReadTooDeep
    PROVE  IInv'
<1> DEFINE o == obj
           limit == limits.read
<1>1. /\ IsObject(o) /\ limits.write \in Nat \ {0} /\ limit \in Nat \ {0}
      /\ WithinWrite /\ (\E w : Flushed(o, stream, w))
      /\ \E m : Reading(o, rstack, lists, cursor, built, limit, m)
  BY Modes DEF ReadTooDeep, InvRead
<1>2. PICK m : Reading(o, rstack, lists, cursor, built, limit, m)
  BY <1>1
<1>3. /\ Frames(o, rstack, m, Reader) /\ Within(o, m, limit)
      /\ rstack # << >> /\ AtLimit(rstack, limit)
  BY <1>2 DEF Reading, ReadTooDeep
<1>4. PICK d \in Nat \ {0}, x \in Nat :
         /\ d = Len(rstack) /\ x = rstack[d].node /\ Last(rstack) = rstack[d]
         /\ rstack[d] \in AnyFrame /\ rstack[d] = FrameOf(o, x, m, Reader)
  BY <1>3, LastFrame
<1>5. /\ Last(rstack).attributes = Cardinality(Left(o, x, m, "attribute"))
      /\ Last(rstack).elements = Cardinality(Left(o, x, m, "element"))
  BY <1>4, FrameParts
<1>6. PICK r : Left(o, x, m, r) # {}
  <2>1. /\ Cardinality(Left(o, x, m, "attribute")) \in Nat
        /\ Cardinality(Left(o, x, m, "element")) \in Nat
        /\ Cardinality(Left(o, x, m, "attribute")) = 0 <=> Left(o, x, m, "attribute") = {}
        /\ Cardinality(Left(o, x, m, "element")) = 0 <=> Left(o, x, m, "element") = {}
    BY <1>1, Finite
  <2> QED
    BY <1>5, <2>1 DEF ReadTooDeep
<1>7. NestingOf(o) > limit
  <2>1. d >= limit
    BY <1>1, <1>3, <1>4 DEF AtLimit
  <2> QED
    BY <1>1, <1>3, <1>4, <1>6, <2>1, TooDeep
<1>8. Len(rstack) <= limit
  BY <1>1, <1>3, StackWithin
<1>9. /\ o' = o /\ limits' = limits /\ mode' = "read_depth" /\ stack' = stack
      /\ rstack' = rstack
  BY DEF ReadTooDeep, writer, reader
<1> QED
  BY <1>1, <1>7, <1>8, <1>9 DEF IInv, InvReadDepth, WithinWrite

LEMMA ReadEndKeeps ==
    ASSUME IInv, ReadEnd
    PROVE  IInv'
<1> DEFINE o == obj
           limit == limits.read
<1>1. /\ IsObject(o) /\ limits.write \in Nat \ {0} /\ limit \in Nat \ {0}
      /\ WithinWrite /\ (\E w : Flushed(o, stream, w))
      /\ \E m : Reading(o, rstack, lists, cursor, built, limit, m)
  BY Modes DEF ReadEnd, InvRead
<1>2. PICK m : Reading(o, rstack, lists, cursor, built, limit, m)
  BY <1>1
<1>3. Frames(o, rstack, m, Reader) /\ rstack # << >> /\ Built(o, built, m, {})
  BY <1>2 DEF Reading, ReadEnd
<1>4. PICK d \in Nat \ {0}, x \in Nat :
         /\ d = Len(rstack) /\ x = rstack[d].node /\ Last(rstack) = rstack[d]
         /\ rstack[d] \in AnyFrame /\ rstack[d] = FrameOf(o, x, m, Reader)
  BY <1>3, LastFrame
<1>5. /\ Last(rstack).attributes = Cardinality(Left(o, x, m, "attribute"))
      /\ Last(rstack).elements = Cardinality(Left(o, x, m, "element"))
      /\ Last(rstack).node = x
  BY <1>4, FrameParts
<1>6. Ending(o, rstack, m, Reader, d, x, rstack')
  <2>1. /\ Cardinality(Left(o, x, m, "attribute")) \in Nat
        /\ Cardinality(Left(o, x, m, "element")) \in Nat
        /\ Cardinality(Left(o, x, m, "attribute")) = 0 <=> Left(o, x, m, "attribute") = {}
        /\ Cardinality(Left(o, x, m, "element")) = 0 <=> Left(o, x, m, "element") = {}
    BY <1>1, Finite
  <2>2. Last(rstack).attributes + Last(rstack).elements = 0 /\ rstack' = Front(rstack)
    BY DEF ReadEnd
  <2>3. Left(o, x, m, "attribute") = {} /\ Left(o, x, m, "element") = {}
    BY <1>5, <2>1, <2>2
  <2> QED
    BY <1>3, <1>4, <2>2, <2>3, SidesAre DEF Ending
<1>7. lists' = WithQueued(o, lists, x)
  <2>1. x \in 1..m
    BY <1>1, <1>3, <1>4, DepthOfLast
  <2>2. built[x] = NodeOf(o, x, 0)
    BY <1>3, <2>1 DEF Built
  <2>3. built[x].full = (x \in o.full) /\ built[x].type = o.type[x]
    BY <2>2 DEF NodeOf
  <2>4. lists' = IF built[x].full
                   THEN [lists EXCEPT ![GroupOf(built[x].type)] = Append(@, x)]
                   ELSE lists
    BY <1>5, Zenon DEF ReadEnd
  <2> QED
    BY <2>3, <2>4, Zenon DEF WithQueued, Group
<1>8. /\ Reading(o, rstack', lists', cursor, built, limit, m)
      /\ d = 1 => m = Size(o) /\ EndedOf(o, rstack', m) = o.full /\ rstack' = << >>
  BY <1>1, <1>2, <1>6, <1>7, ReadingEnds
<1>9. /\ o' = o /\ limits' = limits /\ cursor' = cursor /\ built' = built
      /\ mode' = IF d = 1 THEN "payloads" ELSE "read"
      /\ UNCHANGED <<stack, queues, stream>>
  BY <1>4, Zenon DEF ReadEnd, writer
<1>10. CASE d # 1
  <2>1. mode' = "read"
    BY <1>9, <1>10
  <2>2. Reading(o, rstack', lists', cursor', built', limit, m)
    BY <1>8, <1>9
  <2> QED
    BY <1>1, <1>9, <2>1, <2>2 DEF IInv, InvRead, WithinWrite
<1>11. CASE d = 1
  <2>1. mode' = "payloads" /\ m = Size(o) /\ EndedOf(o, rstack', m) = o.full /\ rstack' = << >>
    BY <1>8, <1>9, <1>11
  <2>2. /\ cursor = Pos(o, Size(o)) /\ Built(o, built, Size(o), {})
        /\ Queued(o, lists', o.full) /\ Within(o, Size(o), limit)
    BY <1>8, <2>1 DEF Reading
  <2>3. PICK w : Flushed(o, stream, w)
    BY <1>1
  <2>4. Filling(o, stream, cursor, lists', w, o.full)
    BY <2>2, <2>3 DEF Flushed, Filling
  <2>5. Built(o, built, Size(o), o.full \ o.full)
    BY <2>2
  <2> QED
    BY <1>1, <1>9, <2>1, <2>2, <2>4, <2>5 DEF IInv, InvPayloads, WithinWrite, WithinRead
<1> QED
  BY <1>10, <1>11

\* The next payload goes to node h.
LEMMA BuiltFill ==
    ASSUME NEW o, IsObject(o), NEW b, NEW D \in SUBSET o.full,
           Built(o, b, Size(o), o.full \ D), NEW h \in D,
           NEW v, v = Stored(o, h), NEW c, c = [b EXCEPT ![h].payload = v]
    PROVE  Built(o, c, Size(o), o.full \ (D \ {h}))
<1>1. h \in 1..Size(o) /\ h \in o.full /\ Size(o) \in Nat
  BY DEF IsObject
<1>2. v \in Nat
  BY <1>1 DEF Stored
<1>3. /\ b \in Seq(AnyNode) /\ Len(b) = Size(o)
      /\ \A k \in 1..Size(o) : b[k] = NodeOf(o, k, IF k \in o.full \ D THEN Stored(o, k) ELSE 0)
  BY DEF Built
<1>4. PICK n : n = [b[h] EXCEPT !.payload = v]
  OBVIOUS
<1>5. n = NodeOf(o, h, v)
  <2>1. PICK p : b[h] = NodeOf(o, h, p)
    BY <1>1, <1>3
  <2> QED
    BY <1>4, <2>1 DEF NodeOf
<1>6. n \in AnyNode
  BY <1>1, <1>2, <1>5, NodeType
<1>7. c = [b EXCEPT ![h] = n]
  BY <1>4
<1>8. /\ c \in Seq(AnyNode) /\ Len(c) = Size(o) /\ c[h] = n
      /\ \A k \in 1..Size(o) : k # h => c[k] = b[k]
  BY <1>1, <1>3, <1>6, <1>7
<1>9. ASSUME NEW k \in 1..Size(o)
      PROVE  c[k] = NodeOf(o, k, IF k \in o.full \ (D \ {h}) THEN Stored(o, k) ELSE 0)
  <2>1. CASE k = h
    BY <1>1, <1>5, <1>8, <2>1
  <2>2. CASE k # h
    <3>1. k \in o.full \ (D \ {h}) <=> k \in o.full \ D
      BY <2>2
    <3> QED
      BY <1>3, <1>8, <2>2, <3>1
  <2> QED
    BY <2>1, <2>2
<1> QED
  BY <1>8, <1>9 DEF Built

LEMMA ReadPayloadKeeps ==
    ASSUME IInv, ReadPayload
    PROVE  IInv'
<1> DEFINE o == obj
<1>1. /\ IsObject(o) /\ limits.write \in Nat \ {0} /\ limits.read \in Nat \ {0}
      /\ WithinWrite /\ WithinRead
      /\ \E w, D : /\ Filling(o, stream, cursor, lists, w, D)
                   /\ Built(o, built, Size(o), o.full \ D)
  BY Modes DEF ReadPayload, InvPayloads
<1>2. PICK w, D : /\ Filling(o, stream, cursor, lists, w, D)
                  /\ Built(o, built, Size(o), o.full \ D)
  BY <1>1
<1>3. PICK h, v, c : /\ h = Head(lists[Groups[NextGroup(lists)]])
                     /\ v = Unit(1).of /\ c = cursor + 1
  OBVIOUS
<1>4. /\ Taking(lists, cursor, h, lists', c) /\ cursor' = c
      /\ built' = [built EXCEPT ![h].payload = v]
  BY <1>3 DEF ReadPayload, Taking
<1>5. /\ h \in D /\ stream[c] = PayloadOf(o, h)
      /\ Filling(o, stream, c, lists', Tail(w), D \ {h})
  BY <1>1, <1>2, <1>4, FillNext
<1>6. v = Stored(o, h)
  BY <1>3, <1>5 DEF Unit, PayloadOf
<1>7. Built(o, built', Size(o), o.full \ (D \ {h}))
  <2>1. D \in SUBSET o.full
    BY <1>2 DEF Filling
  <2> QED
    BY <1>1, <1>2, <1>4, <1>5, <1>6, <2>1, BuiltFill
<1>8. /\ o' = o /\ limits' = limits /\ mode' = "payloads" /\ rstack' = rstack
      /\ UNCHANGED <<stack, queues, stream>>
  BY DEF ReadPayload, writer
<1> QED
  BY <1>1, <1>4, <1>5, <1>7, <1>8 DEF IInv, InvPayloads, WithinWrite, WithinRead

LEMMA ReadDoneKeeps ==
    ASSUME IInv, ReadDone
    PROVE  IInv'
<1> DEFINE o == obj
<1>1. /\ IsObject(o) /\ limits.write \in Nat \ {0} /\ limits.read \in Nat \ {0}
      /\ WithinWrite /\ WithinRead
      /\ \E w, D : /\ Filling(o, stream, cursor, lists, w, D)
                   /\ Built(o, built, Size(o), o.full \ D)
  BY Modes DEF ReadDone, InvPayloads
<1>2. PICK w, D : /\ Filling(o, stream, cursor, lists, w, D)
                  /\ Built(o, built, Size(o), o.full \ D)
  BY <1>1
<1>3. D = {} /\ cursor = Len(stream)
  BY <1>1, <1>2, FillLast DEF ReadDone
<1>4. Built(o, built, Size(o), o.full)
  <2>1. o.full \ D = o.full
    BY <1>3
  <2> QED
    BY <1>2, <2>1
<1>5. /\ o' = o /\ limits' = limits /\ mode' = "ok"
      /\ UNCHANGED <<stack, stream, cursor, rstack, built>>
  BY DEF ReadDone, writer, reader
<1> QED
  BY <1>1, <1>3, <1>4, <1>5 DEF IInv, InvOk, WithinWrite, WithinRead

--------------------------------------------------------------------------------
(* The theorems *)

LEMMA StutterKeeps ==
    ASSUME IInv, UNCHANGED vars
    PROVE  IInv'
<1>1. /\ obj' = obj /\ limits' = limits /\ mode' = mode
      /\ stack' = stack /\ queues' = queues /\ stream' = stream
      /\ cursor' = cursor /\ rstack' = rstack /\ lists' = lists /\ built' = built
  BY DEF vars, writer, reader
<1>2. /\ IsObject(obj') /\ limits'.write \in Nat \ {0} /\ limits'.read \in Nat \ {0}
      /\ InvWrite' <=> InvWrite
      /\ InvFlush' <=> InvFlush
      /\ InvRead' <=> InvRead
      /\ InvPayloads' <=> InvPayloads
      /\ InvOk' <=> InvOk
      /\ InvWriteDepth' <=> InvWriteDepth
      /\ InvReadDepth' <=> InvReadDepth
  <2>1. /\ IsObject(obj') /\ limits'.write \in Nat \ {0} /\ limits'.read \in Nat \ {0}
    BY <1>1, Modes
  <2>2. NothingRead' <=> NothingRead
    BY <1>1 DEF NothingRead
  <2>3. (WithinWrite' <=> WithinWrite) /\ (WithinRead' <=> WithinRead)
    BY <1>1 DEF WithinWrite, WithinRead
  <2>4. InvWrite' <=> InvWrite
    BY <1>1, <2>2 DEF InvWrite
  <2>5. InvFlush' <=> InvFlush
    BY <1>1, <2>2, <2>3 DEF InvFlush
  <2>6. InvRead' <=> InvRead
    BY <1>1, <2>3 DEF InvRead
  <2>7. InvPayloads' <=> InvPayloads
    BY <1>1, <2>3 DEF InvPayloads
  <2>8. InvOk' <=> InvOk
    BY <1>1, <2>3 DEF InvOk
  <2>9. InvWriteDepth' <=> InvWriteDepth
    BY <1>1, <2>2 DEF InvWriteDepth
  <2>10. InvReadDepth' <=> InvReadDepth
    BY <1>1, <2>3 DEF InvReadDepth
  <2> QED
    BY <2>1, <2>4, <2>5, <2>6, <2>7, <2>8, <2>9, <2>10
<1> QED
  BY <1>1, <1>2 DEF IInv

LEMMA NextKeeps == IInv /\ [Next]_vars => IInv'
<1> SUFFICES ASSUME IInv, [Next]_vars PROVE IInv'
  OBVIOUS
<1>1. CASE WriteRoot
  BY <1>1, WriteRootKeeps
<1>2. CASE WriteAttribute
  BY <1>2, WriteAttributeKeeps
<1>3. CASE WriteElement
  BY <1>3, WriteElementKeeps
<1>4. CASE WriteTooDeep
  BY <1>4, WriteTooDeepKeeps
<1>5. CASE WriteEnd
  BY <1>5, WriteEndKeeps
<1>6. CASE FlushPayload
  BY <1>6, FlushPayloadKeeps
<1>7. CASE FlushDone
  BY <1>7, FlushDoneKeeps
<1>8. CASE ReadRoot
  BY <1>8, ReadRootKeeps
<1>9. CASE ReadAttribute
  BY <1>9, ReadAttributeKeeps
<1>10. CASE ReadElement
  BY <1>10, ReadElementKeeps
<1>11. CASE ReadTooDeep
  BY <1>11, ReadTooDeepKeeps
<1>12. CASE ReadEnd
  BY <1>12, ReadEndKeeps
<1>13. CASE ReadPayload
  BY <1>13, ReadPayloadKeeps
<1>14. CASE ReadDone
  BY <1>14, ReadDoneKeeps
<1>15. CASE UNCHANGED vars
  BY <1>15, StutterKeeps
<1> QED
  BY <1>1, <1>2, <1>3, <1>4, <1>5, <1>6, <1>7, <1>8, <1>9, <1>10, <1>11, <1>12, <1>13,
     <1>14, <1>15 DEF Next, WriterStep, ReaderStep, Terminated

LEMMA Inductive == Spec => []IInv
  BY InitInv, NextKeeps, PTL DEF Spec

\* max_depth means the same on both sides: a writer or a reader rejects an
\* object that is nested deeper than its limit and no other, and its recursion
\* never is deeper than the limit.
THEOREM DepthsAgree == Spec => []DepthAgreement
<1>1. ASSUME IInv PROVE DepthAgreement
  <2>1. /\ IsObject(obj) /\ limits.write \in Nat /\ limits.read \in Nat
    BY <1>1, Modes
  <2>2. Nesting = NestingOf(obj)
    BY DepthIs
  <2>3. WithinWrite => Len(stack) <= limits.write /\ NestingOf(obj) <= limits.write
    BY <2>1, WithinAll DEF WithinWrite
  <2>4. WithinRead => Len(rstack) <= limits.read /\ NestingOf(obj) <= limits.read
    BY <2>1, WithinAll DEF WithinRead
  <2>5. NothingRead => Len(rstack) <= limits.read
    BY <2>1 DEF NothingRead
  <2>6. CASE mode = "write" /\ InvWrite
    <3>1. PICK m : Writing(obj, stack, queues, stream, limits.write, m)
      BY <2>6 DEF InvWrite
    <3>2. Frames(obj, stack, m, Writer) /\ Within(obj, m, limits.write)
      BY <3>1 DEF Writing
    <3>3. Len(stack) <= limits.write
      BY <2>1, <3>2, StackWithin
    <3> QED
      BY <2>5, <2>6, <3>3 DEF InvWrite, DepthAgreement
  <2>7. CASE mode = "flush" /\ InvFlush
    BY <2>2, <2>3, <2>5, <2>7 DEF InvFlush, DepthAgreement
  <2>8. CASE mode = "read" /\ InvRead
    <3>1. PICK m : Reading(obj, rstack, lists, cursor, built, limits.read, m)
      BY <2>8 DEF InvRead
    <3>2. Frames(obj, rstack, m, Reader) /\ Within(obj, m, limits.read)
      BY <3>1 DEF Reading
    <3>3. Len(rstack) <= limits.read
      BY <2>1, <3>2, StackWithin
    <3> QED
      BY <2>2, <2>3, <2>8, <3>3 DEF InvRead, DepthAgreement
  <2>9. CASE mode = "payloads" /\ InvPayloads
    BY <2>2, <2>3, <2>4, <2>9 DEF InvPayloads, DepthAgreement
  <2>10. CASE mode = "ok" /\ InvOk
    BY <2>2, <2>3, <2>4, <2>10 DEF InvOk, DepthAgreement
  <2>11. CASE mode = "write_depth" /\ InvWriteDepth
    BY <2>2, <2>5, <2>11 DEF InvWriteDepth, DepthAgreement
  <2>12. CASE mode = "read_depth" /\ InvReadDepth
    BY <2>2, <2>3, <2>12 DEF InvReadDepth, DepthAgreement
  <2> QED
    BY <1>1, <2>6, <2>7, <2>8, <2>9, <2>10, <2>11, <2>12 DEF IInv
<1> QED
  BY <1>1, Inductive, PTL

\* Wherever the reader is about to take a header, a name or a payload, one is
\* there: the header of the root, the name and the header of an attribute, the
\* header of an element, the payload of the next vector noted.
UnitsInPlace ==
    /\ mode = "read" /\ built = << >> => Has(1, "header")
    /\ mode = "read" /\ rstack # << >> /\ ~AtLimit(rstack, limits.read) =>
         /\ Last(rstack).attributes > 0 => Has(1, "name") /\ Has(2, "header")
         /\ Last(rstack).attributes = 0 /\ Last(rstack).elements > 0 => Has(1, "header")
    /\ mode = "payloads" /\ NextGroup(lists) # 0 => Has(1, "payload")

\* The units of a whole stream are there for the taking.
LEMMA InStream ==
    ASSUME NEW o, IsObject(o), NEW st, NEW w, Flushed(o, st, w), NEW k \in 1..Size(o)
    PROVE  /\ Pos(o, k) \in Nat /\ k <= Pos(o, k) /\ Pos(o, k) <= Len(st) /\ Len(st) \in Nat
           /\ st[Pos(o, k)].unit = "header"
           /\ k # 1 /\ o.role[k] = "attribute" => st[Pos(o, k) - 1].unit = "name"
<1>1. PICK n \in Nat : n = Size(o) /\ k \in Nat /\ k \in 0..n
  BY DEF IsObject
<1>2. Pos(o, n) \in Nat /\ Pos(o, k) \in Nat /\ k <= Pos(o, k) /\ Pos(o, k) <= Pos(o, n)
  BY <1>1, PosFacts
<1>3. Len(st) = Pos(o, n) + Len(w) /\ Len(w) \in Nat
  BY <1>1 DEF Flushed, PayloadsIn
<1>4. st[Pos(o, k)] = HeaderOf(o, k)
  BY DEF Flushed, HeadersIn
<1>5. k # 1 /\ o.role[k] = "attribute" => st[Pos(o, k) - 1] = Name(k)
  BY DEF Flushed, HeadersIn
<1> QED
  BY <1>2, <1>3, <1>4, <1>5 DEF HeaderOf, Name

\* A child of the last call is left: it is the next in the stream.
LEMMA NextChild ==
    ASSUME IInv, mode = "read", rstack # << >>,
           NEW r \in {"attribute", "element"},
           r = "attribute" => Last(rstack).attributes > 0,
           r = "element" => Last(rstack).attributes = 0 /\ Last(rstack).elements > 0
    PROVE  /\ r = "attribute" => Has(1, "name") /\ Has(2, "header")
           /\ r = "element" => Has(1, "header")
<1> DEFINE o == obj
<1>1. IsObject(o) /\ InvRead
  BY Modes
<1>2. PICK w : Flushed(o, stream, w)
  BY <1>1 DEF InvRead
<1>3. PICK m : Reading(o, rstack, lists, cursor, built, limits.read, m)
  BY <1>1 DEF InvRead
<1>4. Frames(o, rstack, m, Reader) /\ m \in Nat /\ cursor = Pos(o, m)
  BY <1>3 DEF Reading
<1>5. PICK d \in Nat \ {0}, x \in Nat :
         /\ d = Len(rstack) /\ x = rstack[d].node /\ Last(rstack) = rstack[d]
         /\ rstack[d] \in AnyFrame /\ rstack[d] = FrameOf(o, x, m, Reader)
  BY <1>4, LastFrame
<1>6. /\ Last(rstack).attributes = Cardinality(Left(o, x, m, "attribute"))
      /\ Last(rstack).elements = Cardinality(Left(o, x, m, "element"))
  BY <1>5, FrameParts
<1>7. Descending(o, rstack, m, Reader, d, x, r)
  <2>1. Left(o, x, m, r) # {} /\ (r = "element" => Left(o, x, m, "attribute") = {})
    <3>1. CASE r = "attribute"
      BY <1>1, <1>6, <3>1, Finite
    <3>2. CASE r = "element"
      BY <1>1, <1>6, <3>2, Finite
    <3> QED
      BY <3>1, <3>2
  <2> QED
    BY <1>4, <1>5, <2>1, SidesAre DEF Descending
<1>8. PICK e : Entering(o, rstack, m, Reader, d, x, e) /\ o.role[e] = r
  BY <1>1, <1>7, EnteringNext
<1>9. e \in 1..Size(o) /\ e # 1 /\ e = m + 1 /\ m # 0
  BY <1>1, <1>8 DEF Entering, IsObject
<1>10. Pos(o, e) = IF r = "attribute" THEN cursor + 2 ELSE cursor + 1
  BY <1>4, <1>8, <1>9, PosFacts
<1>11. cursor \in Nat
  BY <1>4, PosFacts
<1>12. PICK at \in Nat :
         /\ at = Pos(o, e) /\ at <= Len(stream) /\ Len(stream) \in Nat
         /\ stream[at].unit = "header"
         /\ o.role[e] = "attribute" => stream[at - 1].unit = "name"
  BY <1>1, <1>2, <1>9, InStream
<1>13. CASE r = "attribute"
  <2>1. at = cursor + 2 /\ at - 1 = cursor + 1
    BY <1>10, <1>11, <1>12, <1>13
  <2> QED
    BY <1>8, <1>11, <1>12, <1>13, <2>1 DEF Has, Unit
<1>14. CASE r = "element"
  <2>1. at = cursor + 1
    BY <1>10, <1>12, <1>14
  <2> QED
    BY <1>12, <1>14, <2>1 DEF Has, Unit
<1> QED
  BY <1>13, <1>14

\* The reader finds each unit where it expects one of its kind, and none is
\* missing: it takes headers, names and payloads in the order in which the
\* writer, which defers the payloads, put them.
THEOREM ReaderNeverStrays ==
    Spec => []UnitsInPlace
<1>1. ASSUME IInv PROVE UnitsInPlace
  <2>1. ASSUME mode = "read", built = << >> PROVE Has(1, "header")
    <3>1. IsObject(obj) /\ InvRead
      BY <1>1, <2>1, Modes
    <3>2. PICK w, m : /\ Flushed(obj, stream, w)
                      /\ Reading(obj, rstack, lists, cursor, built, limits.read, m)
      BY <3>1 DEF InvRead
    <3>3. m = 0 /\ cursor = 0
      <4>1. Len(built) = m /\ cursor = Pos(obj, m)
        BY <3>2 DEF Reading, Built
      <4> QED
        BY <2>1, <4>1, PosFacts
    <3>4. PICK k \in 1..Size(obj) : k = 1
      BY <3>1 DEF IsObject
    <3>5. Pos(obj, 1) = 1
      BY PosFacts
    <3>6. 1 <= Len(stream) /\ stream[1].unit = "header"
      BY <3>1, <3>2, <3>4, <3>5, InStream
    <3> QED
      BY <3>3, <3>6 DEF Has, Unit
  <2>2. ASSUME mode = "read", rstack # << >>, Last(rstack).attributes > 0
        PROVE  Has(1, "name") /\ Has(2, "header")
    BY <1>1, <2>2, NextChild
  <2>3. ASSUME mode = "read", rstack # << >>, Last(rstack).attributes = 0,
               Last(rstack).elements > 0
        PROVE  Has(1, "header")
    BY <1>1, <2>3, NextChild
  <2>4. ASSUME mode = "payloads", NextGroup(lists) # 0 PROVE Has(1, "payload")
    <3>1. IsObject(obj) /\ InvPayloads
      BY <1>1, <2>4, Modes
    <3>2. PICK w, D : Filling(obj, stream, cursor, lists, w, D)
      BY <3>1 DEF InvPayloads
    <3>3. PICK h, p, c : Taking(lists, cursor, h, p, c)
      BY <2>4, Zenon DEF Taking
    <3>4. h \in D /\ stream[c] = PayloadOf(obj, h) /\ c = cursor + 1
      <4>1. /\ h \in D /\ stream[c] = PayloadOf(obj, h)
            /\ Filling(obj, stream, c, p, Tail(w), D \ {h})
        BY <3>1, <3>2, <3>3, FillNext
      <4>2. c = cursor + 1
        BY <3>3 DEF Taking
      <4> QED
        BY <4>1, <4>2
    <3>5. PICK i \in 1..Len(w) : w[i] = h
      BY <3>2, <3>4 DEF Filling, Covers
    <3>6. cursor \in Nat /\ Len(stream) = cursor + Len(w) /\ Len(w) \in Nat
      BY <3>2 DEF Filling, PayloadsIn
    <3> QED
      BY <3>4, <3>5, <3>6 DEF Has, Unit, PayloadOf
  <2> QED
    BY <2>1, <2>2, <2>3, <2>4 DEF UnitsInPlace
<1> QED
  BY <1>1, Inductive, PTL

\* Whatever the limits and the temporaries, an object that is read has the nodes
\* of the one that was written in their places, with their names, and each
\* vector has what was stored for it: its own payload, or nobody's where it
\* dangled.
THEOREM NodesReadBack ==
    Spec => [](mode = "ok" =>
                 /\ cursor = Len(stream) /\ Len(built) = Cardinality(Nodes)
                 /\ \A k \in Nodes :
                      built[k] = NodeOf(obj, k, IF k \in obj.full THEN Payload(k).of ELSE 0))
<1>1. ASSUME IInv, mode = "ok"
      PROVE  /\ cursor = Len(stream) /\ Len(built) = Cardinality(Nodes)
             /\ \A k \in Nodes :
                  built[k] = NodeOf(obj, k, IF k \in obj.full THEN Payload(k).of ELSE 0)
  <2>1. /\ IsObject(obj) /\ cursor = Len(stream)
        /\ Built(obj, built, Size(obj), obj.full)
    BY <1>1, Modes DEF InvOk
  <2>2. Nodes = 1..Size(obj) /\ Cardinality(Nodes) = Size(obj)
    BY <2>1, ChildrenAre
  <2>3. \A k : Payload(k).of = Stored(obj, k)
    BY PayloadIs DEF PayloadOf
  <2> QED
    BY <2>1, <2>2, <2>3 DEF Built
<1> QED
  BY <1>1, Inductive, PTL

\* An object without temporaries is read back as it was written, whatever its
\* size, its types and its nesting.
THEOREM RoundTrips ==
    ASSUME Temporaries = FALSE
    PROVE  Spec => []RoundTrip
<1>1. Init => obj.temps = {}
  <2> SUFFICES ASSUME Init PROVE obj.temps = {}
    OBVIOUS
  <2>1. PICK parent, role, type, full :
          \E temps \in {{}} : obj = [parent |-> parent, role |-> role, type |-> type,
                                     full |-> full, temps |-> temps]
    BY Zenon DEF Init
  <2> QED
    BY <2>1
<1>2. obj.temps = {} /\ [Next]_vars => (obj.temps = {})'
  <2>1. WriterStep => obj' = obj
    BY DEF WriterStep, WriteRoot, WriteAttribute, WriteElement, WriteTooDeep, WriteEnd,
           FlushPayload, FlushDone
  <2>2. ReaderStep => obj' = obj
    BY DEF ReaderStep, ReadRoot, ReadAttribute, ReadElement, ReadTooDeep, ReadEnd,
           ReadPayload, ReadDone
  <2>3. UNCHANGED vars => obj' = obj
    BY DEF vars
  <2> QED
    BY <2>1, <2>2, <2>3 DEF Next, Terminated
<1>3. Spec => [](obj.temps = {})
  BY <1>1, <1>2, PTL DEF Spec
<1>4. ASSUME IInv, obj.temps = {} PROVE RoundTrip
  <2> SUFFICES ASSUME mode = "ok"
               PROVE  /\ cursor = Len(stream) /\ Len(built) = Cardinality(Nodes)
                      /\ \A k \in Nodes :
                           LET role == IF k = 1 THEN "root" ELSE obj.role[k]
                           IN  built[k] = [type |-> obj.type[k], full |-> k \in obj.full,
                                           parent |-> obj.parent[k], role |-> role,
                                           name |-> IF role = "attribute" THEN k ELSE 0,
                                           payload |-> IF k \in obj.full THEN k ELSE 0]
    BY DEF RoundTrip
  <2>1. /\ IsObject(obj) /\ cursor = Len(stream)
        /\ Built(obj, built, Size(obj), obj.full)
    BY <1>4, Modes DEF InvOk
  <2>2. Nodes = 1..Size(obj) /\ Cardinality(Nodes) = Size(obj)
    BY <2>1, ChildrenAre
  <2>3. ASSUME NEW k \in Nodes, NEW role, role = IF k = 1 THEN "root" ELSE obj.role[k]
        PROVE  built[k] = [type |-> obj.type[k], full |-> k \in obj.full,
                           parent |-> obj.parent[k], role |-> role,
                           name |-> IF role = "attribute" THEN k ELSE 0,
                           payload |-> IF k \in obj.full THEN k ELSE 0]
    <3>1. Stored(obj, k) = k
      BY <1>4, <2>1, <2>2, NothingDangles
    <3>2. built[k] = NodeOf(obj, k, IF k \in obj.full THEN k ELSE 0)
      BY <2>1, <2>2, <3>1 DEF Built
    <3>3. role = "attribute" <=> k # 1 /\ obj.role[k] = "attribute"
      BY <2>3
    <3> QED
      BY <2>3, <3>2, <3>3 DEF NodeOf
  <2> QED
    BY <2>1, <2>2, <2>3 DEF Built
<1> QED
  BY <1>3, <1>4, Inductive, PTL

--------------------------------------------------------------------------------
(* The strings of a string_vector *)

Chars == UNION {[0..(n - 1) -> [string : Nat, char : Int]] : n \in Nat}
Refs(n) == [slab : 0..n, at : Nat, size : 0..NALength]

\* Behind "used" the current slab is free, and a slab that views point to is
\* owned by the storage or is the current one.
Placed(ref) ==
  /\ ref.slab \in 1..Len(slabs)
  /\ ref.slab \in storage \cup {current}
  /\ ref.slab = current => ref.at + ref.size <= used

Holds(ref, i) ==
  \A k \in 0..(ref.size - 1) :
    /\ ref.at + k \in DOMAIN slabs[ref.slab]
    /\ slabs[ref.slab][ref.at + k] = [string |-> i, char |-> k]

Good(i) ==
  ~IsNA(records[i]) /\ records[i].size > 0 => Placed(records[i]) /\ Holds(records[i], i)

InvSlabs ==
  /\ slabs \in Seq(Chars)
  /\ current # 0 => DOMAIN slabs[current] = 0..(capacity - 1)

InvViews == \A i \in 1..Len(records) : Good(i)

InvGiven == status = "threw" \/ Len(given) = Len(records)

SlabsInv == TypeOK /\ InvSlabs /\ InvViews /\ InvGiven /\ SizesKept

--------------------------------------------------------------------------------
LEMMA Consts ==
  /\ SlabBytes \in Nat /\ Word \in Nat /\ Word > 0 /\ NALength \in Nat /\ Word = NALength + 1
  /\ MaxStringLength \in Nat /\ MaxStringLength < NALength
  /\ Max8 \in Nat /\ Max16 \in Nat /\ Lengths \subseteq Nat /\ MaxStrings \in Nat
BY StringsAssumption DEF NALength

\* What a string's length becomes in a uint32_t.
LEMMA Narrow ==
  ASSUME NEW n \in Nat
  PROVE  /\ n % Word \in 0..NALength /\ n % Word \in Nat /\ n % Word <= n
         /\ n < NALength => n % Word = n
BY Consts

LEMMA FilledIs ==
  ASSUME NEW chars \in Chars, NEW at \in Nat, NEW header \in Nat, NEW n \in Nat,
         Len(records) \in Nat
  PROVE  /\ Filled(chars, at, header, n) \in Chars
         /\ DOMAIN Filled(chars, at, header, n) = DOMAIN chars
<1>1. PICK m \in Nat : chars \in [0..(m - 1) -> [string : Nat, char : Int]]
  BY DEF Chars
<1>2. Filled(chars, at, header, n) \in [0..(m - 1) -> [string : Nat, char : Int]]
  BY <1>1 DEF Filled
<1>3. Filled(chars, at, header, n) \in Chars
  BY <1>2 DEF Chars
<1> QED
  BY <1>1, <1>3 DEF Filled

LEMMA NewSlabIs ==
  ASSUME NEW bytes \in Nat
  PROVE  NewSlab(bytes) \in Chars /\ DOMAIN NewSlab(bytes) = 0..(bytes - 1)
<1>1. NewSlab(bytes) \in [0..(bytes - 1) -> [string : Nat, char : Int]]
  BY DEF NewSlab, Blank
<1> QED
  BY <1>1 DEF Chars

\* What a new record leaves behind, the views excepted.
Recorded(ref) ==
  /\ given' \in Seq(Nat \cup {NA}) /\ Len(given') <= MaxStrings
  /\ records' \in Seq(Refs(Len(slabs')))
  /\ Len(records') = Len(records) + 1 /\ Len(records) \in Nat
  /\ \A i \in 1..Len(records) : records'[i] = records[i]
  /\ records'[Len(records')] = ref
  /\ InvGiven' /\ SizesKept' /\ filling' = filling /\ status' = status

LEMMA RecordKeeps ==
  ASSUME SlabsInv, More, NEW length \in Nat \cup {NA},
         NEW slab \in Nat, NEW at \in Nat, NEW size \in 0..NALength,
         Record(length, Ref(slab, at, size)),
         NEW n \in Nat, Len(slabs) <= n, slab <= n, Len(slabs') = n,
         length = NA => size = NALength,
         length \in 0..(NALength - 1) => size = length
  PROVE  Recorded(Ref(slab, at, size))
<1>1. /\ given \in Seq(Nat \cup {NA}) /\ records \in Seq(Refs(Len(slabs)))
      /\ Len(given) = Len(records) /\ Len(given) < MaxStrings
      /\ given' = Append(given, length) /\ records' = Append(records, Ref(slab, at, size))
      /\ filling' = filling /\ status' = status
  BY DEF SlabsInv, TypeOK, Refs, InvGiven, More, Record
<1>2. Len(slabs) \in Nat /\ MaxStrings \in Nat
  BY Consts DEF SlabsInv, InvSlabs
<1>3. records \in Seq(Refs(n))
  <2>1. \A r \in Refs(Len(slabs)) : r \in Refs(n)
    BY <1>2 DEF Refs
  <2> QED
    BY <1>1, <2>1
<1>4. Ref(slab, at, size) \in Refs(n)
  BY DEF Ref, Refs
<1>5. records' \in Seq(Refs(n)) /\ Len(records') = Len(records) + 1 /\ Len(records) \in Nat
      /\ given' \in Seq(Nat \cup {NA}) /\ Len(given') = Len(given) + 1
  BY <1>1, <1>3, <1>4
<1>6. /\ \A i \in 1..Len(records) : records'[i] = records[i] /\ given'[i] = given[i]
      /\ records'[Len(records')] = Ref(slab, at, size) /\ given'[Len(records')] = length
  BY <1>1, <1>3, <1>4, <1>5
<1>7. SizesKept'
  <2> SUFFICES ASSUME NEW i \in 1..Len(records')
               PROVE  /\ given'[i] = NA => IsNA(records'[i])
                      /\ given'[i] \in 0..(NALength - 1) => records'[i].size = given'[i]
    BY DEF SizesKept, IsNA
  <2>1. CASE i \in 1..Len(records)
    BY <1>6, <2>1 DEF SlabsInv, SizesKept, IsNA
  <2>2. CASE i = Len(records')
    BY <1>6, <2>2 DEF Ref, IsNA
  <2> QED
    BY <1>5, <2>1, <2>2
<1> QED
  BY <1>1, <1>2, <1>5, <1>6, <1>7 DEF InvGiven, Recorded

LEMMA FillCurrentKeeps ==
  ASSUME SlabsInv, More, NEW length \in Nat, NEW header \in Nat, FillCurrent(length, header)
  PROVE  SlabsInv'
<1> DEFINE size == length % Word
           at == used + header
           ref == Ref(current, at, size)
<1>1. /\ used \in Nat /\ capacity \in Nat /\ current \in 1..Len(slabs)
      /\ slabs \in Seq(Chars) /\ Len(slabs) \in Nat
      /\ DOMAIN slabs[current] = 0..(capacity - 1) /\ slabs[current] \in Chars
      /\ capacity - used >= header + length
  BY DEF SlabsInv, TypeOK, InvSlabs, FillCurrent, HasRoom
<1>2. /\ slabs' = [slabs EXCEPT ![current] = Filled(slabs[current], used, header, length)]
      /\ Record(length, ref)
      /\ used' = used + header + length
      /\ UNCHANGED <<storage, current, capacity>>
  BY DEF FillCurrent
<1>3. size \in 0..NALength /\ size \in Nat /\ size <= length /\ (length < NALength => size = length)
      /\ NALength \in Nat /\ at \in Nat
  BY <1>1, Narrow, Consts
<1> HIDE DEF size, at
<1>4. at = used + header
  BY DEF at
<1>5. /\ Filled(slabs[current], used, header, length) \in Chars
      /\ DOMAIN Filled(slabs[current], used, header, length) = 0..(capacity - 1)
      /\ \A o \in 0..(capacity - 1) :
           /\ used <= o /\ o < used + header + length =>
                Filled(slabs[current], used, header, length)[o]
                  = [string |-> Len(records) + 1, char |-> o - used - header]
           /\ o < used => Filled(slabs[current], used, header, length)[o] = slabs[current][o]
  <2> DEFINE old == slabs[current]
  <2>1. Len(records) \in Nat
    BY DEF SlabsInv, TypeOK
  <2>2. old \in Chars /\ DOMAIN old = 0..(capacity - 1) /\ used \in Nat
    BY <1>1
  <2> HIDE DEF old
  <2>3. Filled(old, used, header, length) \in Chars
    BY <2>1, <2>2, FilledIs
  <2>5. DOMAIN Filled(old, used, header, length) = DOMAIN old
    BY <2>1, <2>2, FilledIs
  <2>4. \A o \in 0..(capacity - 1) :
           /\ used <= o /\ o < used + header + length =>
                Filled(old, used, header, length)[o]
                  = [string |-> Len(records) + 1, char |-> o - used - header]
           /\ o < used => Filled(old, used, header, length)[o] = old[o]
    BY <2>2 DEF Filled
  <2> QED
    BY <2>2, <2>3, <2>4, <2>5 DEF old
<1>6. /\ slabs' \in Seq(Chars) /\ Len(slabs') = Len(slabs)
      /\ slabs'[current] = Filled(slabs[current], used, header, length)
      /\ \A s \in 1..Len(slabs) : s # current => slabs'[s] = slabs[s]
  BY <1>1, <1>2, <1>5
<1>7. Recorded(ref)
  <2>1. length \in Nat \cup {NA} /\ length # NA /\ current \in Nat /\ current <= Len(slabs)
    BY <1>1 DEF NA
  <2>2. length \in 0..(NALength - 1) => size = length
    BY <1>3
  <2>3. Len(slabs) \in Nat /\ Len(slabs') = Len(slabs)
    BY <1>1, <1>6
  <2>4. Record(length, Ref(current, at, size))
    BY <1>2
  <2>5. at \in Nat /\ size \in 0..NALength
    BY <1>3
  <2> QED
    BY <2>1, <2>2, <2>3, <2>4, <2>5, RecordKeeps
<1>8. TypeOK'
  <2>1. used' \in Nat /\ used' <= capacity'
    BY <1>1, <1>2
  <2> QED
    BY <1>1, <1>2, <1>6, <1>7, <2>1 DEF SlabsInv, TypeOK, Refs, Recorded
<1>9. InvSlabs'
  BY <1>1, <1>2, <1>5, <1>6 DEF InvSlabs
<1>10. ASSUME NEW i \in 1..Len(records) PROVE Good(i)'
  <2>1. Good(i) /\ records'[i] = records[i]
    <3>1. InvViews
      BY DEF SlabsInv
    <3> QED
      BY <1>7, <3>1 DEF InvViews, Recorded
  <2>2. ASSUME ~IsNA(records[i]), records[i].size > 0, Placed(records[i]),
               Holds(records[i], i)
        PROVE  /\ Placed(records[i])'
               /\ DOMAIN slabs'[records[i].slab] = DOMAIN slabs[records[i].slab]
               /\ \A k \in 0..(records[i].size - 1) :
                    slabs'[records[i].slab][records[i].at + k]
                      = slabs[records[i].slab][records[i].at + k]
    <3> DEFINE r == records[i]
    <3>1. r.at \in Nat /\ r.size \in Nat
      <4>1. records \in Seq([slab : 0..Len(slabs), at : Nat, size : 0..NALength])
        BY DEF SlabsInv, TypeOK
      <4> DEFINE R == [slab : 0..Len(slabs), at : Nat, size : 0..NALength]
      <4>3. records \in Seq(R)
        BY <4>1
      <4> HIDE DEF R
      <4>4. records[i] \in R
        BY <4>3
      <4>2. r \in [slab : 0..Len(slabs), at : Nat, size : 0..NALength]
        BY <4>4 DEF R
      <4> QED
        BY <4>2, Consts
    <3>2. r.slab \in 1..Len(slabs) /\ r.slab \in storage \cup {current}
          /\ (r.slab = current => r.at + r.size <= used)
      BY <2>2 DEF Placed
    <3>3. Placed(records[i])'
      <4>1. r.slab = current => r.at + r.size <= used'
        BY <1>1, <1>2, <3>1, <3>2
      <4> QED
        BY <1>2, <1>6, <2>1, <3>2, <4>1 DEF Placed
    <3>4. CASE r.slab # current
      BY <1>6, <3>2, <3>3, <3>4
    <3>5. CASE r.slab = current
      <4>1. \A k \in 0..(r.size - 1) : r.at + k \in 0..(capacity - 1) /\ r.at + k < used
        <5> DEFINE a == r.at
                   n == r.size
        <5>1. a \in Nat /\ n \in Nat /\ a + n <= used
          BY <3>1, <3>2, <3>5
        <5>2. used \in Nat /\ capacity \in Nat /\ used <= capacity
          BY <1>1
        <5> HIDE DEF a, n
        <5>3. \A k \in 0..(n - 1) : a + k \in 0..(capacity - 1) /\ a + k < used
          BY <5>1, <5>2
        <5> QED
          BY <5>3 DEF a, n
      <4> QED
        BY <1>1, <1>5, <1>6, <3>3, <3>5, <4>1
    <3> QED
      BY <3>4, <3>5
  <2> QED
    BY <1>1, <1>6, <2>1, <2>2 DEF Good, Holds, IsNA
<1>11. ASSUME NEW i, i = Len(records') PROVE Good(i)'
  <2>1. records'[i] = ref /\ i = Len(records) + 1
    BY <1>7, <1>11 DEF Recorded
  <2>2. ref.slab = current /\ ref.at = at /\ ref.size = size
    BY DEF Ref
  <2>3. \A k \in 0..(size - 1) :
          /\ at + k \in 0..(capacity - 1)
          /\ used <= at + k /\ at + k < used + header + length
          /\ at + k - used - header = k
    BY <1>1, <1>3, <1>4
  <2>4. ASSUME NEW k \in 0..(size - 1)
        PROVE  slabs'[current][at + k] = [string |-> i, char |-> k]
    <3> DEFINE o == at + k
    <3>1. /\ o \in 0..(capacity - 1) /\ used <= o /\ o < used + header + length
          /\ o - used - header = k
      BY <1>1, <1>3, <1>4
    <3> HIDE DEF o
    <3>2. slabs'[current][o] = [string |-> Len(records) + 1, char |-> o - used - header]
      BY <1>5, <1>6, <3>1
    <3> QED
      BY <2>1, <3>1, <3>2 DEF o
  <2>5. at + size <= used'
    BY <1>1, <1>2, <1>3, <1>4
  <2>6. DOMAIN slabs'[current] = 0..(capacity - 1)
    BY <1>5, <1>6
  <2> QED
    BY <1>1, <1>2, <1>6, <2>1, <2>2, <2>3, <2>4, <2>5, <2>6 DEF Good, Holds, Placed
<1>12. InvViews'
  BY <1>7, <1>10, <1>11 DEF InvViews, Recorded
<1> QED
  BY <1>7, <1>8, <1>9, <1>12 DEF SlabsInv, Recorded

LEMMA FillNewKeeps ==
  ASSUME SlabsInv, More, NEW length \in Nat, NEW header \in Nat, NEW bytes \in Nat,
         header + length <= bytes, FillNew(length, header, bytes)
  PROVE  SlabsInv'
<1> DEFINE size == length % Word
           new == Len(slabs) + 1
           ref == Ref(new, header, size)
           chars == Filled(NewSlab(bytes), 0, header, length)
<1>1. /\ slabs \in Seq(Chars) /\ Len(slabs) \in Nat /\ storage \subseteq 1..Len(slabs)
      /\ current \in 0..Len(slabs) /\ Len(records) \in Nat
  BY DEF SlabsInv, TypeOK, InvSlabs
<1>2. /\ slabs' = Append(slabs, chars)
      /\ storage' = Kept /\ current' = new /\ capacity' = bytes
      /\ used' = header + length
      /\ Record(length, ref)
  BY DEF FillNew
<1>3. size \in 0..NALength /\ size \in Nat /\ size <= length /\ (length < NALength => size = length)
      /\ NALength \in Nat
  BY Narrow, Consts
<1> HIDE DEF size
<1>4. /\ chars \in Chars /\ DOMAIN chars = 0..(bytes - 1)
      /\ \A o \in 0..(bytes - 1) : o < header + length =>
            chars[o] = [string |-> Len(records) + 1, char |-> o - header]
  <2> DEFINE blank == NewSlab(bytes)
  <2>1. blank \in Chars /\ DOMAIN blank = 0..(bytes - 1) /\ 0 \in Nat
    BY NewSlabIs
  <2> HIDE DEF blank
  <2>2. Filled(blank, 0, header, length) \in Chars
    BY <1>1, <2>1, FilledIs
  <2>3. DOMAIN Filled(blank, 0, header, length) = DOMAIN blank
    BY <1>1, <2>1, FilledIs
  <2>4. \A o \in 0..(bytes - 1) : o < header + length =>
          Filled(blank, 0, header, length)[o]
            = [string |-> Len(records) + 1, char |-> o - header]
    BY <2>1 DEF Filled
  <2> QED
    BY <2>1, <2>2, <2>3, <2>4 DEF blank
<1> HIDE DEF chars
<1>5. /\ slabs' \in Seq(Chars) /\ Len(slabs') = Len(slabs) + 1
      /\ slabs'[new] = chars
      /\ \A s \in 1..Len(slabs) : slabs'[s] = slabs[s]
  BY <1>1, <1>2, <1>4
<1>6. new \in Nat /\ Len(slabs') = new /\ Len(slabs) <= new /\ new > Len(slabs)
  BY <1>1, <1>5
<1> HIDE DEF new
<1>7. Recorded(ref)
  <2>1. length \in Nat \cup {NA} /\ length # NA
    BY DEF NA
  <2>2. length \in 0..(NALength - 1) => size = length
    BY <1>3
  <2>3. Record(length, Ref(new, header, size)) /\ new <= new
    BY <1>2, <1>6
  <2> QED
    BY <1>3, <1>6, <2>1, <2>2, <2>3, RecordKeeps
<1>8. /\ storage \subseteq storage' /\ (current # 0 => current \in storage')
      /\ storage' \subseteq 1..Len(slabs)
  BY <1>1, <1>2 DEF Kept
<1>9. TypeOK'
  <2>1. storage' \subseteq 1..Len(slabs') /\ current' \in 0..Len(slabs')
    BY <1>1, <1>2, <1>6, <1>8
  <2>2. used' \in Nat /\ capacity' \in Nat /\ used' <= capacity'
    BY <1>2
  <2> QED
    BY <1>7, <2>1, <2>2 DEF SlabsInv, TypeOK, Refs, Recorded
<1>10. InvSlabs'
  BY <1>2, <1>4, <1>5 DEF InvSlabs
<1>11. ASSUME NEW i \in 1..Len(records) PROVE Good(i)'
  <2>1. Good(i) /\ records'[i] = records[i]
    <3>1. InvViews
      BY DEF SlabsInv
    <3> QED
      BY <1>7, <3>1 DEF InvViews, Recorded
  <2>2. ASSUME Placed(records[i])
        PROVE  /\ records[i].slab \in 1..Len(slabs) /\ records[i].slab \in storage'
               /\ records[i].slab \in 1..Len(slabs') /\ records[i].slab # current'
    <3>1. records[i].slab \in 1..Len(slabs) /\ records[i].slab \in storage \cup {current}
      BY <2>2 DEF Placed
    <3> QED
      BY <1>1, <1>2, <1>6, <1>8, <3>1
  <2> QED
    BY <1>5, <2>1, <2>2 DEF Good, Holds, Placed, IsNA
<1>12. ASSUME NEW i, i = Len(records') PROVE Good(i)'
  <2>1. records'[i] = ref /\ i = Len(records) + 1
    BY <1>7, <1>12 DEF Recorded
  <2>2. ref.slab = new /\ ref.at = header /\ ref.size = size
    BY DEF Ref
  <2>3. ASSUME NEW k \in 0..(size - 1)
        PROVE  header + k \in 0..(bytes - 1) /\ slabs'[new][header + k] = [string |-> i, char |-> k]
    <3> DEFINE o == header + k
    <3>1. o \in 0..(bytes - 1) /\ o < header + length /\ o - header = k
      BY <1>3
    <3> HIDE DEF o
    <3>2. slabs'[new][o] = [string |-> Len(records) + 1, char |-> o - header]
      BY <1>4, <1>5, <3>1
    <3> QED
      BY <2>1, <3>1, <3>2 DEF o
  <2>4. header + size <= used'
    BY <1>2, <1>3
  <2>5. new \in 1..Len(slabs') /\ new = current' /\ DOMAIN slabs'[new] = 0..(bytes - 1)
    BY <1>1, <1>2, <1>4, <1>5, <1>6
  <2> QED
    BY <2>1, <2>2, <2>3, <2>4, <2>5 DEF Good, Holds, Placed
<1>13. InvViews'
  BY <1>7, <1>11, <1>12 DEF InvViews, Recorded
<1> QED
  BY <1>7, <1>9, <1>10, <1>13 DEF SlabsInv, Recorded

\* A record without characters: NA, or the empty string of a file.
LEMMA NoCharsKeeps ==
  ASSUME SlabsInv, More, NEW length \in Nat \cup {NA}, NEW size \in 0..NALength,
         size = 0 \/ size = NALength,
         Record(length, Ref(0, 0, size)),
         UNCHANGED <<slabs, storage, current, used, capacity>>,
         length = NA => size = NALength,
         length \in 0..(NALength - 1) => size = length
  PROVE  SlabsInv'
<1>1. slabs \in Seq(Chars) /\ Len(slabs) \in Nat /\ Len(slabs') = Len(slabs)
  BY DEF SlabsInv, InvSlabs
<1>2. Recorded(Ref(0, 0, size))
  <2>1. 0 \in Nat /\ 0 <= Len(slabs) /\ Len(slabs) <= Len(slabs)
    BY <1>1
  <2> QED
    BY <1>1, <2>1, RecordKeeps
<1>3. TypeOK'
  BY <1>1, <1>2 DEF SlabsInv, TypeOK, Refs, Recorded
<1>4. InvSlabs'
  BY DEF SlabsInv, InvSlabs
<1>5. ASSUME NEW i \in 1..Len(records) PROVE Good(i)'
  <2>1. Good(i) /\ records'[i] = records[i]
    <3>1. InvViews
      BY DEF SlabsInv
    <3> QED
      BY <1>2, <3>1 DEF InvViews, Recorded
  <2> QED
    BY <2>1 DEF Good, Holds, Placed, IsNA
<1>6. ASSUME NEW i, i = Len(records') PROVE Good(i)'
  <2>1. records'[i] = Ref(0, 0, size)
    BY <1>2, <1>6 DEF Recorded
  <2>2. records'[i].size = 0 \/ records'[i].size = NALength
    BY <2>1 DEF Ref
  <2>3. ~(0 > 0)
    OBVIOUS
  <2> QED
    BY <2>2, <2>3 DEF Good, IsNA
<1>7. InvViews'
  BY <1>2, <1>5, <1>6 DEF InvViews, Recorded
<1> QED
  BY <1>2, <1>3, <1>4, <1>7 DEF SlabsInv, Recorded

\* A string of its own slab, which the storage owns at once.
LEMMA LargeKeeps ==
  ASSUME SlabsInv, NEW length \in ReadLengths, ReadLarge(length)
  PROVE  SlabsInv'
<1> DEFINE new == Len(slabs) + 1
           ref == Ref(new, 0, length)
           chars == Filled(NewSlab(length), 0, 0, length)
<1>1. /\ slabs \in Seq(Chars) /\ Len(slabs) \in Nat /\ storage \subseteq 1..Len(slabs)
      /\ current \in 0..Len(slabs) /\ Len(records) \in Nat /\ used \in Nat /\ capacity \in Nat
      /\ used <= capacity
  BY DEF SlabsInv, TypeOK, InvSlabs
<1>2. /\ slabs' = Append(slabs, chars) /\ More
      /\ storage' = Kept \cup {new} /\ current' = 0
      /\ IF current = 0 THEN UNCHANGED <<used, capacity>> ELSE used' = 0 /\ capacity' = 0
      /\ Record(length, ref)
  BY DEF ReadLarge
<1>3. length \in Nat /\ length \in 0..NALength /\ length < NALength
  BY Consts DEF ReadLengths
<1>4. /\ chars \in Chars /\ DOMAIN chars = 0..(length - 1)
      /\ \A o \in 0..(length - 1) : chars[o] = [string |-> Len(records) + 1, char |-> o]
  <2> DEFINE blank == NewSlab(length)
  <2>1. blank \in Chars /\ DOMAIN blank = 0..(length - 1) /\ 0 \in Nat
    BY <1>3, NewSlabIs
  <2> HIDE DEF blank
  <2>2. Filled(blank, 0, 0, length) \in Chars
    BY <1>1, <1>3, <2>1, FilledIs
  <2>3. DOMAIN Filled(blank, 0, 0, length) = DOMAIN blank
    BY <1>1, <1>3, <2>1, FilledIs
  <2>4. \A o \in 0..(length - 1) :
          Filled(blank, 0, 0, length)[o] = [string |-> Len(records) + 1, char |-> o]
    BY <1>3, <2>1 DEF Filled
  <2> QED
    BY <2>1, <2>2, <2>3, <2>4 DEF blank
<1> HIDE DEF chars
<1>5. /\ slabs' \in Seq(Chars) /\ Len(slabs') = Len(slabs) + 1
      /\ slabs'[new] = chars
      /\ \A s \in 1..Len(slabs) : slabs'[s] = slabs[s]
  BY <1>1, <1>2, <1>4
<1>6. new \in Nat /\ Len(slabs') = new /\ Len(slabs) <= new /\ new > Len(slabs) /\ new <= new
  BY <1>1, <1>5
<1> HIDE DEF new
<1>7. Recorded(ref)
  <2>1. length \in Nat \cup {NA} /\ length # NA /\ 0 \in Nat
    BY <1>3 DEF NA
  <2>2. Record(length, Ref(new, 0, length))
    BY <1>2
  <2> QED
    BY <1>2, <1>3, <1>6, <2>1, <2>2, RecordKeeps
<1>8. /\ storage \subseteq storage' /\ (current # 0 => current \in storage')
      /\ storage' \subseteq 1..Len(slabs') /\ new \in storage'
  BY <1>1, <1>2, <1>6 DEF Kept
<1>9. TypeOK'
  <2>1. current' \in 0..Len(slabs')
    BY <1>2, <1>6
  <2>2. used' \in Nat /\ capacity' \in Nat /\ used' <= capacity'
    BY <1>1, <1>2
  <2> QED
    BY <1>7, <1>8, <2>1, <2>2 DEF SlabsInv, TypeOK, Refs, Recorded
<1>10. InvSlabs'
  BY <1>2, <1>5 DEF InvSlabs
<1>11. ASSUME NEW i \in 1..Len(records) PROVE Good(i)'
  <2>1. Good(i) /\ records'[i] = records[i]
    <3>1. InvViews
      BY DEF SlabsInv
    <3> QED
      BY <1>7, <3>1 DEF InvViews, Recorded
  <2>2. ASSUME Placed(records[i])
        PROVE  /\ records[i].slab \in 1..Len(slabs) /\ records[i].slab \in storage'
               /\ records[i].slab \in 1..Len(slabs') /\ records[i].slab # current'
    <3>1. records[i].slab \in 1..Len(slabs) /\ records[i].slab \in storage \cup {current}
      BY <2>2 DEF Placed
    <3> QED
      BY <1>1, <1>2, <1>6, <1>8, <3>1
  <2> QED
    BY <1>5, <2>1, <2>2 DEF Good, Holds, Placed, IsNA
<1>12. ASSUME NEW i, i = Len(records') PROVE Good(i)'
  <2>1. records'[i] = ref /\ i = Len(records) + 1
    BY <1>7, <1>12 DEF Recorded
  <2>2. ref.slab = new /\ ref.at = 0 /\ ref.size = length
    BY DEF Ref
  <2>3. ASSUME NEW k \in 0..(length - 1)
        PROVE  0 + k \in DOMAIN slabs'[new] /\ slabs'[new][0 + k] = [string |-> i, char |-> k]
    <3>1. 0 + k = k
      BY <1>3
    <3> QED
      BY <1>4, <1>5, <2>1, <3>1
  <2>4. new \in 1..Len(slabs') /\ new # current'
    BY <1>1, <1>2, <1>6
  <2> QED
    BY <1>8, <2>1, <2>2, <2>3, <2>4 DEF Good, Holds, Placed
<1>13. InvViews'
  BY <1>7, <1>11, <1>12 DEF InvViews, Recorded
<1> QED
  BY <1>7, <1>9, <1>10, <1>13 DEF SlabsInv, Recorded

LEMMA FinishKeeps ==
  ASSUME SlabsInv, Finish
  PROVE  SlabsInv'
<1>1. /\ storage' = Kept /\ current' = 0
      /\ IF current = 0 THEN UNCHANGED <<used, capacity>> ELSE used' = 0 /\ capacity' = 0
      /\ UNCHANGED <<filling, given, records, slabs>>
      /\ status = "open" /\ status' = "done"
  BY DEF Finish
<1>2. /\ TypeOK /\ InvSlabs /\ InvViews /\ InvGiven /\ SizesKept
  BY DEF SlabsInv
<1>3. TypeOK'
  <2>1. Len(slabs) \in Nat
    BY <1>2 DEF InvSlabs
  <2>2. storage' \subseteq 1..Len(slabs) /\ current' \in 0..Len(slabs)
    BY <1>1, <1>2, <2>1 DEF TypeOK, Kept
  <2> QED
    BY <1>1, <1>2, <2>2 DEF TypeOK
<1>4. InvViews'
  <2> SUFFICES ASSUME NEW i \in 1..Len(records) PROVE Good(i)'
    BY <1>1 DEF InvViews
  <2>1. Good(i) /\ records'[i] = records[i] /\ slabs' = slabs
    BY <1>1, <1>2 DEF InvViews
  <2>2. ASSUME Placed(records[i]) PROVE Placed(records[i])'
    <3>1. /\ records[i].slab \in 1..Len(slabs) /\ records[i].slab \in storage \cup {current}
      BY <2>2 DEF Placed
    <3>2. records[i].slab # 0
      BY <3>1
    <3> QED
      BY <1>1, <2>1, <3>1, <3>2 DEF Placed, Kept
  <2> QED
    BY <2>1, <2>2 DEF Good, Holds, IsNA
<1> QED
  BY <1>1, <1>2, <1>3, <1>4 DEF SlabsInv, InvSlabs, InvGiven, SizesKept, IsNA

--------------------------------------------------------------------------------
LEMMA InitSlabsInv == SlabsInit => SlabsInv
<1> SUFFICES ASSUME SlabsInit PROVE SlabsInv
  OBVIOUS
<1>1. TypeOK
  BY Consts DEF SlabsInit, TypeOK
<1> QED
  BY <1>1 DEF SlabsInit, SlabsInv, InvSlabs, InvViews, InvGiven, SizesKept

LEMMA StepKeeps == SlabsInv /\ [SlabsNext]_slabsVars => SlabsInv'
<1> SUFFICES ASSUME SlabsInv, [SlabsNext]_slabsVars PROVE SlabsInv'
  OBVIOUS
<1>1. CASE AppendNA \/ ReadNA
  <2>1. /\ More /\ Record(NA, Ref(0, 0, NALength))
        /\ UNCHANGED <<slabs, storage, current, used, capacity>>
    BY <1>1 DEF AppendNA, ReadNA
  <2>2. NA \in Nat \cup {NA} /\ NALength \in 0..NALength /\ ~(NA \in 0..(NALength - 1))
    BY Consts DEF NA
  <2> QED
    BY <2>1, <2>2, NoCharsKeeps
<1>2. ASSUME NEW length \in Lengths, AppendString(length) PROVE SlabsInv'
  <2> DEFINE header == HeaderSize(length)
             bytes == LargerOf(SlabBytes, header + length)
  <2>1. length \in Nat /\ header \in Nat /\ bytes \in Nat /\ header + length <= bytes
    BY Consts DEF HeaderSize, LargerOf
  <2>2. More /\ (FillCurrent(length, header) \/ FillNew(length, header, bytes))
    BY <1>2 DEF AppendString
  <2> HIDE DEF header, bytes
  <2> QED
    BY <2>1, <2>2, FillCurrentKeeps, FillNewKeeps
<1>3. CASE ReadEmpty
  <2>1. /\ More /\ Record(0, Ref(0, 0, 0))
        /\ UNCHANGED <<slabs, storage, current, used, capacity>>
    BY <1>3 DEF ReadEmpty
  <2>2. 0 \in Nat \cup {NA} /\ 0 \in 0..NALength /\ 0 # NA
    BY Consts DEF NA
  <2> QED
    BY <2>1, <2>2, NoCharsKeeps
<1>4. CASE ReadFails
  <2>1. records' = <<>> /\ status' = "threw" /\ storage' = {} /\ current' = 0
        /\ used' = 0 /\ capacity' = 0 /\ UNCHANGED <<filling, given, slabs>>
    BY <1>4 DEF ReadFails
  <2>2. TypeOK'
    <3>1. Len(slabs) \in Nat
      BY DEF SlabsInv, InvSlabs
    <3> QED
      BY <2>1, <3>1 DEF SlabsInv, TypeOK
  <2> QED
    BY <2>1, <2>2 DEF SlabsInv, InvSlabs, InvViews, InvGiven, SizesKept
<1>5. ASSUME NEW length \in ReadLengths, ReadLarge(length) PROVE SlabsInv'
  BY <1>5, LargeKeeps
<1>6. ASSUME NEW length \in ReadLengths, ReadSmall(length) PROVE SlabsInv'
  <2>1. length \in Nat /\ 0 + length <= SlabBytes /\ 0 \in Nat /\ SlabBytes \in Nat
    BY <1>6, Consts DEF ReadLengths, ReadSmall
  <2>2. More /\ (FillCurrent(length, 0) \/ FillNew(length, 0, SlabBytes))
    BY <1>6 DEF ReadSmall
  <2> QED
    BY <2>1, <2>2, FillCurrentKeeps, FillNewKeeps
<1>7. CASE Finish
  BY <1>7, FinishKeeps
<1>8. CASE UNCHANGED slabsVars
  BY <1>8 DEF slabsVars, SlabsInv, TypeOK, InvSlabs, InvViews, InvGiven, SizesKept, Good, Holds, Placed, IsNA
<1> QED
  BY <1>1, <1>2, <1>3, <1>4, <1>5, <1>6, <1>7, <1>8 DEF SlabsNext, SlabsTerminated

\* What a slab has left is never computed from more than it has.
THEOREM StringsTypeCorrect == SlabsSpec => []TypeOK
<1>1. SlabsInv => TypeOK
  BY DEF SlabsInv
<1> QED
  BY <1>1, InitSlabsInv, StepKeeps, PTL DEF SlabsSpec

\* Every view reads the characters of its string, in a slab that is owned.
THEOREM ViewsAreIntact == SlabsSpec => []ViewsIntact
<1>1. SlabsInv => ViewsIntact
  BY DEF SlabsInv, InvViews, Good, Holds, Placed, ViewsIntact, ViewIsIntact
<1> QED
  BY <1>1, InitSlabsInv, StepKeeps, PTL DEF SlabsSpec

\* A string keeps its size, and only an NA is an NA.
THEOREM SizesAreKept == SlabsSpec => []SizesKept
<1>1. SlabsInv => SizesKept
  BY DEF SlabsInv
<1> QED
  BY <1>1, InitSlabsInv, StepKeeps, PTL DEF SlabsSpec

================================================================================
