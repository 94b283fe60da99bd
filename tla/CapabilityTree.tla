--------------------------- MODULE CapabilityTree ---------------------------
(***************************************************************************)
(* What the operations on the node table of the capability system do, for  *)
(* every number of nodes: the walks of the code terminate and return the   *)
(* children, ancestors and descendants of the tree the parent links form;  *)
(* allocation, unlinking, release and marking keep the sibling lists in    *)
(* step with the tree and the reference counts exact; insertion into and   *)
(* removal from a capability space keep its free list.                     *)
(***************************************************************************)
EXTENDS Capability, FiniteSetTheorems, TLAPS

(* The provers a leaf is tried with that names none *)
USE ZenonT(3), SMTT(30), Z3T(30)
-----------------------------------------------------------------------------
(* Induction over the natural numbers in first-order form *)

(* A set of natural numbers that is not empty has a least element. *)
LEMMA LeastNat ==
  ASSUME NEW S, S \subseteq Nat, S # {}
  PROVE  \E n \in S : \A m \in S : n <= m
<1> DEFINE R == OpToRel(<, Nat)
<1>1. IsWellFoundedOn(R, Nat)
  BY NatLessThanWellFounded
<1>2. PICK n \in S : \A m \in S : ~(<<m, n>> \in R)
  <2> HIDE DEF R
  <2> QED BY <1>1, WFMin
<1>3. \A m \in S : m < n => <<m, n>> \in R
  BY DEF OpToRel
<1>4. \A m \in S : ~(m < n)
  BY <1>2, <1>3
<1> QED
  BY <1>4

(* A set that contains 0 and, with every number below n, the next one      *)
(* contains all numbers up to n.                                           *)
LEMMA UpTo ==
  ASSUME NEW n \in Nat, NEW S, 0 \in S, \A k \in 0..(n - 1) : k \in S => k + 1 \in S
  PROVE  0..n \subseteq S
<1> DEFINE T == {k \in 0..n : k \notin S}
<1> SUFFICES ASSUME T # {} PROVE FALSE
  OBVIOUS
<1>1. PICK k \in T : \A j \in T : k <= j
  <2>1. T \subseteq Nat
    OBVIOUS
  <2> QED
    BY <2>1, LeastNat
<1>2. k # 0
  OBVIOUS
<1>3. k - 1 \in 0..(n - 1) /\ k - 1 \in S
  BY <1>1, <1>2
<1> QED
  BY <1>3

(* Iterating a function gives a sequence of values as long as one likes. *)
LEMMA Iterates ==
  ASSUME NEW D, NEW step \in [D -> D], NEW x \in D, NEW n \in Nat
  PROVE  \E f : f = [k \in 0..n |-> IF k = 0 THEN x ELSE step[f[k - 1]]]
<1> DEFINE P(m) == \E f \in [0..m -> D] : \A k \in 0..m : f[k] = IF k = 0 THEN x ELSE step[f[k - 1]]
           S == {m \in Nat : P(m)}
<1>1. P(0)
  <2> DEFINE f == [k \in 0..0 |-> x]
  <2>1. f \in [0..0 -> D] /\ \A k \in 0..0 : f[k] = IF k = 0 THEN x ELSE step[f[k - 1]]
    OBVIOUS
  <2> QED
    BY <2>1
<1>2. ASSUME NEW m \in Nat, P(m) PROVE P(m + 1)
  <2>1. PICK f \in [0..m -> D] : \A k \in 0..m : f[k] = IF k = 0 THEN x ELSE step[f[k - 1]]
    BY <1>2
  <2> DEFINE g == [k \in 0..(m + 1) |-> IF k = m + 1 THEN step[f[m]] ELSE f[k]]
  <2>2. f[m] \in D /\ step[f[m]] \in D
    BY <2>1
  <2>3. g \in [0..(m + 1) -> D]
    BY <2>1, <2>2
  <2>4. ASSUME NEW k \in 0..(m + 1) PROVE g[k] = IF k = 0 THEN x ELSE step[g[k - 1]]
    <3>1. CASE k = m + 1
      <4>1. k # 0 /\ k - 1 = m /\ m \in 0..(m + 1) /\ m # m + 1
        BY <3>1
      <4>2. g[k] = step[f[m]] /\ g[m] = f[m]
        BY <3>1, <4>1
      <4> QED
        BY <4>1, <4>2
    <3>2. CASE k = 0
      BY <2>1, <3>2
    <3>3. CASE k # 0 /\ k # m + 1
      <4>1. k \in 0..m /\ k - 1 \in 0..(m + 1) /\ k - 1 # m + 1
        BY <3>3
      <4>2. g[k] = f[k] /\ g[k - 1] = f[k - 1]
        BY <3>3, <4>1
      <4> QED
        BY <2>1, <3>3, <4>1, <4>2
    <3> QED
      BY <3>1, <3>2, <3>3
  <2> HIDE DEF g
  <2> QED
    BY <2>3, <2>4
<1>3. P(n)
  <2> HIDE DEF P
  <2>1. 0 \in S /\ \A k \in 0..(n - 1) : k \in S => k + 1 \in S
    BY <1>1, <1>2
  <2>2. 0..n \subseteq S
    BY <2>1, UpTo
  <2> QED
    BY <2>2
<1>4. PICK f \in [0..n -> D] : \A k \in 0..n : f[k] = IF k = 0 THEN x ELSE step[f[k - 1]]
  BY <1>3
<1>5. f = [k \in 0..n |-> IF k = 0 THEN x ELSE step[f[k - 1]]]
  BY <1>4
<1> QED
  BY <1>5
-----------------------------------------------------------------------------
(* The walks of capability.rs along the links *)

(* validate_node's walk: every node on it is the parent of the one before. *)
IsPath(s, id, path) ==
  /\ path[0] = id /\ \A k \in 1..Nodes : path[k] = parent(s, path[k - 1])
  /\ ancestors(s, id) = {path[k] : k \in 0..Nodes}

(* Where the parents of a set's members are members, the walk stays in it. *)
LEMMA Path ==
  ASSUME NEW s, NEW D, NEW id \in D, \A d \in D : parent(s, d) \in D
  PROVE  \E path \in [0..Nodes -> D] : IsPath(s, id, path)
<1> DEFINE P(p) == p = [k \in 0..Nodes |-> IF k = 0 THEN id ELSE parent(s, p[k - 1])]
           step == [d \in D |-> parent(s, d)]
           path == CHOOSE p : P(p)
<1>1. Nodes \in Nat
  BY CapabilityAssumption
<1>2. ancestors(s, id) = Range(path)
  BY DEF ancestors
<1>3. PICK f : f = [k \in 0..Nodes |-> IF k = 0 THEN id ELSE step[f[k - 1]]]
  <2>1. step \in [D -> D]
    OBVIOUS
  <2> HIDE DEF step
  <2> QED
    BY <1>1, <2>1, Iterates
<1>4. ASSUME NEW g, g = [k \in 0..Nodes |-> IF k = 0 THEN id ELSE step[g[k - 1]]] \/ P(g)
      PROVE  0..Nodes \subseteq {k \in 0..Nodes : g[k] \in D}
  <2> DEFINE S == {k \in 0..Nodes : g[k] \in D}
  <2>1. 0 \in S
    <3>1. 0 \in 0..Nodes
      BY <1>1
    <3>2. CASE g = [k \in 0..Nodes |-> IF k = 0 THEN id ELSE step[g[k - 1]]]
      <4>1. g[0] = id
        BY <3>1, <3>2
      <4> QED
        BY <3>1, <4>1
    <3>3. CASE P(g)
      <4>1. g[0] = id
        BY <3>1, <3>3
      <4> QED
        BY <3>1, <4>1
    <3> QED
      BY <1>4, <3>2, <3>3
  <2>2. ASSUME NEW k \in 0..(Nodes - 1), k \in S PROVE k + 1 \in S
    <3>1. k + 1 \in 0..Nodes /\ k + 1 # 0 /\ (k + 1) - 1 = k /\ g[k] \in D
      BY <1>1, <2>2
    <3>2. g[k + 1] = step[g[k]] \/ g[k + 1] = parent(s, g[k])
      BY ZenonT(30), <1>4, <3>1
    <3> QED
      BY <3>1, <3>2
  <2> HIDE DEF S
  <2>3. 0..Nodes \subseteq S
    BY <1>1, <2>1, <2>2, UpTo
  <2> QED
    BY <2>3 DEF S
<1>5. P(f)
  <2>1. ASSUME NEW k \in 0..Nodes, k # 0 PROVE step[f[k - 1]] = parent(s, f[k - 1])
    <3>1. k - 1 \in 0..Nodes
      BY <1>1, <2>1
    <3>2. f[k - 1] \in D
      BY <1>3, <1>4, <3>1
    <3> QED
      BY <3>2
  <2> QED
    BY <1>3, <2>1
<1> HIDE DEF P
<1>6. P(path)
  BY <1>5
<1> HIDE DEF path
<1>7. 0..Nodes \subseteq {k \in 0..Nodes : path[k] \in D}
  BY <1>4, <1>6
<1>8. path = [k \in 0..Nodes |-> IF k = 0 THEN id ELSE parent(s, path[k - 1])]
  BY <1>6 DEF P
<1>9. path \in [0..Nodes -> D] /\ path[0] = id /\ \A k \in 1..Nodes : path[k] = parent(s, path[k - 1])
  BY <1>1, <1>7, <1>8
<1>10. Range(path) = {path[k] : k \in 0..Nodes}
  BY <1>9 DEF Range
<1> QED
  BY <1>2, <1>9, <1>10 DEF IsPath

(* list is the walk from first along the sibling links *)
IsList(s, id, first, list) ==
  /\ list[0] = first /\ \A k \in 1..Nodes : list[k] = next_sibling(s, list[k - 1])
  /\ children(s, id) = {c \in {list[k] : k \in 0..Nodes} : names(s, c)}

(* The walk along a sibling list, of find_unrevoked_descendant and unlink_child *)
LEMMA SiblingList ==
  ASSUME NEW s, NEW id, NEW D, NEW first \in D, \A d \in D : next_sibling(s, d) \in D
  PROVE  first = s.node[id[1]].first_child => \E list \in [0..Nodes -> D] : IsList(s, id, first, list)
<1> DEFINE P(p) == p = [k \in 0..Nodes |-> IF k = 0 THEN first ELSE next_sibling(s, p[k - 1])]
           step == [d \in D |-> next_sibling(s, d)]
           list == CHOOSE p : P(p)
<1>1. Nodes \in Nat
  BY CapabilityAssumption
<1>2. first = s.node[id[1]].first_child => children(s, id) = {c \in Range(list) : names(s, c)}
  BY ZenonT(30) DEF children
<1>3. PICK f : f = [k \in 0..Nodes |-> IF k = 0 THEN first ELSE step[f[k - 1]]]
  <2>1. step \in [D -> D]
    OBVIOUS
  <2> HIDE DEF step
  <2> QED
    BY <1>1, <2>1, Iterates
<1>4. ASSUME NEW g, g = [k \in 0..Nodes |-> IF k = 0 THEN first ELSE step[g[k - 1]]] \/ P(g)
      PROVE  0..Nodes \subseteq {k \in 0..Nodes : g[k] \in D}
  <2> DEFINE S == {k \in 0..Nodes : g[k] \in D}
  <2>1. 0 \in S
    <3>1. 0 \in 0..Nodes
      BY <1>1
    <3>2. CASE g = [k \in 0..Nodes |-> IF k = 0 THEN first ELSE step[g[k - 1]]]
      <4>1. g[0] = first
        BY <3>1, <3>2
      <4> QED
        BY <3>1, <4>1
    <3>3. CASE P(g)
      <4>1. g[0] = first
        BY <3>1, <3>3
      <4> QED
        BY <3>1, <4>1
    <3> QED
      BY <1>4, <3>2, <3>3
  <2>2. ASSUME NEW k \in 0..(Nodes - 1), k \in S PROVE k + 1 \in S
    <3>1. k + 1 \in 0..Nodes /\ k + 1 # 0 /\ (k + 1) - 1 = k /\ g[k] \in D
      BY <1>1, <2>2
    <3>2. g[k + 1] = step[g[k]] \/ g[k + 1] = next_sibling(s, g[k])
      BY ZenonT(30), <1>4, <3>1
    <3> QED
      BY <3>1, <3>2
  <2> HIDE DEF S
  <2>3. 0..Nodes \subseteq S
    BY <1>1, <2>1, <2>2, UpTo
  <2> QED
    BY <2>3 DEF S
<1>5. P(f)
  <2>1. ASSUME NEW k \in 0..Nodes, k # 0 PROVE step[f[k - 1]] = next_sibling(s, f[k - 1])
    <3>1. k - 1 \in 0..Nodes
      BY <1>1, <2>1
    <3>2. f[k - 1] \in D
      BY <1>3, <1>4, <3>1
    <3> QED
      BY <3>2
  <2> QED
    BY <1>3, <2>1
<1> HIDE DEF P
<1>6. P(list)
  BY <1>5
<1> HIDE DEF list
<1>7. 0..Nodes \subseteq {k \in 0..Nodes : list[k] \in D}
  BY <1>4, <1>6
<1>8. list = [k \in 0..Nodes |-> IF k = 0 THEN first ELSE next_sibling(s, list[k - 1])]
  BY <1>6 DEF P
<1>9. list \in [0..Nodes -> D] /\ list[0] = first /\ \A k \in 1..Nodes : list[k] = next_sibling(s, list[k - 1])
  BY <1>1, <1>7, <1>8
<1>10. Range(list) = {list[k] : k \in 0..Nodes}
  BY <1>9 DEF Range
<1> QED
  BY <1>2, <1>9, <1>10 DEF IsList
-----------------------------------------------------------------------------
(* The derivation tree.  The links of node table s, node by node: *)
Live(s) == {id \in NodeId : names(s, id)}
par(s, id) == s.node[id[1]].parent
fst(s, id) == s.node[id[1]].first_child
nxt(s, id) == s.node[id[1]].next_sibling
Kids(s, p) == {c \in Live(s) : par(s, c) = p}

(* A node is younger than its parent and than the sibling after it; ranks  *)
(* witness that no walk along the links turns in a circle.                 *)
Ranked(s, rank, top) ==
  /\ top \in Nat /\ rank \in [Live(s) -> 0..top]
  /\ \A c \in Live(s) : /\ par(s, c) # None => rank[par(s, c)] < rank[c]
                        /\ nxt(s, c) # None => rank[nxt(s, c)] < rank[c]

(* The links are a forest: parents are live, a list holds children of its  *)
(* node only and every one of them, each is in one place of it, and there  *)
(* are no circles.                                                         *)
Forest(s) ==
  /\ \A c \in Live(s) :
       /\ par(s, c) \in Live(s) \cup {None}
       /\ fst(s, c) \in Kids(s, c) \cup {None}
       /\ nxt(s, c) # None => nxt(s, c) \in Kids(s, par(s, c)) /\ par(s, c) # None
       /\ par(s, c) # None /\ fst(s, par(s, c)) # c => \E b \in Kids(s, par(s, c)) : nxt(s, b) = c
  /\ \A b, c \in Live(s) : nxt(s, b) = nxt(s, c) /\ nxt(s, b) # None => b = c
  /\ \A b, p \in Live(s) : nxt(s, b) # None => nxt(s, b) # fst(s, p)
  /\ \E rank, top : Ranked(s, rank, top)

(* A node id names a live node with its index and generation: live nodes   *)
(* have different indices, and None is not one of them.                    *)
LEMMA LiveIndex ==
  ASSUME NEW s
  PROVE  /\ None \notin Live(s)
         /\ \A b, c \in Live(s) : b[1] = c[1] => b = c
         /\ \A c \in Live(s) : c \in NodeId /\ c[1] \in 1..Nodes /\ names(s, c)
                               /\ parent(s, c) = par(s, c) /\ next_sibling(s, c) = nxt(s, c)
         /\ parent(s, None) = None /\ next_sibling(s, None) = None
BY DEF Live, names, NodeId, parent, next_sibling, par, nxt

(* There are at most as many different live nodes as indices: a walk of    *)
(* Nodes + 1 live nodes with falling ranks is impossible.                  *)
LEMMA NoLongWalk ==
  ASSUME NEW s, NEW walk \in [0..Nodes -> Live(s)], NEW rank \in [Live(s) -> Nat],
         \A k \in 1..Nodes : rank[walk[k]] < rank[walk[k - 1]]
  PROVE  FALSE
<1>1. Nodes \in Nat
  BY CapabilityAssumption
<1>2. ASSUME NEW j \in 0..Nodes, NEW k \in 0..Nodes, j < k PROVE rank[walk[k]] < rank[walk[j]]
  <2> DEFINE S == {m \in 0..(k - j - 1) : rank[walk[j + m + 1]] < rank[walk[j]]}
  <2>1. k - j - 1 \in Nat /\ j + 1 \in 1..Nodes /\ j + 1 - 1 = j /\ j + 0 + 1 = j + 1
    BY <1>1, <1>2
  <2>2. 0 \in S
    BY <2>1
  <2>3. ASSUME NEW m \in 0..((k - j - 1) - 1), m \in S PROVE m + 1 \in S
    <3>1. j + (m + 1) + 1 \in 1..Nodes /\ (j + (m + 1) + 1) - 1 = j + m + 1 /\ m + 1 \in 0..(k - j - 1)
          /\ j + m + 1 \in 0..Nodes /\ j + (m + 1) + 1 \in 0..Nodes
      BY <1>1, <1>2, <2>3
    <3>2. rank[walk[j + (m + 1) + 1]] < rank[walk[j + m + 1]]
      BY <3>1
    <3>3. rank[walk[j + m + 1]] < rank[walk[j]]
      BY <2>3
    <3>4. rank[walk[j + (m + 1) + 1]] \in Nat /\ rank[walk[j + m + 1]] \in Nat /\ rank[walk[j]] \in Nat
      BY <3>1
    <3> QED
      BY <3>1, <3>2, <3>3, <3>4
  <2> HIDE DEF S
  <2>4. 0..(k - j - 1) \subseteq S
    BY <2>1, <2>2, <2>3, UpTo
  <2>5. k - j - 1 \in S /\ j + (k - j - 1) + 1 = k
    BY <2>1, <2>4
  <2> QED
    BY <2>5 DEF S
<1> DEFINE index == [k \in 0..Nodes |-> walk[k][1]]
<1>3. index \in [0..Nodes -> 1..Nodes]
  BY LiveIndex
<1>4. IsFiniteSet(1..Nodes) /\ Cardinality(1..Nodes) = Nodes
      /\ IsFiniteSet(0..Nodes) /\ Cardinality(0..Nodes) = Nodes + 1
  <2>1. \A a, b \in Int : IsFiniteSet(a..b) /\ Cardinality(a..b) = IF a > b THEN 0 ELSE b - a + 1
    BY FS_Interval
  <2> QED
    BY <1>1, <2>1
<1> HIDE DEF index
<1>5. PICK j \in 0..Nodes, k \in 0..Nodes : j # k /\ index[j] = index[k]
  <2>1. Cardinality(1..Nodes) < Cardinality(0..Nodes)
    BY <1>1, <1>4
  <2> QED
    BY ZenonT(30), <1>3, <1>4, <2>1, FS_PigeonHole
<1>6. walk[j] = walk[k]
  BY <1>5, LiveIndex DEF index
<1>7. rank[walk[j]] \in Nat
  OBVIOUS
<1>8. j < k \/ k < j
  BY <1>1, <1>5
<1> QED
  BY <1>2, <1>6, <1>7, <1>8

(* Walking the sibling list of a node reaches exactly its children. *)
LEMMA ChildrenExact ==
  ASSUME NEW s, Forest(s), NEW p \in Live(s)
  PROVE  children(s, p) = Kids(s, p)
<1> DEFINE D == Kids(s, p) \cup {None}
<1>1. Nodes \in Nat
  BY CapabilityAssumption
<1>2. PICK rank, top : Ranked(s, rank, top)
  BY DEF Forest
<1>3. rank \in [Live(s) -> Nat] /\ \A c \in Live(s) : nxt(s, c) # None => rank[nxt(s, c)] < rank[c]
  BY <1>2 DEF Ranked
<1>4. p # None /\ Kids(s, p) \subseteq Live(s) /\ None \notin Kids(s, p)
  BY LiveIndex DEF Kids
<1>5. fst(s, p) \in D
  BY DEF Forest
<1>6. \A c \in Kids(s, p) : next_sibling(s, c) = nxt(s, c) /\ nxt(s, c) \in D
  BY <1>4, LiveIndex DEF Kids, Forest
<1>7. \A d \in D : next_sibling(s, d) \in D
  BY <1>6, LiveIndex
<1> HIDE DEF D
<1>8. PICK list \in [0..Nodes -> D] :
         /\ list[0] = fst(s, p) /\ \A k \in 1..Nodes : list[k] = next_sibling(s, list[k - 1])
         /\ children(s, p) = {c \in {list[k] : k \in 0..Nodes} : names(s, c)}
  <2> DEFINE first == fst(s, p)
  <2>1. first = s.node[p[1]].first_child
    BY DEF fst
  <2>2. first \in D
    BY <1>5
  <2> HIDE DEF first
  <2>3. \E list \in [0..Nodes -> D] : IsList(s, p, first, list)
    BY <1>7, <2>1, <2>2, SiblingList
  <2> QED
    BY <2>3 DEF first, IsList
<1> DEFINE seen == {list[k] : k \in 0..Nodes}
<1>9. children(s, p) = seen \ {None}
  <2>1. \A c \in seen : c \in D
    BY <1>8
  <2>2. \A c \in D : names(s, c) <=> c # None
    BY <1>4, LiveIndex DEF D, names
  <2> HIDE DEF seen
  <2>3. children(s, p) = {c \in seen : names(s, c)}
    BY <1>8 DEF seen
  <2> QED
    BY <2>1, <2>2, <2>3
<1>10. ASSUME NEW k \in 0..Nodes, list[k] # None PROVE k # Nodes
  <2> SUFFICES ASSUME k = Nodes PROVE FALSE
    OBVIOUS
  <2>1. \A j \in 1..Nodes : list[j] # None => list[j - 1] # None
    BY <1>8, LiveIndex
  <2> DEFINE S == {m \in 0..Nodes : list[Nodes - m] # None}
  <2>2. 0 \in S
    BY <1>1, <1>10
  <2>3. ASSUME NEW m \in 0..(Nodes - 1), m \in S PROVE m + 1 \in S
    <3>1. Nodes - m \in 1..Nodes /\ (Nodes - m) - 1 = Nodes - (m + 1) /\ m + 1 \in 0..Nodes
      BY <1>1, <2>3
    <3>2. list[Nodes - m] # None
      BY <2>3
    <3> QED
      BY <2>1, <3>1, <3>2
  <2> HIDE DEF S
  <2>4. 0..Nodes \subseteq S
    BY <1>1, <2>2, <2>3, UpTo
  <2>5. ASSUME NEW j \in 0..Nodes PROVE list[j] # None
    <3>1. Nodes - j \in 0..Nodes /\ Nodes - (Nodes - j) = j
      BY <1>1
    <3> QED
      BY <2>4, <3>1 DEF S
  <2>6. \A j \in 0..Nodes : list[j] \in Kids(s, p)
    BY <1>8, <2>5 DEF D
  <2>7. list \in [0..Nodes -> Live(s)]
    BY <1>4, <1>8, <2>6
  <2>8. ASSUME NEW j \in 1..Nodes PROVE rank[list[j]] < rank[list[j - 1]]
    <3>1. j \in 0..Nodes /\ j - 1 \in 0..Nodes
      BY <1>1
    <3>2. list[j] = nxt(s, list[j - 1]) /\ list[j] # None /\ list[j - 1] \in Live(s)
      BY <1>4, <1>6, <1>8, <2>5, <2>6, <3>1
    <3> QED
      BY <1>3, <3>2
  <2> QED
    BY <1>3, <2>7, <2>8, NoLongWalk
<1>11. ASSUME NEW c \in Kids(s, p), c \in seen, nxt(s, c) # None PROVE nxt(s, c) \in seen
  <2>1. PICK k \in 0..Nodes : list[k] = c
    BY <1>11
  <2>2. k # Nodes
    BY <1>4, <1>10, <2>1
  <2>3. k + 1 \in 1..Nodes /\ (k + 1) - 1 = k /\ k + 1 \in 0..Nodes
    BY <1>1, <2>2
  <2>4. list[k + 1] = nxt(s, c)
    BY <1>6, <1>8, <2>1, <2>3
  <2> QED
    BY <2>3, <2>4
<1>12. fst(s, p) \in seen
  BY <1>1, <1>8
<1> HIDE DEF seen
<1>13. Kids(s, p) \subseteq seen
  <2> DEFINE missed == Kids(s, p) \ seen
             S == {top - rank[c] : c \in missed}
  <2> SUFFICES ASSUME missed # {} PROVE FALSE
    OBVIOUS
  <2>1. top \in Nat /\ \A c \in Live(s) : rank[c] \in 0..top
    BY <1>2 DEF Ranked
  <2>2. S \subseteq Nat /\ S # {}
    BY <1>4, <2>1
  <2>3. PICK n \in S : \A m \in S : n <= m
    <3> HIDE DEF S
    <3> QED
      BY <2>2, LeastNat
  <2>4. PICK c \in missed : n = top - rank[c]
    BY <2>3
  <2>5. par(s, c) = p /\ c # fst(s, p) /\ c \in Live(s)
    BY <1>12, <2>4 DEF Kids
  <2>6. PICK b \in Kids(s, p) : nxt(s, b) = c
    BY <1>4, <2>5 DEF Forest
  <2>7. c # None /\ b \in Live(s)
    BY <1>4, <2>4, <2>6
  <2>8. b \in missed
    BY <1>11, <2>4, <2>6, <2>7
  <2>9. rank[c] < rank[b]
    BY <1>3, <2>6, <2>7
  <2>10. top - rank[b] \in S
    BY <2>8
  <2> HIDE DEF S, missed
  <2>11. n <= top - rank[b]
    BY <2>3, <2>10
  <2> QED
    BY <2>1, <2>4, <2>5, <2>7, <2>9, <2>11
<1>14. seen \subseteq D
  BY <1>8 DEF seen
<1> QED
  BY <1>4, <1>9, <1>13, <1>14 DEF D
-----------------------------------------------------------------------------
(* The lineage of a live node: itself, its parent, and so on to a root.  The *)
(* walk ends before the bound on its length does.                          *)
LEMMA LineageWalk ==
  ASSUME NEW s, Forest(s), NEW x \in Live(s)
  PROVE  \E path \in [0..Nodes -> Live(s) \cup {None}] : IsPath(s, x, path) /\ path[Nodes] = None
<1> DEFINE D == Live(s) \cup {None}
<1>1. Nodes \in Nat
  BY CapabilityAssumption
<1>2. PICK rank, top : Ranked(s, rank, top)
  BY DEF Forest
<1>3. rank \in [Live(s) -> Nat] /\ \A c \in Live(s) : par(s, c) # None => rank[par(s, c)] < rank[c]
  BY <1>2 DEF Ranked
<1>4. \A d \in D : parent(s, d) \in D
  BY LiveIndex DEF Forest
<1>5. PICK path \in [0..Nodes -> D] : IsPath(s, x, path)
  <2> HIDE DEF D
  <2>1. x \in D
    BY DEF D
  <2> QED
    BY <1>4, <2>1, Path
<1>6. ASSUME path[Nodes] # None PROVE FALSE
  <2>1. \A j \in 1..Nodes : path[j] # None => path[j - 1] # None
    BY <1>5, LiveIndex DEF IsPath
  <2> DEFINE S == {m \in 0..Nodes : path[Nodes - m] # None}
  <2>2. 0 \in S
    BY <1>1, <1>6
  <2>3. ASSUME NEW m \in 0..(Nodes - 1), m \in S PROVE m + 1 \in S
    <3>1. Nodes - m \in 1..Nodes /\ (Nodes - m) - 1 = Nodes - (m + 1) /\ m + 1 \in 0..Nodes
      BY <1>1, <2>3
    <3>2. path[Nodes - m] # None
      BY <2>3
    <3> QED
      BY <2>1, <3>1, <3>2
  <2> HIDE DEF S
  <2>4. 0..Nodes \subseteq S
    BY <1>1, <2>2, <2>3, UpTo
  <2>5. ASSUME NEW j \in 0..Nodes PROVE path[j] \in Live(s)
    <3>1. Nodes - j \in 0..Nodes /\ Nodes - (Nodes - j) = j
      BY <1>1
    <3>2. path[j] # None
      BY <2>4, <3>1 DEF S
    <3> QED
      BY <1>5, <3>2
  <2>6. path \in [0..Nodes -> Live(s)]
    BY <1>5, <2>5
  <2>7. ASSUME NEW j \in 1..Nodes PROVE rank[path[j]] < rank[path[j - 1]]
    <3>1. j \in 0..Nodes /\ j - 1 \in 0..Nodes
      BY <1>1
    <3>2. path[j] = par(s, path[j - 1]) /\ path[j] # None /\ path[j - 1] \in Live(s)
      BY ZenonT(30), <1>5, <2>5, <3>1, LiveIndex DEF IsPath
    <3> QED
      BY <1>3, <3>2
  <2> QED
    BY <1>3, <2>6, <2>7, NoLongWalk
<1> QED
  BY <1>5, <1>6

(* The lineage of a node is the node and the lineage of its parent. *)
LEMMA LineageRec ==
  ASSUME NEW s, Forest(s), NEW x \in Live(s)
  PROVE  /\ x \in lineage(s, x) /\ lineage(s, x) \subseteq Live(s)
         /\ par(s, x) = None => lineage(s, x) = {x}
         /\ par(s, x) # None => lineage(s, x) = {x} \cup lineage(s, par(s, x))
<1> DEFINE D == Live(s) \cup {None}
<1>1. Nodes \in Nat /\ 0 \in 0..Nodes
  BY CapabilityAssumption
<1>2. PICK path \in [0..Nodes -> D] : IsPath(s, x, path) /\ path[Nodes] = None
  BY LineageWalk
<1>3. path[0] = x /\ ancestors(s, x) = {path[k] : k \in 0..Nodes}
  BY <1>2 DEF IsPath
<1>4. x # None
  BY LiveIndex
<1>5. x \in lineage(s, x) /\ lineage(s, x) \subseteq Live(s)
  BY <1>1, <1>2, <1>3, <1>4 DEF lineage
<1>6. Nodes # 0 /\ 1 \in 1..Nodes /\ path[1] = par(s, x)
  <2>1. Nodes # 0
    BY <1>2, <1>3, <1>4
  <2>2. 1 \in 1..Nodes /\ 1 - 1 = 0
    BY <1>1, <2>1
  <2>3. path[1] = parent(s, path[0])
    BY <1>2, <2>2 DEF IsPath
  <2> QED
    BY <1>3, <2>1, <2>2, <2>3, LiveIndex
<1>7. ASSUME par(s, x) = None PROVE lineage(s, x) = {x}
  <2> DEFINE S == {k \in 0..(Nodes - 1) : path[k + 1] = None}
  <2>1. 0 \in S
    BY <1>1, <1>6, <1>7
  <2>2. ASSUME NEW k \in 0..((Nodes - 1) - 1), k \in S PROVE k + 1 \in S
    <3>1. k + 1 \in 0..(Nodes - 1) /\ k + 1 + 1 \in 1..Nodes /\ (k + 1 + 1) - 1 = k + 1
      BY <1>1, <2>2
    <3>2. path[k + 1 + 1] = parent(s, path[k + 1])
      BY <1>2, <3>1 DEF IsPath
    <3> QED
      BY <2>2, <3>1, <3>2, LiveIndex
  <2>3. Nodes - 1 \in Nat
    BY <1>1, <1>6
  <2> HIDE DEF S
  <2>4. 0..(Nodes - 1) \subseteq S
    BY <2>1, <2>2, <2>3, UpTo
  <2>5. ASSUME NEW k \in 0..Nodes PROVE path[k] \in {x, None}
    <3>1. k = 0 \/ (k - 1 \in 0..(Nodes - 1) /\ (k - 1) + 1 = k)
      BY <1>1
    <3> QED
      BY <1>3, <2>4, <3>1 DEF S
  <2> QED
    BY ZenonT(30), <1>3, <1>5, <2>5 DEF lineage
<1>8. ASSUME par(s, x) # None PROVE lineage(s, x) = {x} \cup lineage(s, par(s, x))
  <2> DEFINE p == par(s, x)
  <2>1. p \in Live(s)
    BY <1>8 DEF Forest
  <2> HIDE DEF p
  <2>2. PICK up \in [0..Nodes -> D] : IsPath(s, p, up) /\ up[Nodes] = None
    BY <2>1, LineageWalk
  <2> DEFINE S == {k \in 0..(Nodes - 1) : up[k] = path[k + 1]}
  <2>3. 0 \in S
    BY <1>1, <1>6, <2>2 DEF IsPath, p
  <2>4. ASSUME NEW k \in 0..((Nodes - 1) - 1), k \in S PROVE k + 1 \in S
    <3>1. k + 1 \in 0..(Nodes - 1) /\ k + 1 + 1 \in 1..Nodes /\ (k + 1 + 1) - 1 = k + 1
          /\ k + 1 \in 1..Nodes /\ (k + 1) - 1 = k
      BY <1>1, <2>4
    <3>2. path[k + 1 + 1] = parent(s, path[k + 1]) /\ up[k + 1] = parent(s, up[k])
      BY <1>2, <2>2, <3>1 DEF IsPath
    <3> QED
      BY <2>4, <3>1, <3>2
  <2>5. Nodes - 1 \in Nat
    BY <1>1, <1>6
  <2> HIDE DEF S
  <2>6. 0..(Nodes - 1) \subseteq S
    BY <2>3, <2>4, <2>5, UpTo
  <2>7. ASSUME NEW a \in lineage(s, x) PROVE a \in {x} \cup lineage(s, p)
    <3>1. PICK k \in 0..Nodes : a = path[k] /\ a # None
      BY <1>3, <2>7 DEF lineage
    <3>2. k = 0 \/ (k - 1 \in 0..(Nodes - 1) /\ (k - 1) + 1 = k /\ k - 1 \in 0..Nodes)
      BY <1>1
    <3>3. k = 0 \/ (k - 1 \in 0..Nodes /\ a = up[k - 1])
      BY <2>6, <3>1, <3>2 DEF S
    <3> QED
      BY <1>3, <2>2, <3>1, <3>3 DEF IsPath, lineage
  <2>8. ASSUME NEW a \in lineage(s, p) PROVE a \in lineage(s, x)
    <3>1. PICK k \in 0..Nodes : a = up[k] /\ a # None
      BY <2>2, <2>8 DEF IsPath, lineage
    <3>2. k # Nodes
      BY <2>2, <3>1
    <3>3. k \in 0..(Nodes - 1) /\ k + 1 \in 0..Nodes
      BY <1>1, <3>2
    <3>4. a = path[k + 1]
      BY <2>6, <3>1, <3>3 DEF S
    <3> QED
      BY <1>3, <3>1, <3>3, <3>4 DEF lineage
  <2> QED
    BY <1>5, <2>7, <2>8 DEF p
<1> QED
  BY <1>5, <1>7, <1>8

(* The rank does not rise along a lineage. *)
LEMMA LineageRanks ==
  ASSUME NEW s, Forest(s), NEW rank, NEW top, Ranked(s, rank, top), NEW x \in Live(s), NEW a \in lineage(s, x)
  PROVE  a \in Live(s) /\ rank[a] <= rank[x]
<1>1. Nodes \in Nat
  BY CapabilityAssumption
<1>2. PICK path \in [0..Nodes -> Live(s) \cup {None}] : IsPath(s, x, path) /\ path[Nodes] = None
  BY LineageWalk
<1>3. rank \in [Live(s) -> Nat] /\ \A c \in Live(s) : par(s, c) # None => rank[par(s, c)] < rank[c]
  BY DEF Ranked
<1> DEFINE S == {k \in 0..Nodes : path[k] # None => rank[path[k]] <= rank[x]}
<1>4. 0 \in S
  BY <1>1, <1>2, <1>3 DEF IsPath
<1>5. ASSUME NEW k \in 0..(Nodes - 1), k \in S PROVE k + 1 \in S
  <2>1. k + 1 \in 1..Nodes /\ (k + 1) - 1 = k /\ k + 1 \in 0..Nodes /\ k \in 0..Nodes
    BY <1>1, <1>5
  <2>2. path[k + 1] = parent(s, path[k])
    BY <1>2, <2>1 DEF IsPath
  <2>3. CASE path[k] = None
    BY <2>1, <2>2, <2>3, LiveIndex
  <2>4. CASE path[k] # None
    <3>1. path[k] \in Live(s) /\ path[k + 1] = par(s, path[k])
      BY <1>2, <2>1, <2>2, <2>4, LiveIndex
    <3>2. path[k + 1] # None => path[k + 1] \in Live(s) /\ rank[path[k + 1]] < rank[path[k]]
      BY <1>2, <1>3, <2>1, <3>1
    <3>3. rank[path[k]] <= rank[x]
      BY <1>5, <2>4
    <3>4. path[k + 1] # None => rank[path[k + 1]] <= rank[x]
      BY <1>3, <3>1, <3>2, <3>3
    <3> QED
      BY <2>1, <3>4
  <2> QED
    BY <2>3, <2>4
<1> HIDE DEF S
<1>6. 0..Nodes \subseteq S
  BY <1>1, <1>4, <1>5, UpTo
<1>7. PICK k \in 0..Nodes : a = path[k] /\ a # None
  BY <1>2 DEF IsPath, lineage
<1> QED
  BY <1>2, <1>6, <1>7 DEF S

(* A step that keeps the nodes of a closed part of the tree, and their     *)
(* parents, keeps the lineages there.                                      *)
LEMMA SameLineage ==
  ASSUME NEW s, NEW t,
         \A c \in Live(s) : c \in Live(t) /\ par(t, c) = par(s, c) /\ par(s, c) \in Live(s) \cup {None},
         NEW x \in Live(s)
  PROVE  lineage(t, x) = lineage(s, x)
<1> DEFINE D == Live(s) \cup {None}
<1>1. Nodes \in Nat
  BY CapabilityAssumption
<1>2. \A d \in D : parent(s, d) \in D /\ parent(t, d) = parent(s, d)
  BY LiveIndex
<1>3. PICK path \in [0..Nodes -> D] : IsPath(s, x, path)
  <2> HIDE DEF D
  <2>1. x \in D
    BY DEF D
  <2> QED
    BY <1>2, <2>1, Path
<1>4. PICK same \in [0..Nodes -> D] : IsPath(t, x, same)
  <2> HIDE DEF D
  <2>1. x \in D
    BY DEF D
  <2> QED
    BY <1>2, <2>1, Path
<1> DEFINE S == {k \in 0..Nodes : same[k] = path[k]}
<1>5. 0 \in S
  BY <1>1, <1>3, <1>4 DEF IsPath
<1>6. ASSUME NEW k \in 0..(Nodes - 1), k \in S PROVE k + 1 \in S
  <2>1. k + 1 \in 1..Nodes /\ (k + 1) - 1 = k /\ k + 1 \in 0..Nodes /\ k \in 0..Nodes
    BY <1>1, <1>6
  <2>2. path[k + 1] = parent(s, path[k]) /\ same[k + 1] = parent(t, same[k]) /\ path[k] \in D
    BY <1>3, <1>4, <2>1 DEF IsPath
  <2> QED
    BY <1>2, <1>6, <2>1, <2>2
<1> HIDE DEF S
<1>7. 0..Nodes \subseteq S
  BY <1>1, <1>5, <1>6, UpTo
<1>8. \A k \in 0..Nodes : same[k] = path[k]
  BY <1>7 DEF S
<1> QED
  BY <1>3, <1>4, <1>8 DEF IsPath, lineage

(* reach is the sets find_unrevoked_descendant can see, level by level *)
IsReach(s, id, reach) ==
  /\ reach[0] = Kids(s, id)
  /\ \A k \in 1..Nodes : reach[k] = reach[k - 1] \cup UNION {Kids(s, c) : c \in reach[k - 1]}
  /\ descendants(s, id) = reach[Nodes]

(* The levels below a node are sets of live nodes. *)
LEMMA Reach ==
  ASSUME NEW s, Forest(s), NEW id \in Live(s)
  PROVE  \E reach \in [0..Nodes -> SUBSET Live(s)] : IsReach(s, id, reach)
<1> DEFINE D == SUBSET Live(s)
           P(r) == r = [k \in 0..Nodes |-> IF k = 0 THEN children(s, id) ELSE and_children(s, r[k - 1])]
           step == [U \in D |-> and_children(s, U)]
           reach == CHOOSE r : P(r)
<1>1. Nodes \in Nat
  BY CapabilityAssumption
<1>2. descendants(s, id) = reach[Nodes]
  BY DEF descendants
<1>3. children(s, id) = Kids(s, id) /\ Kids(s, id) \in D
  BY ChildrenExact DEF Kids
<1>4. ASSUME NEW U \in D
      PROVE  and_children(s, U) = U \cup UNION {Kids(s, c) : c \in U} /\ and_children(s, U) \in D
  <2>1. \A c \in U : children(s, c) = Kids(s, c) /\ Kids(s, c) \in D
    BY ChildrenExact DEF Kids
  <2>2. {children(s, c) : c \in U} = {Kids(s, c) : c \in U}
    BY <2>1
  <2>3. and_children(s, U) = U \cup UNION {Kids(s, c) : c \in U}
    BY <2>2 DEF and_children
  <2>4. UNION {Kids(s, c) : c \in U} \subseteq Live(s)
    BY <2>1
  <2> QED
    BY <2>3, <2>4
<1>5. PICK f : f = [k \in 0..Nodes |-> IF k = 0 THEN children(s, id) ELSE step[f[k - 1]]]
  <2>1. step \in [D -> D]
    BY <1>4
  <2> HIDE DEF step, D
  <2> QED
    BY Z3T(30), <1>1, <1>3, <2>1, Iterates
<1>6. ASSUME NEW g, g = [k \in 0..Nodes |-> IF k = 0 THEN children(s, id) ELSE step[g[k - 1]]] \/ P(g)
      PROVE  0..Nodes \subseteq {k \in 0..Nodes : g[k] \in D}
  <2> DEFINE S == {k \in 0..Nodes : g[k] \in D}
  <2>1. 0 \in S
    <3>1. 0 \in 0..Nodes
      BY <1>1
    <3>2. g[0] = children(s, id)
      BY <1>6, <3>1
    <3> QED
      BY <1>3, <3>1, <3>2
  <2>2. ASSUME NEW k \in 0..(Nodes - 1), k \in S PROVE k + 1 \in S
    <3>1. k + 1 \in 0..Nodes /\ k + 1 # 0 /\ (k + 1) - 1 = k /\ g[k] \in D
      BY <1>1, <2>2
    <3>2. g[k + 1] = step[g[k]] \/ g[k + 1] = and_children(s, g[k])
      BY ZenonT(30), <1>6, <3>1
    <3>3. g[k + 1] = and_children(s, g[k])
      BY <3>1, <3>2
    <3> QED
      BY <1>4, <3>1, <3>3
  <2> HIDE DEF S
  <2>3. 0..Nodes \subseteq S
    BY <1>1, <2>1, <2>2, UpTo
  <2> QED
    BY <2>3 DEF S
<1>7. P(f)
  <2>1. ASSUME NEW k \in 0..Nodes, k # 0 PROVE step[f[k - 1]] = and_children(s, f[k - 1])
    <3>1. k - 1 \in 0..Nodes
      BY <1>1, <2>1
    <3>2. f[k - 1] \in D
      BY <1>5, <1>6, <3>1
    <3> QED
      BY <3>2
  <2> QED
    BY <1>5, <2>1
<1> HIDE DEF P
<1>8. P(reach)
  BY <1>7
<1> HIDE DEF reach
<1>9. 0..Nodes \subseteq {k \in 0..Nodes : reach[k] \in D}
  BY <1>6, <1>8
<1>10. reach = [k \in 0..Nodes |-> IF k = 0 THEN children(s, id) ELSE and_children(s, reach[k - 1])]
  BY <1>8 DEF P
<1>11. reach \in [0..Nodes -> D] /\ reach[0] = Kids(s, id)
  BY <1>1, <1>3, <1>9, <1>10
<1>12. ASSUME NEW k \in 1..Nodes PROVE reach[k] = reach[k - 1] \cup UNION {Kids(s, c) : c \in reach[k - 1]}
  <2>1. k \in 0..Nodes /\ k # 0 /\ k - 1 \in 0..Nodes
    BY <1>1
  <2>2. reach[k] = and_children(s, reach[k - 1]) /\ reach[k - 1] \in D
    BY <1>10, <1>11, <2>1
  <2> QED
    BY <1>4, <2>2
<1> QED
  BY <1>2, <1>11, <1>12 DEF IsReach

(* The descendants of a node are younger than it... *)
LEMMA DescendantsRanks ==
  ASSUME NEW s, Forest(s), NEW rank, NEW top, Ranked(s, rank, top), NEW id \in Live(s), NEW d \in descendants(s, id)
  PROVE  d \in Live(s) /\ rank[id] < rank[d]
<1>1. Nodes \in Nat
  BY CapabilityAssumption
<1>2. PICK reach \in [0..Nodes -> SUBSET Live(s)] : IsReach(s, id, reach)
  BY Reach
<1>3. rank \in [Live(s) -> Nat] /\ \A c \in Live(s) : par(s, c) # None => rank[par(s, c)] < rank[c]
  BY DEF Ranked
<1>4. \A p \in Live(s) : \A c \in Kids(s, p) : c \in Live(s) /\ rank[p] < rank[c]
  BY <1>3, LiveIndex DEF Kids
<1> DEFINE S == {k \in 0..Nodes : \A c \in reach[k] : rank[id] < rank[c]}
<1>5. 0 \in S
  BY <1>1, <1>2, <1>4 DEF IsReach
<1>6. ASSUME NEW k \in 0..(Nodes - 1), k \in S PROVE k + 1 \in S
  <2>1. k + 1 \in 1..Nodes /\ (k + 1) - 1 = k /\ k + 1 \in 0..Nodes /\ k \in 0..Nodes
    BY <1>1, <1>6
  <2>2. reach[k + 1] = reach[k] \cup UNION {Kids(s, c) : c \in reach[k]} /\ reach[k] \subseteq Live(s)
    BY <1>2, <2>1 DEF IsReach
  <2>3. ASSUME NEW c \in reach[k + 1] PROVE rank[id] < rank[c]
    <3>1. CASE c \in reach[k]
      BY <1>6, <3>1
    <3>2. CASE c \notin reach[k]
      <4>1. PICK p \in reach[k] : c \in Kids(s, p)
        BY <2>2, <3>2
      <4>2. p \in Live(s) /\ rank[id] < rank[p]
        BY <1>6, <2>2, <4>1
      <4>3. c \in Live(s) /\ rank[p] < rank[c]
        BY <1>4, <4>1, <4>2
      <4> QED
        BY <1>3, <4>2, <4>3
    <3> QED
      BY <3>1, <3>2
  <2> QED
    BY <2>1, <2>3
<1> HIDE DEF S
<1>7. 0..Nodes \subseteq S
  BY <1>1, <1>5, <1>6, UpTo
<1>8. Nodes \in S /\ d \in reach[Nodes]
  BY <1>1, <1>2, <1>7 DEF IsReach
<1> QED
  BY <1>1, <1>2, <1>8 DEF S

(* ...and include every node with it in its lineage, however deep. *)
LEMMA DescendantsReach ==
  ASSUME NEW s, Forest(s), NEW x \in Live(s), NEW id \in lineage(s, x), x # id
  PROVE  x \in descendants(s, id)
<1>1. Nodes \in Nat
  BY CapabilityAssumption
<1>2. id \in Live(s) /\ None \notin Live(s)
  BY LineageRec, LiveIndex
<1>3. PICK path \in [0..Nodes -> Live(s) \cup {None}] : IsPath(s, x, path) /\ path[Nodes] = None
  BY LineageWalk
<1>4. PICK reach \in [0..Nodes -> SUBSET Live(s)] : IsReach(s, id, reach)
  BY <1>2, Reach
<1>5. PICK m \in 0..Nodes : id = path[m]
  BY <1>3 DEF IsPath, lineage
<1>6. m # 0
  BY <1>3, <1>5 DEF IsPath
<1>7. m - 1 \in Nat /\ m - 1 \in 0..Nodes
  BY <1>1, <1>6
<1>8. ASSUME NEW k \in 1..Nodes, path[k] # None
      PROVE  path[k - 1] \in Kids(s, path[k])
  <2>1. k - 1 \in 0..Nodes /\ path[k] = parent(s, path[k - 1])
    BY <1>1, <1>3 DEF IsPath
  <2>2. path[k - 1] # None
    BY <1>8, <2>1, LiveIndex
  <2>3. path[k - 1] \in Live(s)
    BY <1>3, <2>1, <2>2
  <2> QED
    BY <2>1, <2>3, LiveIndex DEF Kids
<1> DEFINE S == {j \in 0..(m - 1) : path[(m - 1) - j] \in reach[j]}
<1>9. 0 \in S
  <2>1. m \in 1..Nodes /\ (m - 1) - 0 = m - 1 /\ 0 \in 0..(m - 1)
    BY <1>1, <1>6
  <2>2. path[m - 1] \in Kids(s, id)
    BY <1>2, <1>5, <1>8, <2>1
  <2> QED
    BY <1>4, <2>1, <2>2 DEF IsReach
<1>10. ASSUME NEW j \in 0..((m - 1) - 1), j \in S PROVE j + 1 \in S
  <2>1. j + 1 \in 0..(m - 1) /\ j + 1 \in 1..Nodes /\ (j + 1) - 1 = j /\ j \in 0..Nodes
        /\ (m - 1) - j \in 1..Nodes /\ ((m - 1) - j) - 1 = (m - 1) - (j + 1)
    BY <1>1, <1>6, <1>10
  <2>2. path[(m - 1) - j] \in reach[j] /\ path[(m - 1) - j] # None
    BY <1>2, <1>4, <1>10, <2>1
  <2>3. path[(m - 1) - (j + 1)] \in Kids(s, path[(m - 1) - j])
    BY <1>8, <2>1, <2>2
  <2>4. reach[j + 1] = reach[j] \cup UNION {Kids(s, c) : c \in reach[j]}
    BY <1>4, <2>1 DEF IsReach
  <2>5. path[(m - 1) - (j + 1)] \in reach[j + 1]
    BY <2>2, <2>3, <2>4
  <2> QED
    BY <2>1, <2>5
<1> HIDE DEF S
<1>11. 0..(m - 1) \subseteq S
  BY <1>7, <1>9, <1>10, UpTo
<1>12. x \in reach[m - 1]
  <2>1. m - 1 \in 0..(m - 1) /\ (m - 1) - (m - 1) = 0
    BY <1>7
  <2> QED
    BY <1>3, <1>11, <2>1 DEF S, IsPath
<1> DEFINE T == {j \in 0..(Nodes - (m - 1)) : x \in reach[(m - 1) + j]}
<1>13. 0 \in T
  <2>1. 0 \in 0..(Nodes - (m - 1)) /\ (m - 1) + 0 = m - 1
    BY <1>1, <1>7
  <2> QED
    BY <1>12, <2>1
<1>14. ASSUME NEW j \in 0..((Nodes - (m - 1)) - 1), j \in T PROVE j + 1 \in T
  <2>1. j + 1 \in 0..(Nodes - (m - 1)) /\ (m - 1) + (j + 1) \in 1..Nodes /\ ((m - 1) + (j + 1)) - 1 = (m - 1) + j
    BY <1>1, <1>7, <1>14
  <2>2. x \in reach[(m - 1) + j]
    BY <1>14
  <2>3. x \in reach[(m - 1) + (j + 1)]
    BY <1>4, <2>1, <2>2 DEF IsReach
  <2> QED
    BY <2>1, <2>3
<1> HIDE DEF T
<1>15. Nodes - (m - 1) \in Nat
  BY <1>1, <1>7
<1>16. 0..(Nodes - (m - 1)) \subseteq T
  BY <1>13, <1>14, <1>15, UpTo
<1>17. Nodes - (m - 1) \in T /\ (m - 1) + (Nodes - (m - 1)) = Nodes
  BY <1>1, <1>7, <1>15, <1>16
<1> QED
  BY <1>4, <1>17 DEF T, IsReach
-----------------------------------------------------------------------------
(* What the operations on the node table do, node by node *)
NodeType ==
  [live : BOOLEAN, object : Objects \cup {None}, rights : SUBSET Rights, parent : NodeId \cup {None},
   first_child : NodeId \cup {None}, next_sibling : NodeId \cup {None}, revoked : BOOLEAN, references : Nat]

TableType(s) ==
  s \in [node : [1..Nodes -> NodeType], generation : [1..Nodes -> 1..MaxGeneration], free : Seq(1..Nodes)]

(* The free list holds different indices, of nodes that are not live. *)
FreeList(s) ==
  /\ \A a, b \in DOMAIN s.free : s.free[a] = s.free[b] => a = b
  /\ \A a \in DOMAIN s.free : ~s.node[s.free[a]].live

refs(s, id) == s.node[id[1]].references
flag(s, id) == s.node[id[1]].revoked
obj(s, id) == s.node[id[1]].object
rts(s, id) == s.node[id[1]].rights

NewId(s) == <<Head(s.free), s.generation[Head(s.free)]>>

(* The parts of a node table *)
LEMMA TableParts ==
  ASSUME NEW s, TableType(s)
  PROVE  /\ s.node \in [1..Nodes -> NodeType] /\ s.generation \in [1..Nodes -> 1..MaxGeneration]
         /\ s.free \in Seq(1..Nodes)
         /\ \A i \in 1..Nodes : <<i, s.generation[i]>> \in NodeId
         /\ \A i \in 1..Nodes : <<i, s.generation[i]>> \in Live(s) <=> s.node[i].live
         /\ \A c \in Live(s) : c = <<c[1], s.generation[c[1]]>> /\ c[1] \in 1..Nodes /\ s.node[c[1]].live
<1>1. /\ s.node \in [1..Nodes -> NodeType] /\ s.generation \in [1..Nodes -> 1..MaxGeneration]
      /\ s.free \in Seq(1..Nodes)
  BY DEF TableType
<1>2. \A i \in 1..Nodes : <<i, s.generation[i]>> \in NodeId
  BY <1>1 DEF NodeId
<1>3. None \notin NodeId
  BY CapabilityAssumption DEF NodeId
<1>4. \A i \in 1..Nodes : <<i, s.generation[i]>> \in Live(s) <=> s.node[i].live
  BY <1>2, <1>3 DEF Live, names
<1>5. \A c \in Live(s) : c = <<c[1], s.generation[c[1]]>> /\ c[1] \in 1..Nodes /\ s.node[c[1]].live
  BY DEF Live, names, NodeId
<1> QED
  BY <1>1, <1>2, <1>4, <1>5

(* The first element of a sequence *)
LEMMA FirstOf ==
  ASSUME NEW S, NEW q \in Seq(S), q # <<>>
  PROVE  1 \in DOMAIN q /\ Head(q) = q[1] /\ Head(q) \in S /\ Tail(q) \in Seq(S)
OBVIOUS

(* An element of a sequence. *)
LEMMA Elements ==
  ASSUME NEW S, NEW q \in Seq(S)
  PROVE  \A k \in DOMAIN q : q[k] \in S
OBVIOUS

(* link_child's change of the parent's node *)
linked_node(n, f) == [n EXCEPT !.references = @ + 1, !.first_child = f]
linked_table(s, i, f) == [s EXCEPT !.node[i].references = @ + 1, !.node[i].first_child = f]

(* link_child changes that node and no other. *)
LEMMA LinkNode ==
  ASSUME NEW s, TableType(s), NEW i \in 1..Nodes, NEW f \in NodeId
  PROVE  /\ TableType(linked_table(s, i, f))
         /\ linked_table(s, i, f).generation = s.generation /\ linked_table(s, i, f).free = s.free
         /\ linked_table(s, i, f).node[i] = linked_node(s.node[i], f)
         /\ \A j \in 1..Nodes : j # i => linked_table(s, i, f).node[j] = s.node[j]
<1> DEFINE r == s.node[i].references + 1
           t == [s EXCEPT !.node[i].references = r, !.node[i].first_child = f]
           n == [s.node[i] EXCEPT !.references = r, !.first_child = f]
<1>1. linked_table(s, i, f) = t
  BY DEF TableType, linked_table
<1>2. linked_node(s.node[i], f) = n
  BY DEF linked_node
<1>3. s.node[i] \in NodeType
  BY TableParts
<1>4. r \in Nat
  BY <1>3 DEF NodeType
<1> HIDE DEF r
<1>5. n \in NodeType
  <2>1. \A m \in NodeType : [m EXCEPT !.references = r, !.first_child = f] \in NodeType
    BY <1>4 DEF NodeType
  <2> QED
    BY <1>3, <2>1
<1>6. t.generation = s.generation /\ t.free = s.free
  BY DEF TableType
<1>7. t.node[i] = n
  BY DEF TableType
<1>8. ASSUME NEW j \in 1..Nodes, j # i PROVE t.node[j] = s.node[j]
  BY <1>8 DEF TableType
<1>9. TableType(t)
  BY <1>5 DEF TableType
<1> QED
  BY <1>1, <1>2, <1>6, <1>7, <1>8, <1>9

(* The node allocate_node fills in *)
new_node(s, info, p) ==
  [FreeNode EXCEPT !.live = TRUE, !.references = 1, !.parent = p, !.object = info.object, !.rights = info.rights,
                   !.next_sibling = IF p = None THEN None ELSE s.node[p[1]].first_child]

(* allocate_node takes the first free node and links it as first child. *)
LEMMA AllocateNodes ==
  ASSUME NEW s, TableType(s), FreeList(s), s.free # <<>>, NEW p \in Live(s) \cup {None},
         NEW info \in [object : Objects, rights : SUBSET Rights], NEW t, t = allocate_node(s, info, p)
  PROVE  /\ Head(s.free) \in 1..Nodes /\ ~s.node[Head(s.free)].live
         /\ p # None => p[1] \in 1..Nodes /\ p[1] # Head(s.free)
         /\ t.generation = s.generation /\ t.free = Tail(s.free) /\ TableType(t)
         /\ t.node[Head(s.free)] = new_node(s, info, p)
         /\ p # None => t.node[p[1]] = linked_node(s.node[p[1]], NewId(s))
         /\ \A j \in 1..Nodes \ {Head(s.free)} : (p = None \/ j # p[1]) => t.node[j] = s.node[j]
<1> DEFINE i == Head(s.free)
           new == new_node(s, info, p)
           s1 == [s EXCEPT !.free = Tail(@), !.node[i] = new]
<1>1. s.node \in [1..Nodes -> NodeType] /\ s.generation \in [1..Nodes -> 1..MaxGeneration]
      /\ s.free \in Seq(1..Nodes)
  BY TableParts
<1>2. i \in 1..Nodes /\ ~s.node[i].live /\ Tail(s.free) \in Seq(1..Nodes)
  <2>1. 1 \in DOMAIN s.free /\ i = s.free[1] /\ i \in 1..Nodes /\ Tail(s.free) \in Seq(1..Nodes)
    BY <1>1, FirstOf
  <2>2. ~s.node[i].live
    BY <2>1 DEF FreeList
  <2> QED
    BY <2>1, <2>2
<1>3. p # None => p[1] \in 1..Nodes /\ p[1] # i
  BY <1>2, TableParts
<1>4. NewId(s) \in NodeId
  BY <1>2, TableParts DEF NewId
<1>5. new \in NodeType
  <2>1. p \in NodeId \cup {None}
    BY DEF Live
  <2>2. p # None => s.node[p[1]].first_child \in NodeId \cup {None}
    BY <1>1, <1>3 DEF NodeType
  <2>3. info.object \in Objects /\ info.rights \in SUBSET Rights
    OBVIOUS
  <2> QED
    BY <2>1, <2>2, <2>3 DEF NodeType, FreeNode, new_node
<1>6. t = IF p = None THEN s1 ELSE linked_table(s1, p[1], NewId(s))
  BY DEF allocate_node, NewId, linked_table, new_node
<1> HIDE DEF new
<1>7. s1.node = [s.node EXCEPT ![i] = new] /\ s1.generation = s.generation /\ s1.free = Tail(s.free)
  BY DEF TableType
<1>8. TableType(s1)
  BY <1>1, <1>2, <1>5 DEF TableType
<1> HIDE DEF s1
<1>9. CASE p = None
  <2>1. t = s1
    BY <1>6, <1>9
  <2>2. s1.node[i] = new /\ \A j \in 1..Nodes \ {i} : s1.node[j] = s.node[j]
    BY <1>1, <1>2, <1>7
  <2> QED
    BY <1>2, <1>7, <1>8, <1>9, <2>1, <2>2 DEF new
<1>10. CASE p # None
  <2> DEFINE k == p[1]
  <2>1. t = linked_table(s1, k, NewId(s)) /\ k \in 1..Nodes /\ k # i
    BY <1>3, <1>6, <1>10
  <2>2. s1.node[k] = s.node[k] /\ s1.node[i] = new /\ \A j \in 1..Nodes \ {i} : s1.node[j] = s.node[j]
    BY <1>1, <1>2, <1>7, <2>1
  <2> HIDE DEF k
  <2>3. TableType(t) /\ t.generation = s1.generation /\ t.free = s1.free
        /\ t.node[k] = linked_node(s1.node[k], NewId(s))
    BY <1>4, <1>8, <2>1, LinkNode
  <2>4. \A j \in 1..Nodes : j # k => t.node[j] = s1.node[j]
    BY <1>4, <1>8, <2>1, LinkNode
  <2> QED
    BY <1>2, <1>3, <1>7, <1>10, <2>1, <2>2, <2>3, <2>4 DEF new, k
<1> QED
  BY <1>9, <1>10

(* What allocate_node does to the tree: one more node, first child of p *)
Allocated(s, t, info, p) ==
  /\ TableType(t) /\ FreeList(t) /\ t.generation = s.generation /\ t.free = Tail(s.free)
  /\ NewId(s) \in NodeId /\ NewId(s) \notin Live(s) /\ Live(t) = Live(s) \cup {NewId(s)}
  /\ par(t, NewId(s)) = p /\ fst(t, NewId(s)) = None
  /\ nxt(t, NewId(s)) = IF p = None THEN None ELSE fst(s, p)
  /\ refs(t, NewId(s)) = 1 /\ flag(t, NewId(s)) = FALSE
  /\ obj(t, NewId(s)) = info.object /\ rts(t, NewId(s)) = info.rights
  /\ \A c \in Live(s) :
       /\ par(t, c) = par(s, c) /\ nxt(t, c) = nxt(s, c) /\ flag(t, c) = flag(s, c)
       /\ obj(t, c) = obj(s, c) /\ rts(t, c) = rts(s, c)
       /\ fst(t, c) = IF c = p THEN NewId(s) ELSE fst(s, c)
       /\ refs(t, c) = IF c = p THEN refs(s, c) + 1 ELSE refs(s, c)

(* It does that. *)
LEMMA AllocateEffect ==
  ASSUME NEW s, TableType(s), FreeList(s), s.free # <<>>, NEW p \in Live(s) \cup {None},
         NEW info \in [object : Objects, rights : SUBSET Rights], NEW t, t = allocate_node(s, info, p)
  PROVE  Allocated(s, t, info, p)
<1> DEFINE i == Head(s.free)
           id == NewId(s)
           new == new_node(s, info, p)
<1>1. i \in 1..Nodes /\ ~s.node[i].live /\ t.generation = s.generation /\ t.free = Tail(s.free) /\ TableType(t)
      /\ t.node[i] = new
  BY AllocateNodes
<1>2. p # None => p[1] \in 1..Nodes /\ p[1] # i /\ t.node[p[1]] = linked_node(s.node[p[1]], id)
  BY ZenonT(30), AllocateNodes
<1>3. \A j \in 1..Nodes \ {i} : (p = None \/ j # p[1]) => t.node[j] = s.node[j]
  BY AllocateNodes
<1>4. id[1] = i /\ id = <<i, s.generation[i]>>
  BY DEF NewId
<1>5. new.live = TRUE /\ new.references = 1 /\ new.parent = p /\ new.object = info.object /\ new.rights = info.rights
      /\ new.first_child = None /\ new.revoked = FALSE
      /\ new.next_sibling = IF p = None THEN None ELSE s.node[p[1]].first_child
  BY DEF new_node, FreeNode
<1> HIDE DEF new, i, id
<1>6. id \in NodeId /\ id \notin Live(s)
  BY <1>1, <1>4, TableParts
<1>7. ASSUME NEW j \in 1..Nodes \ {i}
      PROVE  /\ t.node[j].live = s.node[j].live /\ t.node[j].parent = s.node[j].parent
             /\ t.node[j].next_sibling = s.node[j].next_sibling /\ t.node[j].revoked = s.node[j].revoked
             /\ t.node[j].object = s.node[j].object /\ t.node[j].rights = s.node[j].rights
             /\ p # None /\ j = p[1] => t.node[j].first_child = id /\ t.node[j].references = s.node[j].references + 1
             /\ p = None \/ j # p[1] => t.node[j].first_child = s.node[j].first_child
                                        /\ t.node[j].references = s.node[j].references
  <2>1. CASE p # None /\ j = p[1]
    <3>1. t.node[j] = linked_node(s.node[j], id)
      BY <1>2, <2>1
    <3>2. s.node[j] \in NodeType
      BY ZenonT(30), TableParts
    <3> QED
      BY ZenonT(30), <2>1, <3>1, <3>2 DEF linked_node, NodeType
  <2>2. CASE p = None \/ j # p[1]
    BY <1>3, <2>2
  <2> QED
    BY <2>1, <2>2
<1>8. Live(t) = Live(s) \cup {id}
  <2>1. ASSUME NEW c \in Live(t) PROVE c \in Live(s) \cup {id}
    <3>1. c = <<c[1], t.generation[c[1]]>> /\ c[1] \in 1..Nodes /\ t.node[c[1]].live
      BY <1>1, TableParts
    <3>2. CASE c[1] = i
      BY <1>1, <1>4, <3>1, <3>2
    <3>3. CASE c[1] # i
      <4>1. s.node[c[1]].live
        BY <1>7, <3>1, <3>3
      <4> QED
        BY <1>1, <3>1, <4>1, TableParts
    <3> QED
      BY <3>2, <3>3
  <2>2. ASSUME NEW c \in Live(s) PROVE c \in Live(t)
    <3>1. c = <<c[1], s.generation[c[1]]>> /\ c[1] \in 1..Nodes /\ s.node[c[1]].live
      BY TableParts
    <3>2. c[1] # i
      BY <1>1, <3>1
    <3>3. t.node[c[1]].live
      BY <1>7, <3>1, <3>2
    <3> QED
      BY <1>1, <3>1, <3>3, TableParts
  <2>3. id \in Live(t)
    BY <1>1, <1>4, <1>5, TableParts
  <2> QED
    BY <2>1, <2>2, <2>3
<1>9. ASSUME NEW c \in Live(s)
      PROVE  /\ par(t, c) = par(s, c) /\ nxt(t, c) = nxt(s, c) /\ flag(t, c) = flag(s, c)
             /\ obj(t, c) = obj(s, c) /\ rts(t, c) = rts(s, c)
             /\ fst(t, c) = IF c = p THEN id ELSE fst(s, c)
             /\ refs(t, c) = IF c = p THEN refs(s, c) + 1 ELSE refs(s, c)
  <2>1. c[1] \in 1..Nodes \ {i}
    BY <1>1, TableParts
  <2>2. c = p <=> (p # None /\ c[1] = p[1])
    BY LiveIndex
  <2> QED
    BY <1>7, <2>1, <2>2 DEF par, nxt, flag, obj, rts, fst, refs
<1>10. FreeList(t)
  <2>1. s.free \in Seq(1..Nodes)
    BY TableParts
  <2>2. \A a \in DOMAIN t.free : a + 1 \in DOMAIN s.free /\ t.free[a] = s.free[a + 1] /\ a \in Nat /\ a + 1 # 1
    BY <1>1, <2>1
  <2>3. 1 \in DOMAIN s.free /\ i = s.free[1]
    BY <2>1, FirstOf DEF i
  <2>4. ASSUME NEW a \in DOMAIN t.free PROVE ~t.node[t.free[a]].live
    <3>1. t.free[a] \in 1..Nodes /\ t.free[a] # i /\ ~s.node[t.free[a]].live
      <4>1. a + 1 \in DOMAIN s.free /\ t.free[a] = s.free[a + 1] /\ a + 1 # 1
        BY <2>2
      <4>2. s.free[a + 1] # s.free[1]
        BY <2>3, <4>1 DEF FreeList
      <4>3. ~s.node[s.free[a + 1]].live
        BY <4>1 DEF FreeList
      <4>4. s.free[a + 1] \in 1..Nodes
        <5>1. \A k \in DOMAIN s.free : s.free[k] \in 1..Nodes
          BY <2>1, Elements
        <5> QED
          BY <4>1, <5>1
      <4> QED
        BY <2>3, <4>1, <4>2, <4>3, <4>4
    <3> QED
      BY <1>7, <3>1
  <2>5. ASSUME NEW a \in DOMAIN t.free, NEW b \in DOMAIN t.free, t.free[a] = t.free[b] PROVE a = b
    <3>1. a + 1 \in DOMAIN s.free /\ b + 1 \in DOMAIN s.free /\ s.free[a + 1] = s.free[b + 1] /\ a \in Nat /\ b \in Nat
      BY <2>2, <2>5
    <3>2. a + 1 = b + 1
      BY <3>1 DEF FreeList
    <3> QED
      BY <3>1, <3>2
  <2> QED
    BY <2>4, <2>5 DEF FreeList
<1>11. nxt(t, id) = IF p = None THEN None ELSE fst(s, p)
  BY <1>1, <1>4, <1>5 DEF nxt, fst
<1>12. par(t, id) = p /\ fst(t, id) = None /\ refs(t, id) = 1 /\ flag(t, id) = FALSE
       /\ obj(t, id) = info.object /\ rts(t, id) = info.rights
  BY <1>1, <1>4, <1>5 DEF par, fst, refs, flag, obj, rts
<1> QED
  BY <1>1, <1>6, <1>8, <1>9, <1>10, <1>11, <1>12 DEF id, Allocated

(* A new first child of p leaves the links a forest. *)
Grown(s, t, id, p) ==
  /\ id \in NodeId /\ id \notin Live(s) /\ p \in Live(s) \cup {None} /\ Live(t) = Live(s) \cup {id}
  /\ par(t, id) = p /\ fst(t, id) = None /\ nxt(t, id) = IF p = None THEN None ELSE fst(s, p)
  /\ \A c \in Live(s) : /\ par(t, c) = par(s, c) /\ nxt(t, c) = nxt(s, c)
                        /\ fst(t, c) = IF c = p THEN id ELSE fst(s, c)

(* None is the name of no node. *)
LEMMA NoneNotLive ==
  ASSUME NEW s
  PROVE  None \notin Live(s) /\ None \notin NodeId
BY CapabilityAssumption DEF Live, NodeId

(* The children after it. *)
GrownLists(s, t, id, p) ==
  /\ Kids(t, id) = {}
  /\ \A c \in Live(s) : /\ c = p => Kids(t, c) = Kids(s, c) \cup {id}
                        /\ c # p => Kids(t, c) = Kids(s, c)

(* Only p has a new child. *)
LEMMA GrownKids ==
  ASSUME NEW s, NEW t, Forest(s), NEW id, NEW p, Grown(s, t, id, p)
  PROVE  GrownLists(s, t, id, p)
<1>1. \A c \in Live(s) : par(s, c) \in Live(s) \cup {None}
  BY DEF Forest
<1>2. None \notin Live(s) /\ id # None
  BY NoneNotLive DEF Grown
<1> QED
  BY <1>1, <1>2 DEF Grown, Kids, GrownLists

(* ...and the lists still hold exactly the children. *)
LEMMA GrownForest ==
  ASSUME NEW s, NEW t, Forest(s), NEW id, NEW p, Grown(s, t, id, p)
  PROVE  Forest(t)
<1>1. /\ Kids(t, id) = {}
      /\ \A c \in Live(s) : c = p => Kids(t, c) = Kids(s, c) \cup {id}
      /\ \A c \in Live(s) : c # p => Kids(t, c) = Kids(s, c)
  <2>1. GrownLists(s, t, id, p)
    BY GrownKids
  <2> QED
    BY <2>1 DEF GrownLists
<1>2. None \notin Live(s) /\ id # None /\ id \notin Live(s) /\ Live(t) = Live(s) \cup {id} /\ p \in Live(s) \cup {None}
  BY NoneNotLive DEF Grown
<1>3. par(t, id) = p /\ fst(t, id) = None /\ (p = None => nxt(t, id) = None) /\ (p # None => nxt(t, id) = fst(s, p))
  BY DEF Grown
<1>4. \A c \in Live(s) : /\ par(t, c) = par(s, c) /\ nxt(t, c) = nxt(s, c)
                         /\ c = p => fst(t, c) = id
                         /\ c # p => fst(t, c) = fst(s, c)
  BY DEF Grown
<1>5. \A c \in Live(s) :
        /\ par(s, c) \in Live(s) \cup {None}
        /\ fst(s, c) \in Kids(s, c) \cup {None}
        /\ nxt(s, c) # None => nxt(s, c) \in Kids(s, par(s, c)) /\ par(s, c) # None
        /\ par(s, c) # None /\ fst(s, par(s, c)) # c => \E b \in Kids(s, par(s, c)) : nxt(s, b) = c
  BY DEF Forest
<1>6. \A b, c \in Live(s) : nxt(s, b) = nxt(s, c) /\ nxt(s, b) # None => b = c
  BY DEF Forest
<1>7. \A b, q \in Live(s) : nxt(s, b) # None => nxt(s, b) # fst(s, q)
  BY DEF Forest
<1>8. \A q : Kids(s, q) \subseteq Live(s) /\ \A c \in Kids(s, q) : par(s, c) = q
  BY DEF Kids
<1>9. p # None => id \in Kids(t, p)
  BY <1>1, <1>2
<1>10. ASSUME NEW c \in Live(t)
       PROVE  /\ par(t, c) \in Live(t) \cup {None}
              /\ fst(t, c) \in Kids(t, c) \cup {None}
              /\ nxt(t, c) # None => nxt(t, c) \in Kids(t, par(t, c)) /\ par(t, c) # None
  BY <1>1, <1>2, <1>3, <1>4, <1>5, <1>9
<1>11. ASSUME NEW c \in Live(t), par(t, c) # None, fst(t, par(t, c)) # c
       PROVE  \E b \in Kids(t, par(t, c)) : nxt(t, b) = c
  <2>1. c # id
    BY <1>2, <1>3, <1>4, <1>11
  <2>2. c \in Live(s) /\ par(t, c) = par(s, c) /\ par(s, c) \in Live(s)
    BY <1>2, <1>4, <1>5, <1>11, <2>1
  <2>3. CASE fst(s, par(s, c)) = c
    <3>1. par(s, c) = p
      BY <1>4, <1>11, <2>2, <2>3
    <3>2. nxt(t, id) = c /\ id \in Kids(t, p)
      BY <1>2, <1>3, <1>9, <2>2, <2>3, <3>1
    <3> QED
      BY <2>2, <3>1, <3>2
  <2>4. CASE fst(s, par(s, c)) # c
    <3>1. PICK b \in Kids(s, par(s, c)) : nxt(s, b) = c
      BY <1>2, <1>5, <2>2, <2>4
    <3>2. b \in Live(s) /\ nxt(t, b) = c
      BY <1>4, <1>8, <3>1
    <3>3. b \in Kids(t, par(s, c))
      BY <1>1, <2>2
    <3> QED
      BY <2>2, <3>2, <3>3
  <2> QED
    BY <2>3, <2>4
<1>12. ASSUME NEW b \in Live(t), NEW c \in Live(t), nxt(t, b) = nxt(t, c), nxt(t, b) # None
       PROVE  b = c
  BY <1>2, <1>3, <1>4, <1>6, <1>7, <1>12
<1>13. ASSUME NEW b \in Live(t), NEW q \in Live(t), nxt(t, b) # None, nxt(t, b) = fst(t, q)
       PROVE  FALSE
  <2>1. nxt(t, b) # id
    BY <1>2, <1>3, <1>4, <1>5, <1>8, <1>13
  <2>2. q # id /\ q # p /\ q \in Live(s) /\ fst(t, q) = fst(s, q)
    BY <1>2, <1>3, <1>4, <1>13, <2>1
  <2>3. CASE b = id
    <3>1. p \in Live(s) /\ fst(s, p) = fst(s, q)
      BY <1>2, <1>3, <1>13, <2>2, <2>3
    <3> QED
      BY ZenonT(30), <1>2, <1>5, <1>8, <1>13, <2>2, <3>1
  <2>4. CASE b # id
    BY <1>2, <1>4, <1>7, <1>13, <2>2, <2>4
  <2> QED
    BY <2>3, <2>4
<1>14. \E rank, top : Ranked(t, rank, top)
  <2>1. PICK rank, top : Ranked(s, rank, top)
    BY DEF Forest
  <2>2. top \in Nat /\ rank \in [Live(s) -> 0..top]
    BY <2>1 DEF Ranked
  <2>3. \A c \in Live(s) : /\ par(s, c) # None => rank[par(s, c)] < rank[c]
                           /\ nxt(s, c) # None => rank[nxt(s, c)] < rank[c]
    BY <2>1 DEF Ranked
  <2> DEFINE new == [c \in Live(t) |-> IF c = id THEN top + 1 ELSE rank[c]]
  <2>4. new \in [Live(t) -> 0..(top + 1)] /\ top + 1 \in Nat
    BY <1>2, <2>2
  <2>5. ASSUME NEW c \in Live(t), NEW q, q # None, q = par(t, c) \/ q = nxt(t, c)
        PROVE  new[q] < new[c]
    <3>1. q \in Live(s)
      BY <1>2, <1>3, <1>4, <1>5, <1>8, <2>5
    <3>2. new[q] = rank[q] /\ rank[q] \in 0..top
      BY <1>2, <2>2, <3>1
    <3>3. CASE c = id
      BY <2>2, <3>2, <3>3
    <3>4. CASE c # id
      <4>1. c \in Live(s) /\ new[c] = rank[c] /\ (q = par(s, c) \/ q = nxt(s, c))
        BY <1>2, <1>4, <2>5, <3>4
      <4> QED
        BY <2>3, <2>5, <3>2, <4>1
    <3> QED
      BY <3>3, <3>4
  <2>6. Ranked(t, new, top + 1)
    BY <2>4, <2>5 DEF Ranked
  <2> QED
    BY <2>6
<1> QED
  BY <1>10, <1>11, <1>12, <1>13, <1>14 DEF Forest

(* The node c, without children, is cut out of its sibling list. *)
Pruned(s, t, c) ==
  /\ c \in Live(s) /\ Live(t) = Live(s) \ {c} /\ Kids(s, c) = {}
  /\ \A b \in Live(t) : /\ par(t, b) = par(s, b)
                        /\ nxt(t, b) = IF nxt(s, b) = c THEN nxt(s, c) ELSE nxt(s, b)
                        /\ fst(t, b) = IF fst(s, b) = c THEN nxt(s, c) ELSE fst(s, b)

(* What is left is a forest. *)
LEMMA PrunedForest ==
  ASSUME NEW s, NEW t, Forest(s), NEW c, Pruned(s, t, c)
  PROVE  Forest(t)
<1>1. None \notin Live(s) /\ c # None /\ c \in Live(s) /\ Live(t) = Live(s) \ {c} /\ Kids(s, c) = {}
  BY NoneNotLive DEF Pruned
<1>2. \A b \in Live(t) : /\ par(t, b) = par(s, b)
                         /\ nxt(s, b) = c => nxt(t, b) = nxt(s, c)
                         /\ nxt(s, b) # c => nxt(t, b) = nxt(s, b)
                         /\ fst(s, b) = c => fst(t, b) = nxt(s, c)
                         /\ fst(s, b) # c => fst(t, b) = fst(s, b)
  BY DEF Pruned
<1>3. \A b \in Live(s) :
        /\ par(s, b) \in Live(s) \cup {None}
        /\ fst(s, b) \in Kids(s, b) \cup {None}
        /\ nxt(s, b) # None => nxt(s, b) \in Kids(s, par(s, b)) /\ par(s, b) # None
  BY DEF Forest
<1>4. \A x \in Live(s) : par(s, x) # None /\ fst(s, par(s, x)) # x => \E b \in Kids(s, par(s, x)) : nxt(s, b) = x
  BY DEF Forest
<1>6. \A a, b \in Live(s) : nxt(s, a) = nxt(s, b) /\ nxt(s, a) # None => a = b
  BY DEF Forest
<1>7. \A b, q \in Live(s) : nxt(s, b) # None => nxt(s, b) # fst(s, q)
  BY DEF Forest
<1>8. \A q, x : x \in Kids(s, q) <=> x \in Live(s) /\ par(s, x) = q
  BY DEF Kids
<1>9. \A q, x : x \in Kids(t, q) <=> x \in Live(t) /\ par(s, x) = q
  BY <1>2 DEF Kids
<1>10. PICK rank, top : Ranked(s, rank, top)
  BY DEF Forest
<1>11. top \in Nat /\ rank \in [Live(s) -> 0..top]
  BY <1>10 DEF Ranked
<1>12. \A b \in Live(s) : /\ par(s, b) # None => rank[par(s, b)] < rank[b]
                          /\ nxt(s, b) # None => rank[nxt(s, b)] < rank[b]
  BY <1>10 DEF Ranked
<1>13. \A b \in Live(s) : nxt(s, b) # None => nxt(s, b) # b
  BY <1>11, <1>12
<1>14. ASSUME NEW b \in Live(t) PROVE par(t, b) \in Live(t) \cup {None}
  BY ZenonT(30), <1>1, <1>2, <1>3, <1>8
<1>15. ASSUME NEW b \in Live(t) PROVE fst(t, b) \in Kids(t, b) \cup {None}
  <2>1. CASE fst(s, b) = c
    <3>1. par(s, c) = b
      BY <1>1, <1>3, <1>8, <2>1
    <3> QED
      BY <1>1, <1>2, <1>3, <1>8, <1>9, <1>13, <2>1, <3>1
  <2>2. CASE fst(s, b) # c
    BY <1>1, <1>2, <1>3, <1>8, <1>9, <2>2
  <2> QED
    BY <2>1, <2>2
<1>16. ASSUME NEW b \in Live(t), nxt(t, b) # None PROVE nxt(t, b) \in Kids(t, par(t, b)) /\ par(t, b) # None
  <2>1. CASE nxt(s, b) = c
    <3>1. par(s, c) = par(s, b)
      BY <1>1, <1>3, <1>8, <2>1
    <3> QED
      BY <1>1, <1>2, <1>3, <1>8, <1>9, <1>13, <1>16, <2>1, <3>1
  <2>2. CASE nxt(s, b) # c
    BY <1>1, <1>2, <1>3, <1>8, <1>9, <1>16, <2>2
  <2> QED
    BY <2>1, <2>2
<1>17. ASSUME NEW x \in Live(t), par(t, x) # None, fst(t, par(t, x)) # x
       PROVE  \E b \in Kids(t, par(t, x)) : nxt(t, b) = x
  <2> DEFINE q == par(t, x)
  <2>1. q = par(s, x) /\ q \in Live(t) /\ q \in Live(s) /\ x \in Live(s) /\ x # c
    BY <1>1, <1>2, <1>14, <1>17
  <2>2. fst(s, q) # x
    BY <1>1, <1>2, <1>17, <2>1
  <2>3. PICK b \in Kids(s, q) : nxt(s, b) = x
    BY <1>4, <1>17, <2>1, <2>2
  <2>4. CASE b # c
    BY <1>1, <1>2, <1>8, <1>9, <2>1, <2>3, <2>4
  <2>5. CASE b = c
    <3>1. par(s, c) = q /\ nxt(s, c) = x
      BY <1>8, <2>3, <2>5
    <3>2. fst(s, q) # c
      BY <1>2, <1>17, <2>1, <3>1
    <3>3. PICK b2 \in Kids(s, q) : nxt(s, b2) = c
      BY ZenonT(30), <1>1, <1>4, <1>17, <3>1, <3>2
    <3>4. b2 \in Live(s) /\ par(s, b2) = q /\ b2 # c
      BY <1>1, <1>8, <1>13, <3>3
    <3> QED
      BY <1>1, <1>2, <1>9, <3>1, <3>3, <3>4
  <2> QED
    BY <2>4, <2>5
<1>18. ASSUME NEW a \in Live(t), NEW b \in Live(t), nxt(t, a) = nxt(t, b), nxt(t, a) # None
       PROVE  a = b
  BY <1>1, <1>2, <1>6, <1>18
<1>19. ASSUME NEW b \in Live(t), NEW q \in Live(t), nxt(t, b) # None, nxt(t, b) = fst(t, q)
       PROVE  FALSE
  BY <1>1, <1>2, <1>6, <1>7, <1>19
<1>20. \E rk, tp : Ranked(t, rk, tp)
  <2> DEFINE new == [b \in Live(t) |-> rank[b]]
  <2>1. new \in [Live(t) -> 0..top]
    BY <1>1, <1>11
  <2>2. ASSUME NEW b \in Live(t) PROVE par(t, b) # None => new[par(t, b)] < new[b]
    BY <1>1, <1>2, <1>12, <1>14
  <2>3. ASSUME NEW b \in Live(t), nxt(t, b) # None PROVE new[nxt(t, b)] < new[b]
    <3>1. nxt(t, b) \in Live(t) /\ b \in Live(s)
      BY <1>1, <1>9, <1>16, <2>3
    <3>2. rank[nxt(t, b)] < rank[b]
      <4>1. CASE nxt(s, b) = c
        <5>1. rank[c] < rank[b] /\ rank[nxt(s, c)] < rank[c] /\ nxt(t, b) = nxt(s, c)
          BY <1>1, <1>2, <1>12, <2>3, <3>1, <4>1
        <5>2. rank[c] \in Nat /\ rank[b] \in Nat /\ rank[nxt(s, c)] \in Nat
          BY <1>1, <1>11, <3>1, <5>1
        <5> QED
          BY <5>1, <5>2
      <4>2. CASE nxt(s, b) # c
        BY <1>2, <1>12, <2>3, <3>1, <4>2
      <4> QED
        BY <4>1, <4>2
    <3> QED
      BY <3>1, <3>2
  <2>4. Ranked(t, new, top)
    BY <1>11, <2>1, <2>2, <2>3 DEF Ranked
  <2> QED
    BY <2>4
<1> QED
  BY <1>14, <1>15, <1>16, <1>17, <1>18, <1>19, <1>20 DEF Forest

(* unlink_child at the head of the list *)
with_first(s, i, f) == [s EXCEPT !.node[i].first_child = f]

(* It touches nothing else. *)
LEMMA SetFirst ==
  ASSUME NEW s, TableType(s), NEW i \in 1..Nodes, NEW f \in NodeId \cup {None}
  PROVE  /\ TableType(with_first(s, i, f)) /\ with_first(s, i, f).generation = s.generation /\ with_first(s, i, f).free = s.free
         /\ with_first(s, i, f).node[i].first_child = f
         /\ with_first(s, i, f).node[i].live = s.node[i].live
         /\ with_first(s, i, f).node[i].object = s.node[i].object
         /\ with_first(s, i, f).node[i].rights = s.node[i].rights
         /\ with_first(s, i, f).node[i].parent = s.node[i].parent
         /\ with_first(s, i, f).node[i].next_sibling = s.node[i].next_sibling
         /\ with_first(s, i, f).node[i].revoked = s.node[i].revoked
         /\ with_first(s, i, f).node[i].references = s.node[i].references
         /\ \A j \in 1..Nodes : j # i => with_first(s, i, f).node[j] = s.node[j]
<1> DEFINE t == [s EXCEPT !.node[i].first_child = f]
           n == [s.node[i] EXCEPT !.first_child = f]
<1>1. with_first(s, i, f) = t
  BY DEF with_first
<1>2. s.node[i] \in NodeType
  BY TableParts
<1>3. n \in NodeType
  <2>1. \A m \in NodeType : [m EXCEPT !.first_child = f] \in NodeType
    BY DEF NodeType
  <2> QED
    BY <1>2, <2>1
<1>4. t.generation = s.generation /\ t.free = s.free
  BY DEF TableType
<1>5. t.node[i] = n
  BY DEF TableType
<1>6. ASSUME NEW j \in 1..Nodes, j # i PROVE t.node[j] = s.node[j]
  BY <1>6 DEF TableType
<1>7. TableType(t)
  BY <1>3 DEF TableType
<1>8. n.first_child = f /\ n.live = s.node[i].live /\ n.object = s.node[i].object /\ n.rights = s.node[i].rights
      /\ n.parent = s.node[i].parent /\ n.next_sibling = s.node[i].next_sibling /\ n.revoked = s.node[i].revoked /\ n.references = s.node[i].references
  BY <1>2 DEF NodeType
<1> QED
  BY ZenonT(30), <1>1, <1>4, <1>5, <1>6, <1>7, <1>8

(* one holder more or fewer *)
with_references(s, i, f) == [s EXCEPT !.node[i].references = f]

(* It touches nothing else. *)
CountedAt(s, t, i, f) ==
  /\ TableType(t) /\ t.generation = s.generation /\ t.free = s.free
  /\ t.node[i].references = f /\ t.node[i].live = s.node[i].live /\ t.node[i].object = s.node[i].object
  /\ t.node[i].rights = s.node[i].rights /\ t.node[i].parent = s.node[i].parent
  /\ t.node[i].first_child = s.node[i].first_child /\ t.node[i].next_sibling = s.node[i].next_sibling
  /\ t.node[i].revoked = s.node[i].revoked
  /\ \A j \in 1..Nodes : j # i => t.node[j] = s.node[j]

LEMMA SetReferences ==
  ASSUME NEW s, TableType(s), NEW i \in 1..Nodes, NEW f \in Nat
  PROVE  CountedAt(s, with_references(s, i, f), i, f)
<1> DEFINE t == [s EXCEPT !.node[i].references = f]
           n == [s.node[i] EXCEPT !.references = f]
<1>1. with_references(s, i, f) = t
  BY DEF with_references
<1>2. s.node[i] \in NodeType
  BY TableParts
<1>3. n \in NodeType
  <2>1. \A m \in NodeType : [m EXCEPT !.references = f] \in NodeType
    BY DEF NodeType
  <2> QED
    BY <1>2, <2>1
<1>4. t.generation = s.generation /\ t.free = s.free
  BY DEF TableType
<1>5. t.node[i] = n
  BY DEF TableType
<1>6. ASSUME NEW j \in 1..Nodes, j # i PROVE t.node[j] = s.node[j]
  BY <1>6 DEF TableType
<1>7. TableType(t)
  BY <1>3 DEF TableType
<1>8. n.references = f /\ n.live = s.node[i].live /\ n.object = s.node[i].object /\ n.rights = s.node[i].rights
      /\ n.parent = s.node[i].parent /\ n.first_child = s.node[i].first_child /\ n.next_sibling = s.node[i].next_sibling /\ n.revoked = s.node[i].revoked
  BY <1>2 DEF NodeType
<1> HIDE DEF t, n
<1>9. CountedAt(s, t, i, f)
  BY <1>4, <1>5, <1>6, <1>7, <1>8 DEF CountedAt
<1> QED
  BY <1>1, <1>9

(* a node marked as revoked *)
with_revoked(s, i) == [s EXCEPT !.node[i].revoked = TRUE]

MarkedAt(s, t, i) ==
  /\ TableType(t) /\ t.generation = s.generation /\ t.free = s.free /\ t.node[i].revoked = TRUE
  /\ t.node[i].live = s.node[i].live /\ t.node[i].object = s.node[i].object /\ t.node[i].rights = s.node[i].rights
  /\ t.node[i].parent = s.node[i].parent /\ t.node[i].first_child = s.node[i].first_child
  /\ t.node[i].next_sibling = s.node[i].next_sibling /\ t.node[i].references = s.node[i].references
  /\ \A j \in 1..Nodes : j # i => t.node[j] = s.node[j]

(* It touches nothing else. *)
LEMMA SetRevoked ==
  ASSUME NEW s, TableType(s), NEW i \in 1..Nodes
  PROVE  MarkedAt(s, with_revoked(s, i), i)
<1> DEFINE t == [s EXCEPT !.node[i].revoked = TRUE]
           n == [s.node[i] EXCEPT !.revoked = TRUE]
<1>1. with_revoked(s, i) = t
  BY DEF with_revoked
<1>2. s.node[i] \in NodeType
  BY TableParts
<1>3. n \in NodeType
  <2>1. \A m \in NodeType : [m EXCEPT !.revoked = TRUE] \in NodeType
    BY DEF NodeType
  <2> QED
    BY <1>2, <2>1
<1>4. t.generation = s.generation /\ t.free = s.free
  BY DEF TableType
<1>5. t.node[i] = n
  BY DEF TableType
<1>6. ASSUME NEW j \in 1..Nodes, j # i PROVE t.node[j] = s.node[j]
  BY <1>6 DEF TableType
<1>7. TableType(t)
  BY <1>3 DEF TableType
<1>8. n.revoked = TRUE /\ n.live = s.node[i].live /\ n.object = s.node[i].object /\ n.rights = s.node[i].rights
      /\ n.parent = s.node[i].parent /\ n.first_child = s.node[i].first_child /\ n.next_sibling = s.node[i].next_sibling /\ n.references = s.node[i].references
  BY <1>2 DEF NodeType
<1>9. MarkedAt(s, t, i)
  BY <1>4, <1>5, <1>6, <1>7, <1>8 DEF MarkedAt
<1> QED
  BY <1>1, <1>9

(* unlink_child changes first_child of the parent or next_sibling of the   *)
(* u is s with the node c taken out of the sibling lists. *)
Unlinked(s, u, c) ==
  /\ TableType(u) /\ u.generation = s.generation /\ u.free = s.free
  /\ \A j \in 1..Nodes :
       /\ u.node[j].live = s.node[j].live /\ u.node[j].parent = s.node[j].parent
       /\ u.node[j].revoked = s.node[j].revoked /\ u.node[j].object = s.node[j].object
       /\ u.node[j].rights = s.node[j].rights /\ u.node[j].references = s.node[j].references
  /\ \A b \in Live(s) :
       /\ u.node[b[1]].next_sibling = IF nxt(s, b) = c THEN nxt(s, c) ELSE nxt(s, b)
       /\ u.node[b[1]].first_child = IF fst(s, b) = c THEN nxt(s, c) ELSE fst(s, b)

(* one sibling before c.                                                   *)
LEMMA UnlinkNodes ==
  ASSUME NEW s, TableType(s), Forest(s), NEW c \in Live(s), NEW p \in Live(s), p = par(s, c),
         NEW u, u = unlink_child(s, p, c)
  PROVE  Unlinked(s, u, c)
<1> DEFINE n == s.node[c[1]].next_sibling
           i == p[1]
<1>1. i \in 1..Nodes /\ c[1] \in 1..Nodes /\ s.node \in [1..Nodes -> NodeType]
  BY TableParts
<1>2. n \in NodeId \cup {None}
  BY <1>1 DEF NodeType
<1>3. names(s, p) /\ c # None /\ None \notin Live(s)
  BY NoneNotLive DEF Live
<1>4. \A b, q \in Live(s) : nxt(s, b) # None => nxt(s, b) # fst(s, q)
  BY DEF Forest
<1>5. \A b \in Live(s) : /\ fst(s, b) = c => b = p
                         /\ nxt(s, b) = c => b \in Kids(s, p)
  BY <1>3 DEF Forest, Kids
<1>6. nxt(s, c) = n /\ \A b : nxt(s, b) = s.node[b[1]].next_sibling /\ fst(s, b) = s.node[b[1]].first_child
  BY DEF nxt, fst
<1>7. \A b \in Live(s) : b[1] \in 1..Nodes /\ b = <<b[1], s.generation[b[1]]>> /\ (b[1] = i <=> b = p)
  BY TableParts, LiveIndex
<1> HIDE DEF n, i
<1>8. CASE s.node[i].first_child = c
  <2>1. u = with_first(s, i, n)
    BY <1>3, <1>8 DEF unlink_child, with_first, i, n
  <2>2. TableType(u) /\ u.generation = s.generation /\ u.free = s.free
    BY <1>1, <1>2, <2>1, SetFirst
  <2>3. \A j \in 1..Nodes : j # i => u.node[j] = s.node[j]
    BY <1>1, <1>2, <2>1, SetFirst
  <2>4. /\ u.node[i].live = s.node[i].live /\ u.node[i].parent = s.node[i].parent
        /\ u.node[i].revoked = s.node[i].revoked /\ u.node[i].object = s.node[i].object
        /\ u.node[i].rights = s.node[i].rights /\ u.node[i].references = s.node[i].references
        /\ u.node[i].next_sibling = s.node[i].next_sibling /\ u.node[i].first_child = n
    BY <1>1, <1>2, <2>1, SetFirst
  <2>5. \A b \in Live(s) : nxt(s, b) # c
    BY <1>3, <1>4, <1>6, <1>8 DEF i
  <2>6. \A b \in Live(s) : u.node[b[1]].next_sibling = s.node[b[1]].next_sibling
    BY <1>7, <2>3, <2>4
  <2>7. \A b \in Live(s) : u.node[b[1]].first_child = IF fst(s, b) = c THEN n ELSE fst(s, b)
    <3>1. \A b \in Live(s) : b # p => u.node[b[1]] = s.node[b[1]] /\ fst(s, b) # c
      BY <1>5, <1>7, <2>3
    <3>2. fst(s, p) = c /\ u.node[p[1]].first_child = n
      BY <1>6, <1>8, <2>4 DEF i
    <3> QED
      BY ZenonT(30), <1>6, <3>1, <3>2
  <2>8. \A j \in 1..Nodes :
          /\ u.node[j].live = s.node[j].live /\ u.node[j].parent = s.node[j].parent
          /\ u.node[j].revoked = s.node[j].revoked /\ u.node[j].object = s.node[j].object
          /\ u.node[j].rights = s.node[j].rights /\ u.node[j].references = s.node[j].references
    BY <2>3, <2>4
  <2> QED
    BY ZenonT(30), <1>6, <2>2, <2>5, <2>6, <2>7, <2>8 DEF Unlinked
<1>9. CASE s.node[i].first_child # c
  <2> DEFINE hit(j) == <<j, s.generation[j]>> \in Kids(s, p) /\ s.node[j].next_sibling = c
             after(j) == IF hit(j) THEN [s.node[j] EXCEPT !.next_sibling = n] ELSE s.node[j]
  <2>1. children(s, p) = Kids(s, p)
    BY ChildrenExact
  <2>2. u = [s EXCEPT !.node = [j \in 1..Nodes |->
              IF <<j, s.generation[j]>> \in Kids(s, p) /\ s.node[j].next_sibling = c
              THEN [s.node[j] EXCEPT !.next_sibling = s.node[c[1]].next_sibling] ELSE s.node[j]]]
    BY <1>3, <1>9, <2>1 DEF unlink_child, i
  <2>3. u = [s EXCEPT !.node = [j \in 1..Nodes |-> after(j)]]
    BY <2>2 DEF n
  <2>4. u.node = [j \in 1..Nodes |-> after(j)] /\ u.generation = s.generation /\ u.free = s.free
    BY <2>3 DEF TableType
  <2>5. ASSUME NEW j \in 1..Nodes
        PROVE  /\ after(j) \in NodeType
               /\ after(j).live = s.node[j].live /\ after(j).parent = s.node[j].parent
               /\ after(j).revoked = s.node[j].revoked /\ after(j).object = s.node[j].object
               /\ after(j).rights = s.node[j].rights /\ after(j).references = s.node[j].references
               /\ after(j).first_child = s.node[j].first_child
               /\ hit(j) => after(j).next_sibling = n
               /\ ~hit(j) => after(j).next_sibling = s.node[j].next_sibling
    <3>1. s.node[j] \in NodeType
      BY <1>1
    <3>2. CASE hit(j)
      BY <1>2, <3>1, <3>2 DEF NodeType
    <3>3. CASE ~hit(j)
      BY <3>1, <3>3
    <3> QED
      BY <3>2, <3>3
  <2>6. \A b \in Live(s) : hit(b[1]) <=> nxt(s, b) = c
    BY <1>5, <1>6, <1>7
  <2> HIDE DEF hit, after
  <2>7. TableType(u)
    BY <2>3, <2>5 DEF TableType
  <2>8. \A b \in Live(s) : u.node[b[1]].next_sibling = IF nxt(s, b) = c THEN n ELSE nxt(s, b)
    BY <1>6, <1>7, <2>4, <2>5, <2>6
  <2>9. \A b \in Live(s) : fst(s, b) # c
    BY <1>5, <1>6, <1>9 DEF i
  <2>10. \A b \in Live(s) : u.node[b[1]].first_child = fst(s, b)
    BY <1>6, <1>7, <2>4, <2>5
  <2>11. \A j \in 1..Nodes :
           /\ u.node[j].live = s.node[j].live /\ u.node[j].parent = s.node[j].parent
           /\ u.node[j].revoked = s.node[j].revoked /\ u.node[j].object = s.node[j].object
           /\ u.node[j].rights = s.node[j].rights /\ u.node[j].references = s.node[j].references
    BY <2>4, <2>5
  <2> QED
    BY ZenonT(30), <1>6, <2>4, <2>7, <2>8, <2>9, <2>10, <2>11 DEF Unlinked
<1> QED
  BY <1>8, <1>9

(* The node at i given back *)
freed_table(u, i) == [u EXCEPT !.node[i] = FreeNode, !.generation[i] = @ + 1, !.free = <<i>> \o @]

(* Its index becomes the first of the free list, with a new generation. *)
LEMMA FreedNode ==
  ASSUME NEW u, TableType(u), NEW i \in 1..Nodes, u.generation[i] < MaxGeneration
  PROVE  /\ TableType(freed_table(u, i)) /\ freed_table(u, i).free = <<i>> \o u.free
         /\ ~freed_table(u, i).node[i].live /\ freed_table(u, i).generation[i] = u.generation[i] + 1
         /\ \A j \in 1..Nodes : j # i => /\ freed_table(u, i).node[j] = u.node[j]
                                         /\ freed_table(u, i).generation[j] = u.generation[j]
<1> DEFINE g == u.generation[i] + 1
           t == [u EXCEPT !.node[i] = FreeNode, !.generation[i] = g, !.free = <<i>> \o u.free]
<1>1. freed_table(u, i) = t
  BY DEF freed_table
<1>2. g \in 1..MaxGeneration
  BY TableParts, CapabilityAssumption
<1> HIDE DEF g
<1>3. FreeNode \in NodeType /\ ~FreeNode.live
  BY DEF FreeNode, NodeType
<1>4. <<i>> \o u.free \in Seq(1..Nodes)
  BY TableParts
<1>5. t.node = [u.node EXCEPT ![i] = FreeNode] /\ t.generation = [u.generation EXCEPT ![i] = g] /\ t.free = <<i>> \o u.free
  BY DEF TableType
<1>6. [u.node EXCEPT ![i] = FreeNode] \in [1..Nodes -> NodeType]
  BY <1>3, TableParts
<1>7. [u.generation EXCEPT ![i] = g] \in [1..Nodes -> 1..MaxGeneration]
  BY <1>2, TableParts
<1>8. TableType(t)
  BY <1>2, <1>3, <1>4 DEF TableType
<1>9. u.node \in [1..Nodes -> NodeType] /\ u.generation \in [1..Nodes -> 1..MaxGeneration]
  BY TableParts
<1>10. /\ t.node[i] = FreeNode
       /\ \A j \in 1..Nodes : j # i => t.node[j] = u.node[j]
  BY ZenonT(30), <1>5, <1>9
<1>11. /\ t.generation[i] = g
       /\ \A j \in 1..Nodes : j # i => t.generation[j] = u.generation[j]
  BY <1>5, <1>9
<1> QED
  BY ZenonT(30), <1>1, <1>3, <1>5, <1>8, <1>10, <1>11 DEF g

(* t is s without the node c: its slot of the table is free again under    *)
(* the next generation, and every other node is as it was.                 *)
Freed(s, t, c) ==
  /\ TableType(t) /\ FreeList(t) /\ Pruned(s, t, c)
  /\ \A b \in Live(t) : /\ flag(t, b) = flag(s, b) /\ obj(t, b) = obj(s, b)
                        /\ rts(t, b) = rts(s, b) /\ refs(t, b) = refs(s, b)
  /\ t.generation[c[1]] = s.generation[c[1]] + 1
  /\ \A j \in 1..Nodes : j # c[1] => t.generation[j] = s.generation[j]

(* release_step on the last reference frees the node, and only it. *)
LEMMA ReleaseFrees ==
  ASSUME NEW s, TableType(s), Forest(s), FreeList(s), NEW c \in Live(s), Kids(s, c) = {}, ~(refs(s, c) > 1),
         s.generation[c[1]] < MaxGeneration, NEW t, t = release_step(s, c)[1]
  PROVE  release_step(s, c)[2] = par(s, c) /\ Freed(s, t, c)
<1> DEFINE i == c[1]
           p == par(s, c)
           u == IF p = None THEN s ELSE unlink_child(s, p, c)
<1>1. release_step(s, c)[2] = p /\ t = freed_table(u, i)
  BY DEF release_step, freed_table, refs, par
<1>2. i \in 1..Nodes /\ s.node[i].live /\ c # None /\ None \notin Live(s) /\ p \in Live(s) \cup {None}
  BY TableParts, NoneNotLive DEF Forest
<1>3. ASSUME p = None, NEW b \in Live(s) PROVE nxt(s, b) # c /\ fst(s, b) # c
  BY <1>2, <1>3 DEF Forest, Kids
<1>45. Unlinked(s, u, c)
  <2>1. CASE p = None
    BY <1>3, <2>1 DEF Unlinked, nxt, fst
  <2>2. CASE p # None
    <3>1. p \in Live(s) /\ u = unlink_child(s, p, c)
      BY <1>2, <2>2
    <3> HIDE DEF u
    <3> QED
      BY <3>1, UnlinkNodes
  <2> QED
    BY <2>1, <2>2
<1> HIDE DEF u
<1>4. /\ TableType(u) /\ u.generation = s.generation /\ u.free = s.free
      /\ \A j \in 1..Nodes :
           /\ u.node[j].live = s.node[j].live /\ u.node[j].parent = s.node[j].parent
           /\ u.node[j].revoked = s.node[j].revoked /\ u.node[j].object = s.node[j].object
           /\ u.node[j].rights = s.node[j].rights /\ u.node[j].references = s.node[j].references
  BY <1>45 DEF Unlinked
<1>5. \A b \in Live(s) :
        /\ u.node[b[1]].next_sibling = IF nxt(s, b) = c THEN nxt(s, c) ELSE nxt(s, b)
        /\ u.node[b[1]].first_child = IF fst(s, b) = c THEN nxt(s, c) ELSE fst(s, b)
  BY <1>45 DEF Unlinked
<1> HIDE DEF u, p
<1>6. /\ TableType(t) /\ t.free = <<i>> \o s.free /\ ~t.node[i].live /\ t.generation[i] = s.generation[i] + 1
      /\ \A j \in 1..Nodes : j # i => t.node[j] = u.node[j] /\ t.generation[j] = s.generation[j]
  BY <1>1, <1>2, <1>4, FreedNode
<1>7. ASSUME NEW b PROVE b \in Live(t) <=> b \in Live(s) /\ b # c
  <2>1. ASSUME b \in Live(t) PROVE b \in Live(s) /\ b # c
    <3>1. b = <<b[1], t.generation[b[1]]>> /\ b[1] \in 1..Nodes /\ t.node[b[1]].live
      BY ZenonT(30), <1>6, <2>1, TableParts
    <3>2. b[1] # i /\ s.node[b[1]].live /\ t.generation[b[1]] = s.generation[b[1]]
      BY ZenonT(30), <1>4, <1>6, <3>1
    <3> QED
      BY <3>1, <3>2, TableParts
  <2>2. ASSUME b \in Live(s), b # c PROVE b \in Live(t)
    <3>1. b = <<b[1], s.generation[b[1]]>> /\ b[1] \in 1..Nodes /\ s.node[b[1]].live
      BY <2>2, TableParts
    <3>2. b[1] # i
      BY <2>2, LiveIndex
    <3>3. t.node[b[1]].live /\ t.generation[b[1]] = s.generation[b[1]]
      BY <1>4, <1>6, <3>1, <3>2
    <3> QED
      BY <1>6, <3>1, <3>3, TableParts
  <2> QED
    BY <2>1, <2>2
<1>8. ASSUME NEW b \in Live(t)
      PROVE  /\ flag(t, b) = flag(s, b) /\ obj(t, b) = obj(s, b) /\ rts(t, b) = rts(s, b) /\ refs(t, b) = refs(s, b)
             /\ par(t, b) = par(s, b) /\ nxt(t, b) = IF nxt(s, b) = c THEN nxt(s, c) ELSE nxt(s, b)
             /\ fst(t, b) = IF fst(s, b) = c THEN nxt(s, c) ELSE fst(s, b)
  <2>1. b \in Live(s) /\ b # c
    BY <1>7
  <2>2. b[1] \in 1..Nodes /\ b[1] # i
    BY <2>1, TableParts, LiveIndex
  <2>3. t.node[b[1]] = u.node[b[1]]
    BY <1>6, <2>2
  <2>4. nxt(t, b) = u.node[b[1]].next_sibling /\ fst(t, b) = u.node[b[1]].first_child
    BY <2>3 DEF nxt, fst
  <2>5. flag(t, b) = flag(s, b) /\ obj(t, b) = obj(s, b) /\ rts(t, b) = rts(s, b) /\ refs(t, b) = refs(s, b)
        /\ par(t, b) = par(s, b)
    BY ZenonT(30), <1>4, <2>2, <2>3 DEF flag, obj, rts, refs, par
  <2> QED
    BY <1>5, <2>1, <2>4, <2>5
<1>9. Pruned(s, t, c)
  BY <1>7, <1>8 DEF Pruned
<1>10. FreeList(t)
  <2>1. s.free \in Seq(1..Nodes) /\ <<i>> \o s.free \in Seq(1..Nodes)
    BY <1>2, TableParts
  <2>2. \A a \in DOMAIN t.free : a \in Nat /\ (a = 1 => t.free[a] = i)
                                 /\ (a # 1 => a - 1 \in DOMAIN s.free /\ t.free[a] = s.free[a - 1])
    BY <1>6, <2>1
  <2>3. \A a \in DOMAIN s.free : s.free[a] \in 1..Nodes /\ ~s.node[s.free[a]].live
    BY <2>1, Elements DEF FreeList
  <2>4. \A a \in DOMAIN s.free : s.free[a] # i /\ ~t.node[s.free[a]].live
    <3>1. \A j \in 1..Nodes : ~s.node[j].live => j # i /\ ~t.node[j].live
      BY <1>2, <1>4, <1>6
    <3> QED
      BY <2>3, <3>1
  <2>5. ASSUME NEW a \in DOMAIN t.free PROVE ~t.node[t.free[a]].live
    BY <1>6, <2>2, <2>4
  <2>6. ASSUME NEW a \in DOMAIN t.free, NEW b \in DOMAIN t.free, t.free[a] = t.free[b] PROVE a = b
    <3>1. CASE a = 1
      BY <2>2, <2>4, <2>6, <3>1
    <3>2. CASE b = 1
      BY <2>2, <2>4, <2>6, <3>2
    <3>3. CASE a # 1 /\ b # 1
      <4>1. a - 1 \in DOMAIN s.free /\ b - 1 \in DOMAIN s.free /\ s.free[a - 1] = s.free[b - 1] /\ a \in Nat /\ b \in Nat
        BY <2>2, <2>6, <3>3
      <4>2. a - 1 = b - 1
        BY <4>1 DEF FreeList
      <4> QED
        BY <4>1, <4>2
    <3> QED
      BY <3>1, <3>2, <3>3
  <2> QED
    BY <2>5, <2>6 DEF FreeList
<1> QED
  BY <1>1, <1>6, <1>8, <1>9, <1>10 DEF p, Freed

(* The links decide whether a table is a forest. *)
LEMMA SameForest ==
  ASSUME NEW s, NEW t, Forest(s), Live(t) = Live(s),
         \A b \in Live(s) : par(t, b) = par(s, b) /\ fst(t, b) = fst(s, b) /\ nxt(t, b) = nxt(s, b)
  PROVE  Forest(t) /\ \A q : Kids(t, q) = Kids(s, q)
<1>1. \A q : Kids(t, q) = Kids(s, q)
  BY DEF Kids
<1>2. \A rank, top : Ranked(s, rank, top) => Ranked(t, rank, top)
  BY DEF Ranked
<1>3. \E rank, top : Ranked(t, rank, top)
  BY <1>2 DEF Forest
<1>4. \A c \in Live(s) :
        /\ par(s, c) \in Live(s) \cup {None}
        /\ fst(s, c) \in Kids(s, c) \cup {None}
        /\ nxt(s, c) # None => nxt(s, c) \in Kids(s, par(s, c)) /\ par(s, c) # None
        /\ par(s, c) # None /\ fst(s, par(s, c)) # c => \E b \in Kids(s, par(s, c)) : nxt(s, b) = c
  BY DEF Forest
<1>5. \A b, c \in Live(s) : nxt(s, b) = nxt(s, c) /\ nxt(s, b) # None => b = c
  BY DEF Forest
<1>6. \A b, p \in Live(s) : nxt(s, b) # None => nxt(s, b) # fst(s, p)
  BY DEF Forest
<1>7. \A q : Kids(s, q) \subseteq Live(s)
  BY DEF Kids
<1>8. ASSUME NEW c \in Live(t)
      PROVE  /\ par(t, c) \in Live(t) \cup {None}
             /\ fst(t, c) \in Kids(t, c) \cup {None}
             /\ nxt(t, c) # None => nxt(t, c) \in Kids(t, par(t, c)) /\ par(t, c) # None
  BY ZenonT(30), <1>1, <1>4
<1>9. ASSUME NEW c \in Live(t), par(t, c) # None, fst(t, par(t, c)) # c
      PROVE  \E b \in Kids(t, par(t, c)) : nxt(t, b) = c
  <2>1. c \in Live(s) /\ par(t, c) = par(s, c) /\ par(s, c) \in Live(s) /\ fst(t, par(s, c)) = fst(s, par(s, c))
    BY <1>4, <1>9
  <2>2. PICK b \in Kids(s, par(s, c)) : nxt(s, b) = c
    BY <1>4, <1>9, <2>1
  <2> QED
    BY <1>1, <1>7, <2>1, <2>2
<1>10. /\ \A b, c \in Live(t) : nxt(t, b) = nxt(t, c) /\ nxt(t, b) # None => b = c
       /\ \A b, p \in Live(t) : nxt(t, b) # None => nxt(t, b) # fst(t, p)
  BY ZenonT(30), <1>5, <1>6
<1> QED
  BY <1>1, <1>3, <1>8, <1>9, <1>10 DEF Forest

(* t is s with one reference less on the node c. *)
Counted(s, t, c) ==
  /\ TableType(t) /\ FreeList(t) /\ Forest(t) /\ Live(t) = Live(s) /\ \A q : Kids(t, q) = Kids(s, q)
  /\ \A b \in Live(s) :
       /\ par(t, b) = par(s, b) /\ flag(t, b) = flag(s, b) /\ obj(t, b) = obj(s, b) /\ rts(t, b) = rts(s, b)
       /\ refs(t, b) = IF b = c THEN refs(s, b) - 1 ELSE refs(s, b)

(* release_step on one reference of several only counts it down. *)
LEMMA ReleaseCounts ==
  ASSUME NEW s, TableType(s), Forest(s), FreeList(s), NEW c \in Live(s), refs(s, c) > 1,
         NEW t, t = release_step(s, c)[1]
  PROVE  release_step(s, c)[2] = None /\ Counted(s, t, c)
<1> DEFINE i == c[1]
           r == s.node[i].references - 1
<1>1. release_step(s, c)[2] = None /\ t = [s EXCEPT !.node[i].references = r]
  BY DEF release_step, refs, TableType
<1>2. i \in 1..Nodes /\ s.node[i] \in NodeType
  BY TableParts
<1>3. r \in Nat
  BY <1>2 DEF NodeType, refs
<1>4. t = with_references(s, i, r)
  BY <1>1 DEF with_references
<1> HIDE DEF r, i
<1>44. CountedAt(s, t, i, r)
  BY <1>2, <1>3, <1>4, SetReferences
<1>5. TableType(t) /\ t.generation = s.generation /\ t.free = s.free
  BY <1>44 DEF CountedAt
<1>6. /\ t.node[i].references = r /\ t.node[i].live = s.node[i].live /\ t.node[i].parent = s.node[i].parent
      /\ t.node[i].first_child = s.node[i].first_child /\ t.node[i].next_sibling = s.node[i].next_sibling
      /\ t.node[i].revoked = s.node[i].revoked /\ t.node[i].object = s.node[i].object
      /\ t.node[i].rights = s.node[i].rights
  BY <1>44 DEF CountedAt
<1>7. \A j \in 1..Nodes : j # i => t.node[j] = s.node[j]
  BY <1>44 DEF CountedAt
<1>8. \A j \in 1..Nodes : t.node[j].live = s.node[j].live
  BY <1>6, <1>7
<1>9. Live(t) = Live(s)
  BY <1>5, <1>8 DEF Live, names, NodeId
<1>10. ASSUME NEW b \in Live(s)
       PROVE  /\ par(t, b) = par(s, b) /\ fst(t, b) = fst(s, b) /\ nxt(t, b) = nxt(s, b)
              /\ flag(t, b) = flag(s, b) /\ obj(t, b) = obj(s, b) /\ rts(t, b) = rts(s, b)
              /\ b # c => refs(t, b) = refs(s, b)
  <2>1. b[1] \in 1..Nodes /\ (b # c => b[1] # i)
    BY TableParts, LiveIndex DEF i
  <2> QED
    BY <1>6, <1>7, <2>1 DEF par, fst, nxt, flag, obj, rts, refs
<1>11. refs(t, c) = refs(s, c) - 1
  BY <1>6 DEF refs, r, i
<1>12. FreeList(t)
  <2>1. \A a \in DOMAIN s.free : s.free[a] \in 1..Nodes
    BY TableParts, Elements
  <2>2. \A a \in DOMAIN s.free : ~t.node[s.free[a]].live
    BY <1>8, <2>1 DEF FreeList
  <2> QED
    BY <1>5, <2>2 DEF FreeList
<1>13. Forest(t) /\ \A q : Kids(t, q) = Kids(s, q)
  BY <1>9, <1>10, SameForest
<1> QED
  BY <1>1, <1>5, <1>9, <1>10, <1>11, <1>12, <1>13 DEF Counted

(* The node table while the reference of node x is being released, with    *)
(* the nodes in held each held by a slot: the links are a forest, and the  *)
(* references of a node are its children, its slot and the pending one.    *)
one(b) == IF b THEN 1 ELSE 0

Sound(s, held, x) ==
  /\ TableType(s) /\ Forest(s) /\ FreeList(s) /\ held \subseteq Live(s) /\ x \in Live(s) \cup {None}
  /\ \A b \in Live(s) : /\ refs(s, b) = Cardinality(Kids(s, b)) + one(b \in held) + one(b = x)
                        /\ refs(s, b) > 0

(* What a release leaves of the tree is as it was. *)
Kept(s, t) ==
  /\ Live(t) \subseteq Live(s)
  /\ \A b \in Live(t) : /\ par(t, b) = par(s, b) /\ flag(t, b) = flag(s, b)
                        /\ obj(t, b) = obj(s, b) /\ rts(t, b) = rts(s, b)

(* There are finitely many nodes. *)
LEMMA LiveFinite ==
  ASSUME NEW s
  PROVE  IsFiniteSet(Live(s)) /\ \A q : IsFiniteSet(Kids(s, q)) /\ Cardinality(Kids(s, q)) \in Nat
<1>1. Nodes \in Nat /\ MaxGeneration \in Nat
  BY CapabilityAssumption
<1>2. IsFiniteSet(1..Nodes) /\ IsFiniteSet(1..MaxGeneration)
  BY <1>1, FS_Interval
<1>3. IsFiniteSet(NodeId)
  BY <1>2, FS_Product DEF NodeId
<1>4. Live(s) \subseteq NodeId
  BY DEF Live
<1>5. IsFiniteSet(Live(s))
  BY <1>3, <1>4, FS_Subset
<1>6. ASSUME NEW q PROVE IsFiniteSet(Kids(s, q)) /\ Cardinality(Kids(s, q)) \in Nat
  <2>1. Kids(s, q) \subseteq Live(s)
    BY DEF Kids
  <2>2. IsFiniteSet(Kids(s, q))
    BY <1>5, <2>1, FS_Subset
  <2> QED
    BY <2>2, FS_CardinalityType
<1> QED
  BY <1>5, <1>6

(* One turn of release_node's loop keeps the counts exact: either the      *)
(* pending reference is counted off, or the node had no other and it is    *)
(* freed, which leaves the reference it held on its parent pending.        *)
LEMMA ReleaseTurn ==
  ASSUME NEW s, NEW held, NEW x \in Live(s), Sound(s, held, x), s.generation[x[1]] < MaxGeneration,
         NEW t, t = release_step(s, x)[1], NEW y, y = release_step(s, x)[2]
  PROVE  Sound(t, held, y) /\ Kept(s, t) /\ y \in {par(s, x), None}
<1>1. TableType(s) /\ Forest(s) /\ FreeList(s) /\ held \subseteq Live(s)
  BY DEF Sound
<1>2. \A b \in Live(s) : refs(s, b) = Cardinality(Kids(s, b)) + one(b \in held) + one(b = x) /\ refs(s, b) > 0
  BY DEF Sound
<1>3. \A q : IsFiniteSet(Kids(s, q)) /\ Cardinality(Kids(s, q)) \in Nat
  BY LiveFinite
<1>4. one(TRUE) = 1 /\ one(FALSE) = 0 /\ \A b \in BOOLEAN : one(b) \in 0..1
  BY DEF one
<1>5. None \notin Live(s) /\ par(s, x) \in Live(s) \cup {None} /\ x # None
  BY ZenonT(30), <1>1, NoneNotLive DEF Forest
<1>6. CASE refs(s, x) > 1
  <2>0. y = None /\ Counted(s, t, x)
    BY <1>1, <1>6, ReleaseCounts
  <2>1. /\ y = None /\ TableType(t) /\ FreeList(t) /\ Forest(t) /\ Live(t) = Live(s) /\ \A q : Kids(t, q) = Kids(s, q)
    BY <2>0 DEF Counted
  <2>2. \A b \in Live(s) :
              /\ par(t, b) = par(s, b) /\ flag(t, b) = flag(s, b) /\ obj(t, b) = obj(s, b) /\ rts(t, b) = rts(s, b)
              /\ refs(t, b) = IF b = x THEN refs(s, b) - 1 ELSE refs(s, b)
    BY <2>0 DEF Counted
  <2>3. ASSUME NEW b \in Live(t)
        PROVE  refs(t, b) = Cardinality(Kids(t, b)) + one(b \in held) + one(b = y) /\ refs(t, b) > 0
    <3>1. Kids(t, b) = Kids(s, b) /\ one(b = y) = 0 /\ one(b \in held) \in 0..1 /\ Cardinality(Kids(s, b)) \in Nat
      BY <1>3, <1>4, <1>5, <2>1 DEF one
    <3>2. CASE b = x
      <4>1. refs(s, b) = Cardinality(Kids(s, b)) + one(b \in held) + 1 /\ refs(t, b) = refs(s, b) - 1 /\ refs(s, b) > 1
        BY <1>2, <1>6, <2>2, <3>2 DEF one
      <4> QED
        BY <3>1, <4>1
    <3>3. CASE b # x
      <4>1. refs(s, b) = Cardinality(Kids(s, b)) + one(b \in held) + 0 /\ refs(t, b) = refs(s, b) /\ refs(s, b) > 0
        BY <1>2, <2>1, <2>2, <3>3 DEF one
      <4> QED
        BY <3>1, <4>1
    <3> QED
      BY <3>2, <3>3
  <2> QED
    BY <1>1, <2>1, <2>2, <2>3 DEF Sound, Kept
<1>7. CASE ~(refs(s, x) > 1)
  <2>1. Cardinality(Kids(s, x)) = 0 /\ x \notin held
    <3>1. refs(s, x) = Cardinality(Kids(s, x)) + one(x \in held) + 1
      BY <1>2 DEF one
    <3>2. one(x \in held) \in 0..1 /\ (x \in held => one(x \in held) = 1)
      BY DEF one
    <3>3. Cardinality(Kids(s, x)) \in Nat
      BY <1>3
    <3>4. Cardinality(Kids(s, x)) = 0 /\ one(x \in held) = 0
      BY <1>7, <3>1, <3>2, <3>3
    <3> QED
      BY <3>2, <3>4
  <2>2. Kids(s, x) = {}
    BY <1>3, <2>1, FS_EmptySet
  <2>20. y = par(s, x) /\ Freed(s, t, x)
    BY <1>1, <1>7, <2>2, ReleaseFrees
  <2>3. y = par(s, x) /\ TableType(t) /\ FreeList(t) /\ Pruned(s, t, x)
    BY <2>20 DEF Freed
  <2>4. \A b \in Live(t) : /\ flag(t, b) = flag(s, b) /\ obj(t, b) = obj(s, b)
                           /\ rts(t, b) = rts(s, b) /\ refs(t, b) = refs(s, b)
    BY <2>20 DEF Freed
  <2>5. Forest(t)
    BY <1>1, <2>3, PrunedForest
  <2>6. Live(t) = Live(s) \ {x} /\ \A b \in Live(t) : par(t, b) = par(s, b)
    BY <2>3 DEF Pruned
  <2>7. y # x
    BY <2>2, <2>3 DEF Kids
  <2>8. \A q : Kids(t, q) = Kids(s, q) \ {x}
    BY <2>6 DEF Kids
  <2>9. ASSUME NEW b \in Live(t)
        PROVE  refs(t, b) = Cardinality(Kids(t, b)) + one(b \in held) + one(b = y) /\ refs(t, b) > 0
    <3>1. b # x /\ b \in Live(s) /\ one(b = x) = 0 /\ refs(t, b) = refs(s, b)
      BY <2>4, <2>6 DEF one
    <3>2. Cardinality(Kids(s, b)) = Cardinality(Kids(t, b)) + one(b = y)
      <4>1. CASE b = y
        <5>1. x \in Kids(s, b)
          BY <2>3, <4>1 DEF Kids
        <5>2. Cardinality(Kids(s, b) \ {x}) = Cardinality(Kids(s, b)) - 1
          BY <1>3, <5>1, FS_RemoveElement
        <5>3. Kids(t, b) = Kids(s, b) \ {x}
          BY <2>8
        <5>4. one(b = y) = 1
          BY <4>1 DEF one
        <5> QED
          BY <1>3, <5>2, <5>3, <5>4
      <4>2. CASE b # y
        <5>1. x \notin Kids(s, b)
          BY <2>3, <4>2 DEF Kids
        <5>2. Kids(t, b) = Kids(s, b)
          BY <2>8, <5>1
        <5> QED
          BY <1>3, <4>2, <5>2 DEF one
      <4> QED
        BY <4>1, <4>2
    <3>3. refs(s, b) = Cardinality(Kids(s, b)) + one(b \in held) + 0 /\ refs(s, b) > 0
      BY <1>2, <3>1
    <3>4. one(b \in held) \in 0..1 /\ one(b = y) \in 0..1 /\ Cardinality(Kids(t, b)) \in Nat
      BY LiveFinite DEF one
    <3> QED
      BY <3>1, <3>2, <3>3, <3>4
  <2> QED
    BY ZenonT(30), <1>1, <1>5, <2>1, <2>3, <2>4, <2>5, <2>6, <2>7, <2>9 DEF Sound, Kept
<1> QED
  BY <1>6, <1>7

(* The pairs release_node's loop goes through. *)
Tables == [node : [1..Nodes -> NodeType], generation : [1..Nodes -> 1..MaxGeneration], free : Seq(1..Nodes)]

Releasing(s, held) == {q \in Tables \X (NodeId \cup {None}) : Sound(q[1], held, q[2]) /\ Kept(s, q[1])}

(* Every turn leads from one of them to another. *)
LEMMA ReleaseOn ==
  ASSUME NEW s, NEW held, \A j \in 1..Nodes : s.generation[j] < MaxGeneration, NEW q \in Releasing(s, held)
  PROVE  /\ release_on(q) \in Releasing(s, held)
         /\ q[2] = None => release_on(q)[2] = None
         /\ q[2] # None => q[2] \in Live(s) /\ release_on(q)[2] \in {par(s, q[2]), None}
<1> DEFINE u == q[1]
           x == q[2]
<1>1. q = <<u, x>> /\ Sound(u, held, x) /\ Kept(s, u) /\ TableType(u)
  BY DEF Releasing, Sound
<1> HIDE DEF u, x
<1>2. x \in Live(u) \cup {None} /\ None \notin Live(u)
  BY <1>1, NoneNotLive DEF Sound
<1>3. CASE x = None
  <2>1. release_on(q) = q
    BY <1>1, <1>3 DEF release_on, names
  <2> QED
    BY <1>1, <1>3, <2>1
<1>4. CASE x # None
  <2>1. x \in Live(u) /\ names(u, x)
    BY <1>2, <1>4 DEF Live
  <2>2. release_on(q) = release_step(u, x)
    BY <1>1, <2>1 DEF release_on
  <2>3. x \in Live(s) /\ par(u, x) = par(s, x)
    BY <1>1, <2>1 DEF Kept
  <2>4. x[1] \in 1..Nodes /\ u.generation[x[1]] = x[2] /\ s.generation[x[1]] = x[2]
    BY <2>1, <2>3 DEF Live, names, NodeId
  <2>5. u.generation[x[1]] < MaxGeneration
    BY <2>4
  <2> DEFINE t == release_step(u, x)[1]
             y == release_step(u, x)[2]
  <2>6. Sound(t, held, y) /\ Kept(u, t) /\ y \in {par(u, x), None}
    BY <1>1, <2>1, <2>5, ReleaseTurn
  <2>7. release_step(u, x) = <<t, y>>
    BY ZenonT(30) DEF release_step
  <2> HIDE DEF t, y
  <2>8. t \in Tables /\ y \in NodeId \cup {None}
    BY <2>6 DEF Sound, TableType, Tables, Live
  <2>9. Kept(s, t)
    BY <1>1, <2>6 DEF Kept
  <2>10. <<t, y>> \in Releasing(s, held)
    BY <2>6, <2>8, <2>9 DEF Releasing
  <2> QED
    BY <1>1, <1>4, <2>2, <2>3, <2>6, <2>7, <2>10
<1> QED
  BY <1>3, <1>4

(* release_node's loop, as a sequence of turns *)
IsRelease(s, x, turn) ==
  /\ turn[0] = <<s, x>> /\ \A k \in 1..Nodes : turn[k] = release_on(turn[k - 1])
  /\ release_node(s, x) = turn[Nodes][1]

Turns(step, start, f) == f = [k \in 0..Nodes |-> IF k = 0 THEN start ELSE step[f[k - 1]]]

(* There is such a sequence. *)
LEMMA SomeTurns ==
  ASSUME NEW D, NEW step \in [D -> D], NEW start \in D
  PROVE  \E f : Turns(step, start, f)
<1>1. Nodes \in Nat
  BY CapabilityAssumption
<1>2. PICK f : f = [k \in 0..Nodes |-> IF k = 0 THEN start ELSE step[f[k - 1]]]
  BY <1>1, Iterates
<1> QED
  BY <1>2 DEF Turns

(* release_node gives back one reference and whatever that frees, and       *)
(* leaves the rest of the tree as it was.                                  *)
LEMMA Release ==
  ASSUME NEW s, NEW x, NEW D, <<s, x>> \in D, \A q \in D : release_on(q) \in D
  PROVE  \E turn \in [0..Nodes -> D] : IsRelease(s, x, turn)
<1> DEFINE P(p) == p = [k \in 0..Nodes |-> IF k = 0 THEN <<s, x>> ELSE release_on(p[k - 1])]
           step == [q \in D |-> release_on(q)]
           turn == CHOOSE p : P(p)
<1>1. Nodes \in Nat
  BY CapabilityAssumption
<1>2. release_node(s, x) = turn[Nodes][1]
  BY DEF release_node
<1>3. PICK f : f = [k \in 0..Nodes |-> IF k = 0 THEN <<s, x>> ELSE step[f[k - 1]]]
  <2>1. step \in [D -> D]
    OBVIOUS
  <2> DEFINE start == <<s, x>>
  <2>2. start \in D
    OBVIOUS
  <2> HIDE DEF step, start
  <2>3. PICK f : Turns(step, start, f)
    BY <2>1, <2>2, SomeTurns
  <2> QED
    BY <2>3 DEF start, Turns
<1>4. ASSUME NEW k \in 0..Nodes PROVE f[k] \in D
  <2> DEFINE S == {j \in 0..Nodes : f[j] \in D}
  <2>1. 0 \in S
    BY <1>1, <1>3
  <2>2. ASSUME NEW j \in 0..(Nodes - 1), j \in S PROVE j + 1 \in S
    <3>1. j + 1 \in 0..Nodes /\ j + 1 # 0 /\ (j + 1) - 1 = j /\ f[j] \in D
      BY <1>1, <2>2
    <3>2. f[j + 1] = step[f[j]]
      <4> HIDE DEF step
      <4> QED
        BY <1>3, <3>1
    <3> QED
      BY <3>1, <3>2
  <2> HIDE DEF S
  <2>3. 0..Nodes \subseteq S
    BY <1>1, <2>1, <2>2, UpTo
  <2> QED
    BY <2>3 DEF S
<1>5. P(f)
  <2>1. \A k \in 0..Nodes : k # 0 => step[f[k - 1]] = release_on(f[k - 1])
    BY <1>1, <1>4
  <2> QED
    BY <1>3, <2>1
<1>6. P(turn)
  BY <1>5
<1> HIDE DEF turn, step
<1>7. turn[0] = <<s, x>> /\ \A k \in 1..Nodes : turn[k] = release_on(turn[k - 1])
  BY <1>1, <1>6
<1>8. ASSUME NEW k \in 0..Nodes PROVE turn[k] \in D
  <2> DEFINE S == {j \in 0..Nodes : turn[j] \in D}
  <2>1. 0 \in S
    BY <1>1, <1>7
  <2>2. \A j \in 0..(Nodes - 1) : j \in S => j + 1 \in S
    BY <1>1, <1>7
  <2> HIDE DEF S
  <2>3. 0..Nodes \subseteq S
    BY <1>1, <2>1, <2>2, UpTo
  <2> QED
    BY <2>3 DEF S
<1>9. turn \in [0..Nodes -> D]
  BY <1>6, <1>8
<1> QED
  BY <1>2, <1>7, <1>9 DEF IsRelease

(* release_node releases the reference and every one that goes with it:    *)
(* Nodes turns are enough, since each frees a node nearer to the root.     *)
LEMMA ReleaseAll ==
  ASSUME NEW s, NEW held, NEW x \in Live(s), Sound(s, held, x), \A j \in 1..Nodes : s.generation[j] < MaxGeneration
  PROVE  Sound(release_node(s, x), held, None) /\ Kept(s, release_node(s, x))
<1> DEFINE D == Releasing(s, held)
<1>1. Nodes \in Nat
  BY CapabilityAssumption
<1>2. <<s, x>> \in D
  <2>1. s \in Tables /\ x \in NodeId /\ Kept(s, s)
    BY DEF Sound, TableType, Tables, Live, Kept
  <2> QED
    BY <2>1 DEF Releasing
<1>3. \A q \in D : release_on(q) \in D
  BY ReleaseOn
<1> HIDE DEF D
<1>4. PICK turn \in [0..Nodes -> D] : IsRelease(s, x, turn)
  BY <1>2, <1>3, Release
<1>5. turn[Nodes] \in D /\ release_node(s, x) = turn[Nodes][1]
  BY <1>1, <1>4 DEF IsRelease
<1>6. Sound(turn[Nodes][1], held, turn[Nodes][2]) /\ Kept(s, turn[Nodes][1])
  BY <1>5 DEF D, Releasing
<1>7. \A q \in D : /\ q[2] = None => release_on(q)[2] = None
                   /\ q[2] # None => q[2] \in Live(s) /\ release_on(q)[2] \in {par(s, q[2]), None}
  BY ReleaseOn DEF D
<1>8. \A k \in 1..Nodes : turn[k] = release_on(turn[k - 1]) /\ turn[k - 1] \in D
  BY <1>1, <1>4 DEF IsRelease
<1>9. turn[Nodes][2] = None
  <2> SUFFICES ASSUME turn[Nodes][2] # None PROVE FALSE
    OBVIOUS
  <2>1. ASSUME NEW k \in 0..Nodes PROVE turn[k][2] # None
    <3> DEFINE S == {j \in 0..Nodes : turn[Nodes - j][2] # None}
    <3>1. 0 \in S
      BY <1>1
    <3>2. \A j \in 0..(Nodes - 1) : j \in S => j + 1 \in S
      <4> TAKE j \in 0..(Nodes - 1)
      <4>1. Nodes - j \in 1..Nodes /\ (Nodes - j) - 1 = Nodes - (j + 1) /\ j + 1 \in 0..Nodes
        BY <1>1
      <4> QED
        BY <1>7, <1>8, <4>1
    <3> HIDE DEF S
    <3>3. 0..Nodes \subseteq S
      BY <1>1, <3>1, <3>2, UpTo
    <3>4. Nodes - k \in S /\ Nodes - (Nodes - k) = k
      BY <1>1, <3>3
    <3> QED
      BY <3>4 DEF S
  <2>2. PICK rank, top : Ranked(s, rank, top)
    BY DEF Sound, Forest
  <2>3. rank \in [Live(s) -> Nat] /\ \A c \in Live(s) : par(s, c) # None => rank[par(s, c)] < rank[c]
    BY <2>2 DEF Ranked
  <2> DEFINE walk == [k \in 0..Nodes |-> turn[k][2]]
  <2>4. walk \in [0..Nodes -> Live(s)]
    BY <1>4, <1>7, <2>1
  <2>5. ASSUME NEW k \in 1..Nodes PROVE rank[walk[k]] < rank[walk[k - 1]]
    <3>1. k \in 0..Nodes /\ k - 1 \in 0..Nodes
      BY <1>1
    <3>2. turn[k][2] # None /\ turn[k - 1][2] # None
      BY <2>1, <3>1
    <3>3. turn[k][2] = par(s, turn[k - 1][2]) /\ turn[k - 1][2] \in Live(s)
      BY <1>7, <1>8, <3>2
    <3> QED
      BY <2>3, <3>1, <3>2, <3>3
  <2> HIDE DEF walk
  <2> QED
    BY <2>3, <2>4, <2>5, NoLongWalk
<1> QED
  BY <1>5, <1>6, <1>9
-----------------------------------------------------------------------------
(* Revocation *)

(* t is s with the nodes of M marked as revoked. *)
Marked(s, t, M) ==
  /\ Live(t) = Live(s) /\ t.generation = s.generation /\ t.free = s.free /\ TableType(t)
  /\ \A j \in 1..Nodes : t.node[j].live = s.node[j].live
  /\ \A b \in Live(s) :
       /\ par(t, b) = par(s, b) /\ fst(t, b) = fst(s, b) /\ nxt(t, b) = nxt(s, b)
       /\ obj(t, b) = obj(s, b) /\ rts(t, b) = rts(s, b) /\ refs(t, b) = refs(s, b)
       /\ flag(t, b) <=> flag(s, b) \/ b \in M

(* No count and no link depends on the marks. *)
LEMMA MarkedSound ==
  ASSUME NEW s, NEW t, NEW M, NEW held, NEW x, Sound(s, held, x), Marked(s, t, M)
  PROVE  Sound(t, held, x)
<1>1. TableType(s) /\ Forest(s) /\ FreeList(s) /\ held \subseteq Live(s) /\ x \in Live(s) \cup {None}
  BY DEF Sound
<1>2. \A b \in Live(s) : refs(s, b) = Cardinality(Kids(s, b)) + one(b \in held) + one(b = x) /\ refs(s, b) > 0
  BY DEF Sound
<1>3. Live(t) = Live(s) /\ t.free = s.free /\ TableType(t) /\ \A b \in Live(s) : refs(t, b) = refs(s, b)
  BY DEF Marked
<1>4. Forest(t) /\ \A q : Kids(t, q) = Kids(s, q)
  BY ZenonT(30), <1>1, SameForest DEF Marked
<1>5. FreeList(t)
  <2>1. \A a \in DOMAIN s.free : s.free[a] \in 1..Nodes
    BY <1>1, TableParts, Elements
  <2>2. \A j \in 1..Nodes : t.node[j].live = s.node[j].live
    BY DEF Marked
  <2>3. \A a \in DOMAIN s.free : ~t.node[s.free[a]].live
    BY <1>1, <2>1, <2>2 DEF FreeList
  <2> QED
    BY <1>1, <1>3, <2>3 DEF FreeList
<1>6. \A b \in Live(t) : refs(t, b) = Cardinality(Kids(t, b)) + one(b \in held) + one(b = x) /\ refs(t, b) > 0
  BY ZenonT(30), <1>2, <1>3, <1>4
<1> QED
  BY <1>1, <1>3, <1>4, <1>5, <1>6 DEF Sound

(* Marks add up. *)
LEMMA MarkedTwice ==
  ASSUME NEW s, NEW t, NEW u, NEW M, NEW N, Marked(s, t, M), Marked(t, u, N)
  PROVE  Marked(s, u, M \cup N)
BY DEF Marked

(* revoke_one_descendant, until none is left, marks the descendants. *)
LEMMA RevokeDescendants ==
  ASSUME NEW s, TableType(s), NEW id
  PROVE  Marked(s, revoke_descendants(s, id), descendants(s, id))
<1> DEFINE M == descendants(s, id)
           t == revoke_descendants(s, id)
           hit(j) == <<j, s.generation[j]>> \in M
           after(j) == IF hit(j) THEN [s.node[j] EXCEPT !.revoked = TRUE] ELSE s.node[j]
<1>1. t = [s EXCEPT !.node = [j \in 1..Nodes |-> after(j)]]
  BY DEF revoke_descendants
<1>2. t.node = [j \in 1..Nodes |-> after(j)] /\ t.generation = s.generation /\ t.free = s.free
  BY <1>1 DEF TableType
<1>3. ASSUME NEW j \in 1..Nodes
      PROVE  /\ after(j) \in NodeType
             /\ after(j).live = s.node[j].live /\ after(j).parent = s.node[j].parent
             /\ after(j).object = s.node[j].object /\ after(j).rights = s.node[j].rights
             /\ after(j).references = s.node[j].references
             /\ after(j).first_child = s.node[j].first_child /\ after(j).next_sibling = s.node[j].next_sibling
             /\ hit(j) => after(j).revoked = TRUE
             /\ ~hit(j) => after(j).revoked = s.node[j].revoked
  <2>1. s.node[j] \in NodeType
    BY TableParts
  <2>2. CASE hit(j)
    <3>1. \A m \in NodeType : [m EXCEPT !.revoked = TRUE] \in NodeType
      BY DEF NodeType
    <3>2. after(j) = [s.node[j] EXCEPT !.revoked = TRUE]
      BY <2>2
    <3> QED
      BY <2>1, <2>2, <3>1, <3>2 DEF NodeType
  <2>3. CASE ~hit(j)
    BY <2>1, <2>3
  <2> QED
    BY <2>2, <2>3
<1>4. \A b \in Live(s) : b[1] \in 1..Nodes /\ (hit(b[1]) <=> b \in M)
  BY TableParts
<1> HIDE DEF hit, after, t, M
<1>5. TableType(t)
  <2>1. [j \in 1..Nodes |-> after(j)] \in [1..Nodes -> NodeType]
    BY <1>3
  <2> QED
    BY <1>1, <2>1 DEF TableType
<1>6. \A j \in 1..Nodes : t.node[j].live = s.node[j].live
  BY ZenonT(30), <1>2, <1>3
<1>7. Live(t) = Live(s)
  BY <1>2, <1>6 DEF Live, names, NodeId
<1>8. ASSUME NEW b \in Live(s)
      PROVE  /\ par(t, b) = par(s, b) /\ fst(t, b) = fst(s, b) /\ nxt(t, b) = nxt(s, b)
             /\ obj(t, b) = obj(s, b) /\ rts(t, b) = rts(s, b) /\ refs(t, b) = refs(s, b)
             /\ b \in M => flag(t, b) = TRUE
             /\ b \notin M => flag(t, b) = flag(s, b)
  <2>1. t.node[b[1]] = after(b[1])
    BY <1>2, <1>4
  <2>2. b[1] \in 1..Nodes /\ (hit(b[1]) <=> b \in M)
    BY <1>4
  <2>5. /\ after(b[1]).parent = s.node[b[1]].parent /\ after(b[1]).first_child = s.node[b[1]].first_child
        /\ after(b[1]).next_sibling = s.node[b[1]].next_sibling /\ after(b[1]).object = s.node[b[1]].object
        /\ after(b[1]).rights = s.node[b[1]].rights /\ after(b[1]).references = s.node[b[1]].references
    BY <1>3, <2>2
  <2>3. /\ par(t, b) = par(s, b) /\ fst(t, b) = fst(s, b) /\ nxt(t, b) = nxt(s, b)
        /\ obj(t, b) = obj(s, b) /\ rts(t, b) = rts(s, b) /\ refs(t, b) = refs(s, b)
    BY <2>1, <2>5 DEF par, fst, nxt, obj, rts, refs
  <2>4. /\ b \in M => after(b[1]).revoked = TRUE
        /\ b \notin M => after(b[1]).revoked = s.node[b[1]].revoked
    BY <1>3, <2>2
  <2> QED
    BY <2>1, <2>3, <2>4 DEF flag
<1>9. \A b \in Live(s) : flag(t, b) <=> flag(s, b) \/ b \in M
  BY <1>8
<1>10. Marked(s, t, M)
  BY <1>2, <1>5, <1>6, <1>7, <1>8, <1>9 DEF Marked
<1> QED
  BY <1>10 DEF t, M

(* revoke marks the node itself. *)
LEMMA RevokeOne ==
  ASSUME NEW s, TableType(s), NEW id \in Live(s)
  PROVE  Marked(s, [s EXCEPT !.node[id[1]].revoked = TRUE], {id})
<1> DEFINE i == id[1]
           t == with_revoked(s, i)
<1>1. i \in 1..Nodes
  BY TableParts
<1>2. t = [s EXCEPT !.node[id[1]].revoked = TRUE]
  BY DEF with_revoked
<1>3. \A b \in Live(s) : b[1] \in 1..Nodes /\ (b = id <=> b[1] = i)
  BY TableParts, LiveIndex
<1> HIDE DEF i
<1>4. MarkedAt(s, t, i)
  BY <1>1, SetRevoked
<1> HIDE DEF t
<1>5. /\ TableType(t) /\ t.generation = s.generation /\ t.free = s.free
      /\ \A j \in 1..Nodes : j # i => t.node[j] = s.node[j]
  BY <1>4 DEF MarkedAt
<1>6. \A j \in 1..Nodes : t.node[j].live = s.node[j].live
  BY <1>4, <1>5 DEF MarkedAt
<1>7. Live(t) = Live(s)
  BY ZenonT(30), <1>5, <1>6 DEF Live, names, NodeId
<1>8. ASSUME NEW b \in Live(s)
      PROVE  /\ par(t, b) = par(s, b) /\ fst(t, b) = fst(s, b) /\ nxt(t, b) = nxt(s, b)
             /\ obj(t, b) = obj(s, b) /\ rts(t, b) = rts(s, b) /\ refs(t, b) = refs(s, b)
             /\ b = id => flag(t, b) = TRUE
             /\ b # id => flag(t, b) = flag(s, b)
  BY <1>3, <1>4, <1>5 DEF MarkedAt, par, fst, nxt, obj, rts, refs, flag
<1>9. \A b \in Live(s) : flag(t, b) <=> flag(s, b) \/ b \in {id}
  BY <1>8
<1> QED
  BY <1>2, <1>5, <1>6, <1>7, <1>8, <1>9 DEF Marked
-----------------------------------------------------------------------------
(* Capability spaces *)

SpaceType == [node : [1..Slots -> NodeId \cup {None}], generation : [1..Slots -> 1..MaxGeneration], free : Seq(1..Slots)]

(* The free list holds different slots, all of them empty. *)
SlotList(t) ==
  /\ \A a, b \in DOMAIN t.free : t.free[a] = t.free[b] => a = b
  /\ \A a \in DOMAIN t.free : t.node[t.free[a]] = None

HeldIds(T) == {x \in NodeId : \E c \in Spaces, i \in 1..Slots : T[c].node[i] = x}

OneSlot(T) ==
  \A c, d \in Spaces, i, j \in 1..Slots : T[c].node[i] = T[d].node[j] /\ T[c].node[i] # None => c = d /\ i = j

SpacesType(T) == T \in [Spaces -> SpaceType] /\ (\A c \in Spaces : SlotList(T[c])) /\ OneSlot(T)

(* insert's change of the slot table *)
inserted(T, c, x) == [T EXCEPT ![c].free = Tail(@), ![c].node[Head(T[c].free)] = x]

(* remove's change of the slot table *)
removed(T, c, i) == [T EXCEPT ![c].node[i] = None, ![c].generation[i] = @ + 1, ![c].free = <<i>> \o @]

(* insert fills the first free slot, and only it. *)
LEMMA InsertSlot ==
  ASSUME NEW T \in [Spaces -> SpaceType], NEW c \in Spaces, T[c].free # <<>>, NEW x \in NodeId,
         NEW i, i = Head(T[c].free), NEW U, U = inserted(T, c, x)
  PROVE  /\ U \in [Spaces -> SpaceType] /\ i \in 1..Slots
         /\ U[c].free = Tail(T[c].free) /\ U[c].generation = T[c].generation /\ U[c].node[i] = x
         /\ \A j \in 1..Slots : j # i => U[c].node[j] = T[c].node[j]
         /\ \A d \in Spaces : d # c => U[d] = T[d]
<1>1. T[c].free \in Seq(1..Slots) /\ T[c].node \in [1..Slots -> NodeId \cup {None}]
      /\ T[c].generation \in [1..Slots -> 1..MaxGeneration]
  BY DEF SpaceType
<1>2. i \in 1..Slots /\ Tail(T[c].free) \in Seq(1..Slots)
  BY <1>1, FirstOf
<1> DEFINE f == Tail(T[c].free)
<1>3. U = [T EXCEPT ![c].free = f, ![c].node[i] = x]
  BY DEF inserted
<1> HIDE DEF f
<1>4. f \in Seq(1..Slots)
  BY <1>2 DEF f
<1>5. U \in [Spaces -> SpaceType]
  <2> DEFINE n == [T[c] EXCEPT !.free = f, !.node[i] = x]
  <2>1. \A m \in SpaceType : [m EXCEPT !.free = f, !.node[i] = x] \in SpaceType
    BY <1>2, <1>4 DEF SpaceType
  <2>2. n \in SpaceType
    BY <2>1
  <2>3. U = [T EXCEPT ![c] = n]
    BY <1>3
  <2> HIDE DEF n
  <2> QED
    BY ZenonT(30), <2>2, <2>3
<1>6. U[c].free = f /\ U[c].generation = T[c].generation
  BY <1>3 DEF SpaceType
<1>7. U[c].node[i] = x /\ \A j \in 1..Slots : j # i => U[c].node[j] = T[c].node[j]
  BY <1>2, <1>3 DEF SpaceType
<1>8. \A d \in Spaces : d # c => U[d] = T[d]
  BY <1>3
<1> QED
  BY ZenonT(30), <1>2, <1>5, <1>6, <1>7, <1>8 DEF f

(* No other slot changes. *)
OthersSame(T, U, c, i) ==
  /\ \A j \in 1..Slots : j # i => U[c].node[j] = T[c].node[j] /\ U[c].generation[j] = T[c].generation[j]
  /\ \A d \in Spaces : d # c => U[d] = T[d]

(* One slot is empty and first of the free ones. *)
Emptied(T, U, c, i) ==
  U[c].free = <<i>> \o T[c].free /\ U[c].node[i] = None /\ U[c].generation[i] = T[c].generation[i] + 1

(* remove empties a slot and gives it a new generation. *)
LEMMA RemoveSlot ==
  ASSUME NEW T \in [Spaces -> SpaceType], NEW c \in Spaces, NEW i \in 1..Slots,
         T[c].generation[i] < MaxGeneration, NEW U, U = removed(T, c, i)
  PROVE  U \in [Spaces -> SpaceType] /\ Emptied(T, U, c, i) /\ OthersSame(T, U, c, i)
<1>1. T[c].free \in Seq(1..Slots) /\ T[c].generation[i] \in 1..MaxGeneration
  BY DEF SpaceType
<1> DEFINE f == <<i>> \o T[c].free
           g == T[c].generation[i] + 1
<1>2. f \in Seq(1..Slots)
  BY <1>1
<1>3. g \in 1..MaxGeneration
  BY <1>1, CapabilityAssumption
<1>4. U = [T EXCEPT ![c].node[i] = None, ![c].generation[i] = g, ![c].free = f]
  BY DEF removed
<1> HIDE DEF f, g
<1> DEFINE n == [T[c] EXCEPT !.node[i] = None, !.generation[i] = g, !.free = f]
<1>9. n \in SpaceType
  <2>1. \A m \in SpaceType : [m EXCEPT !.node[i] = None, !.generation[i] = g, !.free = f] \in SpaceType
    BY <1>2, <1>3 DEF SpaceType
  <2> QED
    BY <2>1
<1>10. U = [T EXCEPT ![c] = n]
  BY <1>4
<1>11. n.free = f /\ n.node[i] = None /\ n.generation[i] = g
  BY ZenonT(30) DEF SpaceType
<1>5. U \in [Spaces -> SpaceType]
  <2> HIDE DEF n
  <2> QED
    BY <1>9, <1>10
<1>6. U[c].free = f /\ U[c].node[i] = None /\ U[c].generation[i] = g
  <2> HIDE DEF n
  <2> QED
    BY <1>10, <1>11
<1>7. \A j \in 1..Slots : j # i => U[c].node[j] = T[c].node[j] /\ U[c].generation[j] = T[c].generation[j]
  BY <1>4 DEF SpaceType
<1>8. \A d \in Spaces : d # c => U[d] = T[d]
  BY <1>4
<1> QED
  BY <1>5, <1>6, <1>7, <1>8 DEF f, g, OthersSame, Emptied

(* insert keeps the slot tables in order. *)
LEMMA InsertSpaces ==
  ASSUME NEW T, SpacesType(T), NEW c \in Spaces, T[c].free # <<>>, NEW x \in NodeId, x \notin HeldIds(T)
  PROVE  /\ SpacesType(inserted(T, c, x)) /\ HeldIds(inserted(T, c, x)) = HeldIds(T) \cup {x}
         /\ T[c].node[Head(T[c].free)] = None
<1> DEFINE i == Head(T[c].free)
           U == inserted(T, c, x)
<1>1. T \in [Spaces -> SpaceType] /\ (\A d \in Spaces : SlotList(T[d])) /\ OneSlot(T)
  BY DEF SpacesType
<1>2. /\ U \in [Spaces -> SpaceType] /\ i \in 1..Slots
      /\ U[c].free = Tail(T[c].free) /\ U[c].node[i] = x
  BY <1>1, InsertSlot
<1>3. /\ \A j \in 1..Slots : j # i => U[c].node[j] = T[c].node[j]
      /\ \A d \in Spaces : d # c => U[d] = T[d]
  BY <1>1, InsertSlot
<1>4. T[c].free \in Seq(1..Slots)
  BY <1>1 DEF SpaceType
<1>5. 1 \in DOMAIN T[c].free /\ i = T[c].free[1]
  BY <1>4, FirstOf
<1>6. T[c].node[i] = None
  BY ZenonT(30), <1>1, <1>5 DEF SlotList
<1>7. None \notin NodeId /\ x # None
  BY NoneNotLive
<1> HIDE DEF i, U
<1>8. SlotList(U[c])
  <2>1. \A a \in DOMAIN U[c].free : a + 1 \in DOMAIN T[c].free /\ U[c].free[a] = T[c].free[a + 1] /\ a \in Nat /\ a + 1 # 1
    BY <1>2, <1>4
  <2>2. \A a \in DOMAIN T[c].free : T[c].free[a] \in 1..Slots
    BY <1>4, Elements
  <2>3. ASSUME NEW a \in DOMAIN U[c].free PROVE U[c].node[U[c].free[a]] = None
    <3>1. a + 1 \in DOMAIN T[c].free /\ U[c].free[a] = T[c].free[a + 1] /\ a + 1 # 1
      BY <2>1
    <3>2. T[c].free[a + 1] # T[c].free[1] /\ T[c].node[T[c].free[a + 1]] = None
      BY ZenonT(30), <1>1, <1>5, <3>1 DEF SlotList
    <3>3. T[c].free[a + 1] \in 1..Slots
      BY <2>2, <3>1
    <3> QED
      BY ZenonT(30), <1>3, <1>5, <3>1, <3>2, <3>3
  <2>4. ASSUME NEW a \in DOMAIN U[c].free, NEW b \in DOMAIN U[c].free, U[c].free[a] = U[c].free[b] PROVE a = b
    <3>1. a + 1 \in DOMAIN T[c].free /\ b + 1 \in DOMAIN T[c].free /\ T[c].free[a + 1] = T[c].free[b + 1] /\ a \in Nat /\ b \in Nat
      BY <2>1, <2>4
    <3>2. a + 1 = b + 1
      BY <1>1, <3>1 DEF SlotList
    <3> QED
      BY <3>1, <3>2
  <2> QED
    BY <2>3, <2>4 DEF SlotList
<1>9. ASSUME NEW d \in Spaces PROVE SlotList(U[d])
  BY ZenonT(30), <1>1, <1>3, <1>8
<1>10. ASSUME NEW d \in Spaces, NEW j \in 1..Slots
       PROVE  /\ d = c /\ j = i => U[d].node[j] = x
              /\ ~(d = c /\ j = i) => U[d].node[j] = T[d].node[j]
  BY <1>2, <1>3
<1>11. \A d \in Spaces, j \in 1..Slots : T[d].node[j] # x
  BY DEF HeldIds
<1>12. OneSlot(U)
  <2> SUFFICES ASSUME NEW d \in Spaces, NEW e \in Spaces, NEW j \in 1..Slots, NEW k \in 1..Slots,
                      U[d].node[j] = U[e].node[k], U[d].node[j] # None
               PROVE  d = e /\ j = k
    BY DEF OneSlot
  <2>1. CASE (d = c /\ j = i) \/ (e = c /\ k = i)
    BY <1>10, <1>11, <2>1
  <2>2. CASE ~(d = c /\ j = i) /\ ~(e = c /\ k = i)
    <3>1. T[d].node[j] = T[e].node[k] /\ T[d].node[j] # None
      BY <1>10, <2>2
    <3> QED
      BY <1>1, <3>1 DEF OneSlot
  <2> QED
    BY <2>1, <2>2
<1>13. HeldIds(U) = HeldIds(T) \cup {x}
  <2>1. ASSUME NEW y \in HeldIds(U) PROVE y \in HeldIds(T) \cup {x}
    BY <1>10 DEF HeldIds
  <2>2. ASSUME NEW y \in HeldIds(T) PROVE y \in HeldIds(U)
    <3>1. PICK d \in Spaces, j \in 1..Slots : T[d].node[j] = y
      BY DEF HeldIds
    <3>2. y \in NodeId /\ y # None
      BY <1>7 DEF HeldIds
    <3>3. U[d].node[j] = y
      BY <1>6, <1>10, <3>1, <3>2
    <3> QED
      BY <3>2, <3>3 DEF HeldIds
  <2>3. x \in HeldIds(U)
    BY <1>2 DEF HeldIds
  <2> QED
    BY <2>1, <2>2, <2>3
<1> QED
  BY <1>2, <1>6, <1>9, <1>12, <1>13 DEF SpacesType, U, i

(* So does remove. *)
LEMMA RemoveSpaces ==
  ASSUME NEW T, SpacesType(T), NEW c \in Spaces, NEW i \in 1..Slots, T[c].generation[i] < MaxGeneration,
         T[c].node[i] # None
  PROVE  SpacesType(removed(T, c, i)) /\ HeldIds(removed(T, c, i)) = HeldIds(T) \ {T[c].node[i]}
<1> DEFINE U == removed(T, c, i)
           x == T[c].node[i]
<1>1. T \in [Spaces -> SpaceType] /\ (\A d \in Spaces : SlotList(T[d])) /\ OneSlot(T)
  BY DEF SpacesType
<1>2. /\ U \in [Spaces -> SpaceType] /\ U[c].free = <<i>> \o T[c].free /\ U[c].node[i] = None
  <2>1. U \in [Spaces -> SpaceType] /\ Emptied(T, U, c, i)
    BY ZenonT(30), <1>1, RemoveSlot
  <2> QED
    BY <2>1 DEF Emptied
<1>3. /\ \A j \in 1..Slots : j # i => U[c].node[j] = T[c].node[j]
      /\ \A d \in Spaces : d # c => U[d] = T[d]
  <2>1. OthersSame(T, U, c, i)
    BY <1>1, RemoveSlot
  <2> QED
    BY <2>1 DEF OthersSame
<1>4. T[c].free \in Seq(1..Slots) /\ x \in NodeId /\ x # None
  BY <1>1 DEF SpaceType
<1> HIDE DEF U
<1>5. None \notin NodeId
  BY NoneNotLive
<1>6. SlotList(U[c])
  <2>1. \A a \in DOMAIN U[c].free : a \in Nat /\ (a = 1 => U[c].free[a] = i)
                                    /\ (a # 1 => a - 1 \in DOMAIN T[c].free /\ U[c].free[a] = T[c].free[a - 1])
    BY <1>2, <1>4
  <2>2. \A a \in DOMAIN T[c].free : T[c].free[a] \in 1..Slots
    BY ZenonT(30), <1>4, Elements
  <2>3. \A a \in DOMAIN T[c].free : T[c].free[a] # i /\ T[c].node[T[c].free[a]] = None
    BY <1>1 DEF SlotList
  <2>4. \A a \in DOMAIN T[c].free : U[c].node[T[c].free[a]] = None
    BY <1>3, <2>2, <2>3
  <2>5. ASSUME NEW a \in DOMAIN U[c].free PROVE U[c].node[U[c].free[a]] = None
    BY <1>2, <2>1, <2>4
  <2>6. ASSUME NEW a \in DOMAIN U[c].free, NEW b \in DOMAIN U[c].free, U[c].free[a] = U[c].free[b] PROVE a = b
    <3>1. CASE a = 1
      BY <2>1, <2>3, <2>6, <3>1
    <3>2. CASE b = 1
      BY ZenonT(30), <2>1, <2>3, <2>6, <3>2
    <3>3. CASE a # 1 /\ b # 1
      <4>1. a - 1 \in DOMAIN T[c].free /\ b - 1 \in DOMAIN T[c].free /\ T[c].free[a - 1] = T[c].free[b - 1] /\ a \in Nat /\ b \in Nat
        BY <2>1, <2>6, <3>3
      <4>2. a - 1 = b - 1
        BY <1>1, <4>1 DEF SlotList
      <4> QED
        BY <4>1, <4>2
    <3> QED
      BY <3>1, <3>2, <3>3
  <2> QED
    BY ZenonT(30), <2>5, <2>6 DEF SlotList
<1>7. ASSUME NEW d \in Spaces PROVE SlotList(U[d])
  BY <1>1, <1>3, <1>6
<1>8. ASSUME NEW d \in Spaces, NEW j \in 1..Slots
      PROVE  /\ d = c /\ j = i => U[d].node[j] = None
             /\ ~(d = c /\ j = i) => U[d].node[j] = T[d].node[j]
  BY <1>2, <1>3
<1>9. OneSlot(U)
  <2> SUFFICES ASSUME NEW d \in Spaces, NEW e \in Spaces, NEW j \in 1..Slots, NEW k \in 1..Slots,
                      U[d].node[j] = U[e].node[k], U[d].node[j] # None
               PROVE  d = e /\ j = k
    BY DEF OneSlot
  <2>1. T[d].node[j] = T[e].node[k] /\ T[d].node[j] # None
    BY ZenonT(30), <1>8
  <2> QED
    BY <1>1, <2>1 DEF OneSlot
<1>10. ASSUME NEW d \in Spaces, NEW j \in 1..Slots, T[d].node[j] = x PROVE d = c /\ j = i
  BY <1>1, <1>4, <1>10 DEF OneSlot
<1>11. HeldIds(U) = HeldIds(T) \ {x}
  <2>1. ASSUME NEW y \in HeldIds(U) PROVE y \in HeldIds(T) /\ y # x
    <3>1. PICK d \in Spaces, j \in 1..Slots : U[d].node[j] = y
      BY DEF HeldIds
    <3>2. y \in NodeId /\ y # None
      BY <1>5 DEF HeldIds
    <3>3. T[d].node[j] = y /\ ~(d = c /\ j = i)
      BY ZenonT(30), <1>8, <3>1, <3>2
    <3> QED
      BY <1>10, <3>2, <3>3 DEF HeldIds
  <2>2. ASSUME NEW y \in HeldIds(T), y # x PROVE y \in HeldIds(U)
    BY <1>8, <2>2 DEF HeldIds
  <2> QED
    BY <2>1, <2>2
<1> QED
  BY ZenonT(30), <1>2, <1>7, <1>9, <1>11 DEF SpacesType, U
=============================================================================
