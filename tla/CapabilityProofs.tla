-------------------------- MODULE CapabilityProofs -------------------------
(***************************************************************************)
(* What is proved of the capability system for every number of nodes,      *)
(* slots and spaces: the intrusive lists are the derivation tree, the      *)
(* reference counts are exact, deleting a handle spares every other, a     *)
(* handle that stopped being usable stays so, and a revocation reaches     *)
(* everything derived from the handle.                                     *)
(***************************************************************************)
EXTENDS MCCapability, CapabilityTree

(* The provers a leaf is tried with that names none *)
USE ZenonT(3), SMTT(30), Z3T(30)
-----------------------------------------------------------------------------
(* The invariant of the capability system *)

CapInv == Sound(sys, HeldIds(spaces), None) /\ SpacesType(spaces) /\ objects \subseteq Objects

(* validate_node of a live node: nothing on its lineage is revoked and its *)
(* object is alive.                                                        *)
LEMMA ValidIff ==
  ASSUME NEW s, Forest(s), NEW x \in Live(s), NEW A
  PROVE  validate_node(s, x, A) <=> (\A a \in lineage(s, x) : ~flag(s, a)) /\ obj(s, x) \in A
<1>1. \A a \in lineage(s, x) : a \in Live(s)
  BY LineageRec
<1>2. \A a \in lineage(s, x) : names(s, a)
  BY <1>1 DEF Live
<1> QED
  BY <1>2 DEF validate_node, flag, obj

(* t keeps the nodes of s. *)
Extends(s, t) ==
  /\ Live(s) \subseteq Live(t)
  /\ \A c \in Live(s) : par(t, c) = par(s, c) /\ (flag(t, c) <=> flag(s, c)) /\ obj(t, c) = obj(s, c)

(* The lineage of a node of s is the same in both, *)
LEMMA ExtendedLineage ==
  ASSUME NEW s, NEW t, Forest(s), Extends(s, t), NEW x \in Live(s)
  PROVE  lineage(t, x) = lineage(s, x)
<1>1. \A c \in Live(s) : c \in Live(t) /\ par(t, c) = par(s, c) /\ par(s, c) \in Live(s) \cup {None}
  BY DEF Extends, Forest
<1> QED
  BY ZenonT(30), <1>1, SameLineage

(* and so is its validity. *)
LEMMA ExtendedValid ==
  ASSUME NEW s, NEW t, Forest(s), Forest(t), Extends(s, t), NEW x \in Live(s), NEW A
  PROVE  validate_node(s, x, A) <=> validate_node(t, x, A)
<1>1. lineage(t, x) = lineage(s, x)
  BY ExtendedLineage
<1>2. lineage(s, x) \subseteq Live(s)
  BY LineageRec
<1>3. x \in Live(t) /\ obj(t, x) = obj(s, x) /\ \A a \in lineage(s, x) : flag(t, a) <=> flag(s, a)
  BY <1>2 DEF Extends
<1>4. validate_node(s, x, A) <=> (\A a \in lineage(s, x) : ~flag(s, a)) /\ obj(s, x) \in A
  BY ValidIff
<1>5. validate_node(t, x, A) <=> (\A a \in lineage(t, x) : ~flag(t, a)) /\ obj(t, x) \in A
  BY ZenonT(30), <1>3, ValidIff
<1> QED
  BY <1>1, <1>3, <1>4, <1>5

(* allocate_node keeps the counts exact: the new node has the reference of *)
(* its slot, and is one more child of p.                                   *)
LEMMA AllocateSound ==
  ASSUME NEW s, NEW held, Sound(s, held, None), s.free # <<>>, NEW p \in Live(s) \cup {None},
         NEW info \in [object : Objects, rights : SUBSET Rights], NEW t, t = allocate_node(s, info, p)
  PROVE  /\ NewId(s) \in NodeId /\ NewId(s) \notin Live(s) /\ par(t, NewId(s)) = p
         /\ Live(t) = Live(s) \cup {NewId(s)}
         /\ Sound(t, held \cup {NewId(s)}, None) /\ Extends(s, t)
<1> DEFINE id == NewId(s)
<1>1. TableType(s) /\ Forest(s) /\ FreeList(s) /\ held \subseteq Live(s)
  BY DEF Sound
<1>2. \A b \in Live(s) : refs(s, b) = Cardinality(Kids(s, b)) + one(b \in held) + one(b = None) /\ refs(s, b) > 0
  BY DEF Sound
<1>14. Allocated(s, t, info, p)
  BY ZenonT(30), <1>1, AllocateEffect
<1>3. /\ TableType(t) /\ FreeList(t)
      /\ id \in NodeId /\ id \notin Live(s) /\ Live(t) = Live(s) \cup {id}
      /\ par(t, id) = p /\ fst(t, id) = None /\ refs(t, id) = 1
  BY ZenonT(30), <1>14 DEF Allocated
<1>4. nxt(t, id) = IF p = None THEN None ELSE fst(s, p)
  BY <1>14 DEF Allocated
<1>5. \A c \in Live(s) :
        /\ par(t, c) = par(s, c) /\ nxt(t, c) = nxt(s, c) /\ flag(t, c) = flag(s, c)
        /\ obj(t, c) = obj(s, c) /\ rts(t, c) = rts(s, c)
        /\ fst(t, c) = IF c = p THEN id ELSE fst(s, c)
        /\ refs(t, c) = IF c = p THEN refs(s, c) + 1 ELSE refs(s, c)
  BY <1>14 DEF Allocated
<1> HIDE DEF id
<1>6. Grown(s, t, id, p)
  BY ZenonT(30), <1>3, <1>4, <1>5 DEF Grown
<1>7. Forest(t)
  BY <1>1, <1>6, GrownForest
<1>8. GrownLists(s, t, id, p)
  BY ZenonT(30), <1>1, <1>6, GrownKids
<1>9. None \notin Live(t) /\ None \notin Live(s)
  BY ZenonT(30), NoneNotLive
<1>10. ASSUME NEW b \in Live(t)
       PROVE  refs(t, b) = Cardinality(Kids(t, b)) + one(b \in held \cup {id}) + one(b = None) /\ refs(t, b) > 0
  <2>1. one(b = None) = 0
    BY <1>9 DEF one
  <2>2. CASE b = id
    <3>1. Cardinality(Kids(t, b)) = 0
      BY <1>8, <2>2, FS_EmptySet DEF GrownLists
    <3>2. one(b \in held \cup {id}) = 1
      BY <2>2 DEF one
    <3> QED
      BY <1>3, <2>1, <2>2, <3>1, <3>2
  <2>3. CASE b # id
    <3>1. b \in Live(s) /\ one(b \in held \cup {id}) = one(b \in held)
      BY <1>3, <2>3 DEF one
    <3>2. refs(s, b) = Cardinality(Kids(s, b)) + one(b \in held) + 0 /\ refs(s, b) > 0
      BY ZenonT(30), <1>2, <2>1, <3>1
    <3>3. Cardinality(Kids(s, b)) \in Nat /\ IsFiniteSet(Kids(s, b)) /\ one(b \in held) \in 0..1
      BY LiveFinite DEF one
    <3>4. CASE b = p
      <4>1. Kids(t, b) = Kids(s, b) \cup {id} /\ id \notin Kids(s, b)
        BY ZenonT(30), <1>3, <1>8, <3>1, <3>4 DEF GrownLists, Kids
      <4>2. Cardinality(Kids(t, b)) = Cardinality(Kids(s, b)) + 1
        BY <3>3, <4>1, FS_AddElement
      <4>3. refs(t, b) = refs(s, b) + 1
        BY ZenonT(30), <1>5, <3>1, <3>4
      <4> QED
        BY <2>1, <3>1, <3>2, <3>3, <4>2, <4>3
    <3>5. CASE b # p
      <4>1. Kids(t, b) = Kids(s, b) /\ refs(t, b) = refs(s, b)
        BY ZenonT(30), <1>5, <1>8, <3>1, <3>5 DEF GrownLists
      <4> QED
        BY ZenonT(30), <2>1, <3>1, <3>2, <3>3, <4>1
    <3> QED
      BY <3>4, <3>5
  <2> QED
    BY ZenonT(30), <2>2, <2>3
<1>11. held \cup {id} \subseteq Live(t)
  BY ZenonT(30), <1>1, <1>3
<1>12. Sound(t, held \cup {id}, None)
  BY ZenonT(30), <1>3, <1>7, <1>10, <1>11 DEF Sound
<1>13. Extends(s, t)
  BY <1>3, <1>5 DEF Extends
<1> QED
  BY <1>3, <1>12, <1>13 DEF id

(* The node of a held handle is live. *)
LEMMA HeldLive ==
  ASSUME CapInv, NEW c \in Spaces, NEW h \in Held(c)
  PROVE  /\ h \in Handles /\ h[1] \in 1..Slots /\ h[2] \in 1..MaxGeneration /\ h = <<h[1], h[2]>>
         /\ spaces[c].generation[h[1]] = h[2] /\ spaces[c].node[h[1]] # None
         /\ node_for(c, h) = spaces[c].node[h[1]] /\ node_for(c, h) \in HeldIds(spaces) /\ node_for(c, h) \in Live(sys)
<1>1. h \in Handles /\ node_for(c, h) # None
  BY DEF Held
<1>2. h[1] \in 1..Slots /\ h[2] \in 1..MaxGeneration /\ h = <<h[1], h[2]>>
  BY <1>1 DEF Handles
<1>3. spaces[c].generation[h[1]] = h[2] /\ node_for(c, h) = spaces[c].node[h[1]]
  BY <1>1 DEF node_for
<1>4. spaces[c] \in SpaceType
  BY DEF CapInv, SpacesType
<1>5. spaces[c].node[h[1]] \in NodeId
  BY ZenonT(30), <1>1, <1>2, <1>3, <1>4 DEF SpaceType
<1>6. spaces[c].node[h[1]] \in HeldIds(spaces)
  BY <1>2, <1>5 DEF HeldIds
<1> QED
  BY ZenonT(30), <1>1, <1>2, <1>3, <1>6 DEF CapInv, Sound

(* What an insertion below p does *)
Inserts(c, p) ==
  /\ CapInv' /\ objects' = objects /\ spaces[c].free # <<>> /\ spaces' = inserted(spaces, c, NewId(sys))
  /\ NewId(sys) \in NodeId /\ NewId(sys) \notin Live(sys) /\ par(sys', NewId(sys)) = p
  /\ Live(sys') = Live(sys) \cup {NewId(sys)} /\ Extends(sys, sys')

(* insert_new does it. *)
LEMMA InsertStep ==
  ASSUME CapInv, NEW c \in Spaces, NEW p \in Live(sys) \cup {None},
         NEW info \in [object : Objects, rights : SUBSET Rights], insert_new(c, info, p)
  PROVE  Inserts(c, p)
<1>1. spaces[c].free # <<>> /\ sys.free # <<>> /\ sys' = allocate_node(sys, info, p) /\ objects' = objects
  BY DEF insert_new
<1>2. spaces' = inserted(spaces, c, NewId(sys))
  BY DEF insert_new, inserted, NewId
<1>3. Sound(sys, HeldIds(spaces), None) /\ SpacesType(spaces) /\ objects \subseteq Objects
  BY DEF CapInv
<1>4. /\ NewId(sys) \in NodeId /\ NewId(sys) \notin Live(sys) /\ par(sys', NewId(sys)) = p
      /\ Live(sys') = Live(sys) \cup {NewId(sys)}
      /\ Sound(sys', HeldIds(spaces) \cup {NewId(sys)}, None) /\ Extends(sys, sys')
  BY ZenonT(30), <1>1, <1>3, AllocateSound
<1>5. NewId(sys) \notin HeldIds(spaces)
  BY <1>3, <1>4 DEF Sound
<1>6. SpacesType(spaces') /\ HeldIds(spaces') = HeldIds(spaces) \cup {NewId(sys)}
  BY <1>1, <1>2, <1>3, <1>4, <1>5, InsertSpaces
<1>7. CapInv'
  BY <1>1, <1>3, <1>4, <1>6 DEF CapInv
<1> QED
  BY ZenonT(30), <1>1, <1>2, <1>4, <1>7 DEF Inserts

(* What deleting h does *)
Deletes(c, h) ==
  /\ CapInv' /\ objects' = objects /\ spaces' = removed(spaces, c, h[1]) /\ h[2] < MaxGeneration
  /\ Kept(sys, sys')

(* Delete does it. *)
LEMMA DeleteStep ==
  ASSUME CapInv, NEW c \in Spaces, NEW h \in Held(c), Delete(c, h)
  PROVE  Deletes(c, h)
<1> DEFINE x == node_for(c, h)
           held == HeldIds(spaces) \ {x}
<1>1. /\ h[1] \in 1..Slots /\ spaces[c].generation[h[1]] = h[2] /\ spaces[c].node[h[1]] # None
      /\ x = spaces[c].node[h[1]] /\ x \in HeldIds(spaces) /\ x \in Live(sys)
  BY HeldLive
<1>2. /\ h[2] < MaxGeneration /\ \A i \in 1..Nodes : sys.generation[i] < MaxGeneration
      /\ sys' = release_node(sys, x) /\ objects' = objects
  BY DEF Delete
<1>3. spaces' = removed(spaces, c, h[1])
  BY DEF Delete, removed
<1> HIDE DEF x
<1>4. Sound(sys, HeldIds(spaces), None) /\ SpacesType(spaces) /\ objects \subseteq Objects
  BY DEF CapInv
<1>5. SpacesType(spaces') /\ HeldIds(spaces') = held
  BY <1>1, <1>2, <1>3, <1>4, RemoveSpaces
<1>6. Sound(sys, held, x)
  <2>1. None \notin Live(sys)
    BY NoneNotLive
  <2>2. ASSUME NEW b \in Live(sys)
        PROVE  one(b \in held) + one(b = x) = one(b \in HeldIds(spaces)) + one(b = None)
    BY <1>1, <2>1 DEF one
  <2>3. ASSUME NEW b \in Live(sys)
        PROVE  refs(sys, b) = Cardinality(Kids(sys, b)) + one(b \in held) + one(b = x) /\ refs(sys, b) > 0
    <3>1. refs(sys, b) = Cardinality(Kids(sys, b)) + one(b \in HeldIds(spaces)) + one(b = None) /\ refs(sys, b) > 0
      BY <1>4 DEF Sound
    <3>2. /\ one(b \in held) \in Nat /\ one(b = x) \in Nat /\ one(b \in HeldIds(spaces)) \in Nat /\ one(b = None) \in Nat
          /\ Cardinality(Kids(sys, b)) \in Nat
      BY LiveFinite DEF one
    <3> QED
      BY <2>2, <3>1, <3>2
  <2> QED
    BY <1>1, <1>4, <2>3 DEF Sound
<1> HIDE DEF held
<1>7. Sound(sys', held, None) /\ Kept(sys, sys')
  BY <1>1, <1>2, <1>6, ReleaseAll
<1>8. CapInv'
  BY <1>2, <1>4, <1>5, <1>7 DEF CapInv
<1> QED
  BY <1>2, <1>3, <1>7, <1>8 DEF Deletes

(* A revocation keeps the lineages, and makes no node valid. *)
LEMMA MarkedLineage ==
  ASSUME NEW s, NEW t, NEW M, Forest(s), Marked(s, t, M), NEW x \in Live(s)
  PROVE  x \in Live(t) /\ lineage(t, x) = lineage(s, x)
<1>1. \A c \in Live(s) : c \in Live(t) /\ par(t, c) = par(s, c) /\ par(s, c) \in Live(s) \cup {None}
  BY DEF Marked, Forest
<1> QED
  BY <1>1, SameLineage

(* ... so what is valid afterwards was valid before, and what has no marked *)
(* node on its lineage is as valid as it was.                              *)
LEMMA MarkedValid ==
  ASSUME NEW s, NEW t, NEW M, Forest(s), Forest(t), Marked(s, t, M), NEW x \in Live(s), NEW A
  PROVE  /\ validate_node(t, x, A) => validate_node(s, x, A)
         /\ lineage(s, x) \cap M = {} => (validate_node(t, x, A) <=> validate_node(s, x, A))
<1>1. x \in Live(t) /\ lineage(t, x) = lineage(s, x)
  BY MarkedLineage
<1>2. lineage(s, x) \subseteq Live(s)
  BY LineageRec
<1>3. obj(t, x) = obj(s, x) /\ \A a \in lineage(s, x) : flag(t, a) <=> flag(s, a) \/ a \in M
  BY <1>2 DEF Marked
<1>4. validate_node(s, x, A) <=> (\A a \in lineage(s, x) : ~flag(s, a)) /\ obj(s, x) \in A
  BY ValidIff
<1>5. validate_node(t, x, A) <=> (\A a \in lineage(t, x) : ~flag(t, a)) /\ obj(t, x) \in A
  BY <1>1, ValidIff
<1> QED
  BY <1>1, <1>3, <1>4, <1>5

(* What revoking h does: the descendants are marked in any case, the node  *)
(* itself if the handle stops being valid.                                 *)
Revokes(c, h) ==
  /\ CapInv' /\ objects' = objects /\ spaces' = spaces
  /\ \E M : /\ Marked(sys, sys', M) /\ descendants(sys, node_for(c, h)) \subseteq M
            /\ validate_node(sys, node_for(c, h), objects) /\ ~validate_node(sys', node_for(c, h), objects)
               => node_for(c, h) \in M

(* Revoke does it. *)
LEMMA RevokeStep ==
  ASSUME CapInv, NEW c \in Spaces, NEW h \in Held(c), Revoke(c, h)
  PROVE  Revokes(c, h)
<1> DEFINE id == node_for(c, h)
           below == descendants(sys, id)
           s1 == revoke_descendants(sys, id)
<1>1. id \in Live(sys)
  BY HeldLive
<1>2. Sound(sys, HeldIds(spaces), None) /\ SpacesType(spaces) /\ objects \subseteq Objects /\ TableType(sys) /\ Forest(sys)
  BY DEF CapInv, Sound
<1>3. Marked(sys, s1, below)
  BY <1>2, RevokeDescendants
<1>4. Sound(s1, HeldIds(spaces), None) /\ TableType(s1) /\ Forest(s1) /\ id \in Live(s1)
  <2>1. Sound(s1, HeldIds(spaces), None)
    <3> HIDE DEF below, s1
    <3> QED
      BY <1>2, <1>3, MarkedSound
  <2> QED
    BY <1>1, <1>3, <2>1 DEF Sound, Marked
<1>5. lineage(sys, id) \cap below = {}
  <2>1. PICK rank, top : Ranked(sys, rank, top)
    BY <1>2 DEF Forest
  <2>2. ASSUME NEW a \in lineage(sys, id), a \in below PROVE FALSE
    <3>1. a \in Live(sys) /\ rank[a] <= rank[id]
      BY <1>1, <1>2, <2>1, LineageRanks
    <3>2. rank[id] < rank[a]
      BY <1>1, <1>2, <2>1, <2>2, DescendantsRanks
    <3>3. rank[a] \in Nat /\ rank[id] \in Nat
      BY <1>1, <2>1, <3>1 DEF Ranked
    <3> QED
      BY <3>1, <3>2, <3>3
  <2> QED
    BY <2>2
<1>6. validate_node(s1, id, objects) <=> validate_node(sys, id, objects)
  <2> HIDE DEF below, s1
  <2> QED
    BY <1>1, <1>2, <1>3, <1>4, <1>5, MarkedValid
<1>7. sys' = s1 \/ sys' = [s1 EXCEPT !.node[id[1]].revoked = TRUE]
  BY DEF Revoke
<1>8. spaces' = spaces /\ objects' = objects
  BY DEF Revoke
<1> HIDE DEF s1, below, id
<1>9. CASE sys' = s1
  <2>1. CapInv'
    BY <1>2, <1>4, <1>8, <1>9 DEF CapInv
  <2>2. Marked(sys, sys', below)
    BY <1>3, <1>9
  <2>3. validate_node(sys, id, objects) => validate_node(sys', id, objects)
    BY <1>6, <1>9
  <2> QED
    BY <1>8, <2>1, <2>2, <2>3 DEF Revokes, below, id
<1>10. CASE sys' = [s1 EXCEPT !.node[id[1]].revoked = TRUE]
  <2>1. Marked(s1, sys', {id})
    BY <1>4, <1>10, RevokeOne
  <2>2. Marked(sys, sys', below \cup {id})
    BY <1>3, <2>1, MarkedTwice
  <2>3. Sound(sys', HeldIds(spaces), None)
    BY <1>4, <2>1, MarkedSound
  <2>4. CapInv'
    BY <1>2, <1>8, <2>3 DEF CapInv
  <2>5. below \subseteq below \cup {id} /\ id \in below \cup {id}
    OBVIOUS
  <2> QED
    BY <1>8, <2>2, <2>4, <2>5 DEF Revokes, below, id
<1> QED
  BY <1>7, <1>9, <1>10

(* An origin that passes lookup is a live node with a live object. *)
LEMMA UsableObject ==
  ASSUME CapInv, NEW c \in Spaces, NEW h \in Held(c), Usable(c, h)
  PROVE  node_for(c, h) \in Live(sys) /\ sys.node[node_for(c, h)[1]].object \in Objects
<1>1. node_for(c, h) \in Live(sys) /\ node_for(c, h) = spaces[c].node[h[1]]
  BY HeldLive
<1>2. validate_node(sys, node_for(c, h), objects)
  BY <1>1 DEF Usable, lookup_in
<1> QED
  BY <1>1, <1>2 DEF validate_node, CapInv

(* Every step is an insertion below a live node or none, a deletion, a     *)
(* revocation, or the destruction of an object.                            *)
LEMMA Steps ==
  ASSUME CapInv, CapNext
  PROVE  \/ \E c \in Spaces : Inserts(c, None)
         \/ \E c, d \in Spaces : \E h \in Held(c) : Usable(c, h) /\ Inserts(d, node_for(c, h))
         \/ \E c \in Spaces : \E h \in Held(c) : Deletes(c, h) \/ Revokes(c, h)
         \/ CapInv' /\ sys' = sys /\ spaces' = spaces /\ objects' \subseteq objects
<1>1. ASSUME NEW o \in Objects, Destroy(o)
      PROVE  CapInv' /\ sys' = sys /\ spaces' = spaces /\ objects' \subseteq objects
  BY <1>1 DEF Destroy, CapInv
<1>2. ASSUME NEW c \in Spaces, NEW o \in Objects, NEW r \in SUBSET Rights, InsertRoot(c, o, r)
      PROVE  Inserts(c, None)
  BY <1>2, InsertStep DEF InsertRoot
<1>3. ASSUME NEW c \in Spaces, NEW h \in Held(c), NEW d \in Spaces, NEW r \in SUBSET Rights, Derive(c, h, d, r)
      PROVE  Usable(c, h) /\ Inserts(d, node_for(c, h))
  <2>1. Usable(c, h)
    BY <1>3 DEF Derive
  <2>2. node_for(c, h) \in Live(sys) /\ sys.node[node_for(c, h)[1]].object \in Objects
    BY <2>1, UsableObject
  <2> QED
    BY <1>3, <2>1, <2>2, InsertStep DEF Derive
<1>4. ASSUME NEW c \in Spaces, NEW h \in Held(c), NEW d \in Spaces, NEW r \in SUBSET Rights, NEW o \in Objects,
             InsertDescendant(c, h, d, o, r)
      PROVE  Usable(c, h) /\ Inserts(d, node_for(c, h))
  <2>1. Usable(c, h) /\ node_for(c, h) \in Live(sys)
    BY <1>4, HeldLive DEF InsertDescendant
  <2> QED
    BY <1>4, <2>1, InsertStep DEF InsertDescendant
<1>5. ASSUME NEW c \in Spaces, NEW h \in Held(c), Delete(c, h) \/ Revoke(c, h)
      PROVE  Deletes(c, h) \/ Revokes(c, h)
  BY <1>5, DeleteStep, RevokeStep
<1> QED
  BY <1>1, <1>2, <1>3, <1>4, <1>5 DEF CapNext

(* The empty tables satisfy it. *)
LEMMA InitCap ==
  ASSUME CapInit
  PROVE  CapInv
<1> DEFINE s == sys
<1>1. Nodes \in Nat \ {0} /\ Slots \in Nat \ {0} /\ MaxGeneration \in Nat \ {0}
  BY CapabilityAssumption
<1>2. FreeNode \in NodeType /\ FreeNode.live = FALSE
  BY DEF FreeNode, NodeType
<1>3. /\ s = [node |-> [i \in 1..Nodes |-> FreeNode], generation |-> [i \in 1..Nodes |-> 1],
              free |-> [i \in 1..Nodes |-> i]]
      /\ spaces = [c \in Spaces |-> [node |-> [i \in 1..Slots |-> None], generation |-> [i \in 1..Slots |-> 1],
                                     free |-> [i \in 1..Slots |-> i]]]
      /\ objects = Objects
  BY DEF CapInit
<1>4. [i \in 1..Nodes |-> i] \in Seq(1..Nodes) /\ [i \in 1..Slots |-> i] \in Seq(1..Slots)
  BY <1>1
<1>5. s.node = [i \in 1..Nodes |-> FreeNode] /\ s.generation = [i \in 1..Nodes |-> 1] /\ s.free = [i \in 1..Nodes |-> i]
  BY <1>3
<1> HIDE DEF FreeNode
<1>6. TableType(s)
  BY <1>1, <1>2, <1>3, <1>4 DEF TableType
<1>7. \A i \in 1..Nodes : s.node[i].live = FALSE /\ s.free[i] = i
  BY <1>2, <1>5
<1>8. Live(s) = {}
  BY <1>7 DEF Live, names, NodeId
<1>9. FreeList(s)
  BY <1>5, <1>7 DEF FreeList
<1>10. Forest(s)
  <2>1. Ranked(s, [c \in {} |-> 0], 0)
    BY <1>8 DEF Ranked
  <2> QED
    BY <1>8, <2>1 DEF Forest
<1>11. spaces \in [Spaces -> SpaceType]
  BY <1>1, <1>3, <1>4 DEF SpaceType
<1>12. \A c \in Spaces, i \in 1..Slots : spaces[c].node[i] = None
  BY <1>3
<1>13. \A c \in Spaces : SlotList(spaces[c])
  BY <1>3 DEF SlotList
<1>14. SpacesType(spaces)
  BY <1>11, <1>12, <1>13 DEF SpacesType, OneSlot
<1>15. HeldIds(spaces) = {}
  BY <1>12, NoneNotLive DEF HeldIds
<1> QED
  BY ZenonT(30), <1>3, <1>6, <1>8, <1>9, <1>10, <1>14, <1>15 DEF CapInv, Sound

(* Every step keeps it. *)
LEMMA NextCap ==
  ASSUME CapInv, [CapNext]_cvars
  PROVE  CapInv'
<1>1. CASE CapNext
  BY <1>1, Steps DEF Inserts, Deletes, Revokes
<1>2. CASE UNCHANGED cvars
  BY <1>2 DEF cvars, CapInv
<1> QED
  BY <1>1, <1>2

(* ReferencesExact counts the slots that hold a node: none or one. *)
LEMMA HoldersCount ==
  ASSUME SpacesType(spaces), NEW id \in NodeId
  PROVE  Cardinality(Holders(id)) = one(id \in HeldIds(spaces))
<1>1. id # None
  BY NoneNotLive
<1>2. CASE id \in HeldIds(spaces)
  <2>1. PICK c \in Spaces, i \in 1..Slots : spaces[c].node[i] = id
    BY <1>2 DEF HeldIds
  <2>2. \A d \in Spaces, j \in 1..Slots : spaces[d].node[j] = id => d = c /\ j = i
    BY <1>1, <2>1 DEF SpacesType, OneSlot
  <2>3. Holders(id) = {<<c, i>>}
    BY <2>1, <2>2 DEF Holders
  <2> QED
    BY <1>2, <2>3, FS_Singleton DEF one
<1>3. CASE id \notin HeldIds(spaces)
  <2>1. Holders(id) = {}
    BY <1>3 DEF Holders, HeldIds
  <2> QED
    BY <1>3, <2>1, FS_EmptySet DEF one
<1> QED
  BY <1>2, <1>3

(* The invariant says what TreeLinked and ReferencesExact say. *)
LEMMA CapImplies ==
  ASSUME CapInv
  PROVE  TreeLinked /\ ReferencesExact
<1>1. Sound(sys, HeldIds(spaces), None) /\ SpacesType(spaces) /\ TableType(sys) /\ Forest(sys)
  BY DEF CapInv, Sound
<1>2. LiveIds = Live(sys) /\ Live(sys) \subseteq NodeId
  BY DEF LiveIds, Live
<1>3. \A p : {c \in LiveIds : sys.node[c[1]].parent = p} = Kids(sys, p)
  BY <1>2 DEF Kids, par
<1>4. None \notin Live(sys)
  BY NoneNotLive
<1>5. ASSUME NEW id \in Live(sys)
      PROVE  /\ children(sys, id) = Kids(sys, id)
             /\ fst(sys, id) \in Live(sys) \cup {None} /\ nxt(sys, id) \in Live(sys) \cup {None}
             /\ par(sys, id) \in Live(sys) \cup {None}
  <2>1. children(sys, id) = Kids(sys, id)
    BY <1>1, ChildrenExact
  <2> QED
    BY <1>1, <2>1 DEF Forest, Kids
<1>6. TreeLinked
  BY ZenonT(30), <1>2, <1>3, <1>5 DEF TreeLinked, fst, nxt
<1>7. ASSUME NEW id \in Live(sys)
      PROVE  /\ Cardinality(Holders(id)) <= 1
             /\ refs(sys, id) = Cardinality(Holders(id)) + Cardinality(Kids(sys, id))
             /\ refs(sys, id) > 0
  <2>1. Cardinality(Holders(id)) = one(id \in HeldIds(spaces))
    BY <1>1, <1>2, HoldersCount
  <2>2. refs(sys, id) = Cardinality(Kids(sys, id)) + one(id \in HeldIds(spaces)) + one(id = None) /\ refs(sys, id) > 0
    BY <1>1 DEF Sound
  <2>3. one(id = None) = 0 /\ one(id \in HeldIds(spaces)) \in 0..1 /\ Cardinality(Kids(sys, id)) \in Nat
    BY <1>4, LiveFinite DEF one
  <2> QED
    BY <2>1, <2>2, <2>3
<1>8. ASSUME NEW c \in Spaces, NEW i \in 1..Slots PROVE spaces[c].node[i] \in Live(sys) \cup {None}
  <2>1. spaces[c].node[i] \in NodeId \cup {None}
    BY <1>1 DEF SpacesType, SpaceType
  <2> QED
    BY <1>1, <2>1 DEF Sound, HeldIds
<1>9. ReferencesExact
  BY ZenonT(30), <1>2, <1>3, <1>5, <1>7, <1>8 DEF ReferencesExact, refs, par
<1> QED
  BY <1>6, <1>9

(* What an insertion leaves of the slots *)
LEMMA InsertKeeps ==
  ASSUME CapInv, NEW e \in Spaces, NEW p, Inserts(e, p), NEW i, i = Head(spaces[e].free)
  PROVE  /\ i \in 1..Slots /\ spaces[e].node[i] = None /\ spaces'[e].node[i] = NewId(sys)
         /\ \A d \in Spaces, j \in 1..Slots :
              /\ spaces'[d].generation[j] = spaces[d].generation[j]
              /\ <<d, j>> # <<e, i>> => spaces'[d].node[j] = spaces[d].node[j]
<1> DEFINE x == NewId(sys)
<1>1. spaces[e].free # <<>> /\ spaces' = inserted(spaces, e, x) /\ x \in NodeId /\ x \notin Live(sys)
  BY DEF Inserts
<1>2. spaces \in [Spaces -> SpaceType] /\ SpacesType(spaces) /\ x \notin HeldIds(spaces)
  BY <1>1 DEF CapInv, SpacesType, Sound
<1> HIDE DEF x
<1>3. spaces[e].node[i] = None
  BY <1>1, <1>2, InsertSpaces
<1>4. /\ i \in 1..Slots /\ spaces'[e].generation = spaces[e].generation /\ spaces'[e].node[i] = x
      /\ \A j \in 1..Slots : j # i => spaces'[e].node[j] = spaces[e].node[j]
  BY <1>1, <1>2, InsertSlot
<1>5. \A d \in Spaces : d # e => spaces'[d] = spaces[d]
  BY <1>1, <1>2, InsertSlot
<1>6. ASSUME NEW d \in Spaces, NEW j \in 1..Slots
      PROVE  /\ spaces'[d].generation[j] = spaces[d].generation[j]
             /\ <<d, j>> # <<e, i>> => spaces'[d].node[j] = spaces[d].node[j]
  BY <1>4, <1>5
<1> QED
  BY <1>3, <1>4, <1>6 DEF x

(* What a deletion leaves of them *)
LEMMA DeleteKeeps ==
  ASSUME CapInv, NEW e \in Spaces, NEW k \in Held(e), Deletes(e, k)
  PROVE  /\ spaces'[e].node[k[1]] = None /\ spaces'[e].generation[k[1]] = spaces[e].generation[k[1]] + 1
         /\ \A d \in Spaces, j \in 1..Slots : <<d, j>> # <<e, k[1]>> =>
              /\ spaces'[d].generation[j] = spaces[d].generation[j]
              /\ spaces'[d].node[j] = spaces[d].node[j]
<1> DEFINE i == k[1]
<1>1. i \in 1..Slots /\ spaces[e].generation[i] < MaxGeneration /\ spaces' = removed(spaces, e, i)
  BY HeldLive DEF Deletes
<1>2. spaces \in [Spaces -> SpaceType]
  BY DEF CapInv, SpacesType
<1> HIDE DEF i
<1>3. OthersSame(spaces, spaces', e, i) /\ spaces'[e].node[i] = None
      /\ spaces'[e].generation[i] = spaces[e].generation[i] + 1
  <2> DEFINE U == removed(spaces, e, i)
  <2>1. OthersSame(spaces, U, e, i)
    BY <1>1, <1>2, RemoveSlot
  <2>2. Emptied(spaces, U, e, i)
    BY <1>1, <1>2, RemoveSlot
  <2> HIDE DEF U
  <2>3. spaces' = U
    BY <1>1 DEF U
  <2> QED
    BY <2>1, <2>2, <2>3 DEF Emptied
<1>4. ASSUME NEW d \in Spaces, NEW j \in 1..Slots, <<d, j>> # <<e, i>>
      PROVE  /\ spaces'[d].generation[j] = spaces[d].generation[j]
             /\ spaces'[d].node[j] = spaces[d].node[j]
  BY <1>3, <1>4 DEF OthersSame
<1> QED
  BY <1>3, <1>4 DEF i

(* After a deletion a handle whose slot is left alone is usable as before. *)
LEMMA DeleteSame ==
  ASSUME CapInv, NEW e \in Spaces, NEW k \in Held(e), Deletes(e, k), NEW d \in Spaces, NEW g \in Handles,
         <<d, g[1]>> # <<e, k[1]>>
  PROVE  Usable(d, g) <=> lookup_in(sys', spaces'[d], objects', g)
<1>1. CapInv' /\ objects' = objects /\ Kept(sys, sys')
  BY DEF Deletes
<1>2. g[1] \in 1..Slots
  BY DEF Handles
<1>3. spaces'[d].generation[g[1]] = spaces[d].generation[g[1]] /\ spaces'[d].node[g[1]] = spaces[d].node[g[1]]
  BY ZenonT(30), <1>2, DeleteKeeps
<1> DEFINE x == spaces[d].node[g[1]]
<1>4. ASSUME x # None PROVE validate_node(sys, x, objects) <=> validate_node(sys', x, objects)
  <2>1. x \in NodeId
    BY ZenonT(30), <1>2, <1>4 DEF CapInv, SpacesType, SpaceType
  <2>2. x \in HeldIds(spaces')
    BY <1>2, <1>3, <2>1 DEF HeldIds
  <2>3. x \in Live(sys') /\ Forest(sys') /\ Forest(sys)
    BY <1>1, <2>2 DEF CapInv, Sound
  <2>4. Extends(sys', sys)
    BY <1>1 DEF Kept, Extends
  <2> HIDE DEF x
  <2> QED
    BY <2>3, <2>4, ExtendedValid
<1> QED
  BY <1>1, <1>3, <1>4 DEF Usable, lookup_in

(* DeleteSparesOthers for one handle *)
LEMMA DeleteSpares ==
  ASSUME CapInv, CapNext, NEW c \in Spaces, NEW h \in Held(c), node_for(c, h)' = None,
         NEW d \in Spaces, NEW g \in Handles, <<d, g>> # <<c, h>>
  PROVE  Usable(d, g) <=> lookup_in(sys', spaces'[d], objects', g)
<1>1. h[1] \in 1..Slots /\ h = <<h[1], h[2]>> /\ spaces[c].generation[h[1]] = h[2] /\ spaces[c].node[h[1]] # None
      /\ h[2] \in Nat
  BY HeldLive
<1>2. ~(spaces'[c].generation[h[1]] = spaces[c].generation[h[1]] /\ spaces'[c].node[h[1]] = spaces[c].node[h[1]])
  BY <1>1 DEF node_for
<1>3. ASSUME NEW e \in Spaces, NEW p, Inserts(e, p) PROVE FALSE
  <2> DEFINE i == Head(spaces[e].free)
  <2>1. spaces[e].node[i] = None
    BY ZenonT(30), <1>3, InsertKeeps
  <2>2. \A a \in Spaces, j \in 1..Slots :
          /\ spaces'[a].generation[j] = spaces[a].generation[j]
          /\ <<a, j>> # <<e, i>> => spaces'[a].node[j] = spaces[a].node[j]
    BY <1>3, InsertKeeps
  <2>3. <<c, h[1]>> # <<e, i>>
    BY <1>1, <2>1
  <2> QED
    BY ZenonT(30), <1>1, <1>2, <2>2, <2>3
<1>4. ASSUME NEW e \in Spaces, NEW k \in Held(e), Deletes(e, k)
      PROVE  Usable(d, g) <=> lookup_in(sys', spaces'[d], objects', g)
  <2>1. \A a \in Spaces, j \in 1..Slots : <<a, j>> # <<e, k[1]>> =>
          spaces'[a].generation[j] = spaces[a].generation[j] /\ spaces'[a].node[j] = spaces[a].node[j]
    BY ZenonT(30), <1>4, DeleteKeeps
  <2>2. <<c, h[1]>> = <<e, k[1]>>
    BY <1>1, <1>2, <2>1
  <2>3. CASE <<d, g[1]>> # <<e, k[1]>>
    BY <1>4, <2>3, DeleteSame
  <2>4. CASE <<d, g[1]>> = <<e, k[1]>>
    <3>1. d = c /\ g[1] = h[1] /\ d = e /\ g[1] = k[1]
      BY <2>2, <2>4
    <3>2. g = <<g[1], g[2]>>
      BY DEF Handles
    <3>3. g[2] # h[2]
      BY <1>1, <3>1, <3>2
    <3>4. ~Usable(d, g)
      BY <1>1, <3>1, <3>3 DEF Usable, lookup_in
    <3>5. spaces'[e].node[k[1]] = None
      BY ZenonT(30), <1>4, DeleteKeeps
    <3>6. ~lookup_in(sys', spaces'[d], objects', g)
      BY <3>1, <3>5 DEF lookup_in
    <3> QED
      BY <3>4, <3>6
  <2> QED
    BY <2>3, <2>4
<1>5. ASSUME spaces' = spaces PROVE FALSE
  BY ZenonT(30), <1>2, <1>5
<1> QED
  BY <1>3, <1>4, <1>5, Steps DEF Revokes

(* CapInv holds in every reachable state. *)
LEMMA CapAlways == CapSpec => []CapInv
<1>1. CapInit => CapInv
  BY InitCap
<1>2. CapInv /\ [CapNext]_cvars => CapInv'
  BY NextCap
<1> QED
  BY <1>1, <1>2, PTL DEF CapSpec

(* The intrusive lists of capability.rs are the tree: whatever is          *)
(* inserted, derived, deleted and revoked, and however nodes are reused,   *)
(* the sibling list of every live node holds exactly the nodes that name   *)
(* it as parent, and no link leads to a freed node.                        *)
THEOREM TreeAlwaysLinked == CapSpec => []TreeLinked
<1>1. CapInv => TreeLinked
  BY CapImplies
<1> QED
  BY <1>1, CapAlways, PTL

(* The reference count of a node is its slot plus its children, so that    *)
(* release_node frees a node exactly when neither is left, and no parent   *)
(* or slot ever names a freed node.                                        *)
THEOREM CountsExact == CapSpec => []ReferencesExact
<1>1. CapInv => ReferencesExact
  BY CapImplies
<1> QED
  BY <1>1, CapAlways, PTL

(* ADR 0007: delete leaves every other handle as usable as it was, those   *)
(* derived from the deleted one included.                                  *)
THEOREM DeletionSparesOthers == CapSpec => DeleteSparesOthers
<1>1. CapInv /\ [CapNext]_cvars =>
        [\A c \in Spaces : \A h \in Held(c) : node_for(c, h)' = None =>
           \A s \in {sys'}, t \in {spaces'}, a \in {objects'} :
             \A d \in Spaces, g \in Handles :
               <<d, g>> # <<c, h>> => (Usable(d, g) = lookup_in(s, t[d], a, g))]_cvars
  <2> SUFFICES ASSUME CapInv, CapNext, NEW c \in Spaces, NEW h \in Held(c), node_for(c, h)' = None,
                      NEW d \in Spaces, NEW g \in Handles, <<d, g>> # <<c, h>>
               PROVE  Usable(d, g) = lookup_in(sys', spaces'[d], objects', g)
    BY ZenonT(30)
  <2>1. Usable(d, g) <=> lookup_in(sys', spaces'[d], objects', g)
    BY DeleteSpares
  <2>2. Usable(d, g) \in BOOLEAN /\ lookup_in(sys', spaces'[d], objects', g) \in BOOLEAN
    BY DEF Usable, lookup_in
  <2> QED
    BY <2>1, <2>2
<1> QED
  BY <1>1, CapAlways, PTL DEF CapSpec, DeleteSparesOthers
-----------------------------------------------------------------------------
(* The history of handles *)

(* The slot of q still holds it; it was given to a later handle; either. *)
In(q) == spaces[q[1]].generation[q[2][1]] = q[2][2] /\ spaces[q[1]].node[q[2][1]] # None
Past(q) == spaces[q[1]].generation[q[2][1]] > q[2][2]
Known(q) == In(q) \/ Past(q)
nd(q) == spaces[q[1]].node[q[2][1]]

(* A handle stays known; what is derived from q has q's node on its        *)
(* lineage; and what is derived from a revoked handle is marked, even if   *)
(* the nodes in between are long freed.                                    *)
HistoryInv ==
  /\ origins \in [All -> SUBSET All] /\ revoked \subseteq All /\ gone \subseteq All
  /\ \A q \in All : (In(q) => q \in origins[q]) /\ \A r \in origins[q] : Known(r)
  /\ \A q \in gone : Known(q) /\ ~Valid(q)
  /\ \A q \in revoked : Known(q)
  /\ \A p, q \in All : In(p) /\ In(q) /\ q \in origins[p] => nd(q) \in lineage(sys, nd(p))
  /\ \A p \in All : \A q \in revoked : In(p) /\ q \in origins[p] => flag(sys, nd(p))

(* Handles as pairs *)
LEMMA AllParts ==
  ASSUME CapInv, NEW q \in All
  PROVE  /\ q[1] \in Spaces /\ q[2] \in Handles /\ q[2][1] \in 1..Slots /\ q[2][2] \in 1..MaxGeneration
         /\ q = <<q[1], q[2]>> /\ q[2] = <<q[2][1], q[2][2]>>
         /\ spaces[q[1]].generation[q[2][1]] \in Nat /\ nd(q) \in NodeId \cup {None}
         /\ (In(q) <=> q \in AllHeld) /\ (In(q) <=> q[2] \in Held(q[1]))
         /\ In(q) => nd(q) \in Live(sys) /\ nd(q) = node_for(q[1], q[2])
         /\ (Valid(q) <=> In(q) /\ validate_node(sys, nd(q), objects))
         /\ (Past(q) => ~In(q))
<1>1. /\ q[1] \in Spaces /\ q[2] \in Handles /\ q[2][1] \in 1..Slots /\ q[2][2] \in 1..MaxGeneration
      /\ q = <<q[1], q[2]>> /\ q[2] = <<q[2][1], q[2][2]>>
  BY DEF All, Handles
<1>2. spaces[q[1]] \in SpaceType
  BY <1>1 DEF CapInv, SpacesType
<1>3. spaces[q[1]].generation[q[2][1]] \in Nat /\ nd(q) \in NodeId \cup {None}
  <2>1. /\ spaces[q[1]].generation \in [1..Slots -> 1..MaxGeneration]
        /\ spaces[q[1]].node \in [1..Slots -> NodeId \cup {None}]
    BY <1>2 DEF SpaceType
  <2>2. spaces[q[1]].generation[q[2][1]] \in 1..MaxGeneration
    BY <1>1, <2>1
  <2>3. spaces[q[1]].node[q[2][1]] \in NodeId \cup {None}
    BY ZenonT(30), <1>1, <2>1
  <2>4. 1..MaxGeneration \subseteq Nat
    BY CapabilityAssumption
  <2> QED
    BY ZenonT(30), <2>2, <2>3, <2>4 DEF nd
<1>4. In(q) <=> q[2] \in Held(q[1])
  BY <1>1 DEF In, Held, node_for
<1>5. In(q) <=> q \in AllHeld
  BY <1>1, <1>4 DEF AllHeld
<1>6. In(q) => nd(q) \in Live(sys) /\ nd(q) = node_for(q[1], q[2])
  BY ZenonT(30), <1>1, <1>4, HeldLive DEF nd
<1>7. Valid(q) <=> In(q) /\ validate_node(sys, nd(q), objects)
  BY DEF Valid, Usable, lookup_in, In, nd
<1>8. Past(q) => ~In(q)
  BY <1>1, <1>3 DEF Past, In
<1> QED
  BY <1>1, <1>3, <1>4, <1>5, <1>6, <1>7, <1>8

(* The handle an insertion returns is new. *)
LEMMA IssuedNew ==
  ASSUME CapInv, NEW e \in Spaces, NEW p, Inserts(e, p), NEW r, r = Issued(e)
  PROVE  /\ r \in All /\ ~Known(r) /\ In(r)' /\ nd(r)' = NewId(sys)
         /\ \A q \in All : /\ Past(q) => Past(q)'
                           /\ q # r => (In(q)' <=> In(q))
                           /\ In(q) => nd(q)' = nd(q)
<1> DEFINE i == Head(spaces[e].free)
<1>1. r = <<e, <<i, spaces[e].generation[i]>>>>
  BY DEF Issued
<1>2. i \in 1..Slots /\ spaces[e].node[i] = None /\ spaces'[e].node[i] = NewId(sys)
  BY ZenonT(30), InsertKeeps
<1>3. \A d \in Spaces, j \in 1..Slots :
        /\ spaces'[d].generation[j] = spaces[d].generation[j]
        /\ <<d, j>> # <<e, i>> => spaces'[d].node[j] = spaces[d].node[j]
  BY InsertKeeps
<1>4. spaces[e].generation[i] \in 1..MaxGeneration
  BY <1>2 DEF CapInv, SpacesType, SpaceType
<1>5. NewId(sys) # None
  BY NoneNotLive DEF Inserts
<1> HIDE DEF i
<1>6. r \in All
  BY <1>1, <1>2, <1>4 DEF All, Handles
<1>7. ~In(r) /\ ~Past(r)
  BY <1>1, <1>2, <1>4 DEF In, Past
<1>8. spaces'[e].generation[i] = spaces[e].generation[i]
  BY <1>2, <1>3
<1>9. spaces'[r[1]].generation[r[2][1]] = r[2][2] /\ spaces'[r[1]].node[r[2][1]] = NewId(sys)
  BY <1>1, <1>2, <1>8
<1>10. ASSUME NEW q \in All
       PROVE  /\ Past(q) => Past(q)'
              /\ q # r => (In(q)' <=> In(q))
              /\ In(q) => nd(q)' = nd(q)
  <2>1. /\ q[1] \in Spaces /\ q[2][1] \in 1..Slots /\ q = <<q[1], q[2]>> /\ q[2] = <<q[2][1], q[2][2]>>
    BY AllParts
  <2>2. spaces'[q[1]].generation[q[2][1]] = spaces[q[1]].generation[q[2][1]]
    BY <1>3, <2>1
  <2>3. Past(q) => Past(q)'
    BY <2>2 DEF Past
  <2>4. CASE <<q[1], q[2][1]>> # <<e, i>>
    <3>1. spaces'[q[1]].node[q[2][1]] = spaces[q[1]].node[q[2][1]]
      BY ZenonT(30), <1>3, <2>1, <2>4
    <3> QED
      BY <2>2, <2>3, <3>1 DEF In, nd
  <2>5. CASE <<q[1], q[2][1]>> = <<e, i>>
    <3>1. q[1] = e /\ q[2][1] = i
      BY <2>5
    <3>2. ~In(q)
      BY <1>2, <3>1 DEF In
    <3>3. ASSUME q # r PROVE ~In(q)'
      <4>1. q[2][2] # spaces[e].generation[i]
        BY ZenonT(30), <1>1, <2>1, <3>1, <3>3
      <4> QED
        BY <2>2, <3>1, <4>1 DEF In
    <3> QED
      BY <2>3, <3>2, <3>3
  <2> QED
    BY <2>3, <2>4, <2>5
<1>11. In(r)' /\ nd(r)' = NewId(sys)
  BY <1>5, <1>9 DEF In, nd
<1> QED
  BY <1>6, <1>7, <1>10, <1>11 DEF Known

(* A deletion ends one handle and leaves the others where they are. *)
LEMMA DeletedPast ==
  ASSUME CapInv, NEW e \in Spaces, NEW k \in Held(e), Deletes(e, k), NEW q \in All
  PROVE  /\ Known(q) => Known(q)'
         /\ In(q)' => In(q) /\ nd(q)' = nd(q) /\ (Valid(q)' <=> Valid(q))
<1>1. /\ q[1] \in Spaces /\ q[2] \in Handles /\ q[2][1] \in 1..Slots /\ q[2][2] \in 1..MaxGeneration
      /\ spaces[q[1]].generation[q[2][1]] \in Nat
  BY AllParts
<1>2. \A d \in Spaces, j \in 1..Slots : <<d, j>> # <<e, k[1]>> =>
        spaces'[d].generation[j] = spaces[d].generation[j] /\ spaces'[d].node[j] = spaces[d].node[j]
  BY DeleteKeeps
<1>3. spaces'[e].node[k[1]] = None /\ spaces'[e].generation[k[1]] = spaces[e].generation[k[1]] + 1
  BY ZenonT(30), DeleteKeeps
<1>4. CASE <<q[1], q[2][1]>> # <<e, k[1]>>
  <2>1. spaces'[q[1]].generation[q[2][1]] = spaces[q[1]].generation[q[2][1]]
        /\ spaces'[q[1]].node[q[2][1]] = spaces[q[1]].node[q[2][1]]
    BY <1>1, <1>2, <1>4
  <2>2. Usable(q[1], q[2]) <=> lookup_in(sys', spaces'[q[1]], objects', q[2])
    BY <1>1, <1>4, DeleteSame
  <2>3. (In(q)' <=> In(q)) /\ (Past(q)' <=> Past(q)) /\ nd(q)' = nd(q)
    BY <2>1 DEF In, Past, nd
  <2>4. Valid(q)' <=> Valid(q)
    BY <2>2 DEF Valid, Usable
  <2> QED
    BY <2>3, <2>4 DEF Known
<1>5. CASE <<q[1], q[2][1]>> = <<e, k[1]>>
  <2>1. q[1] = e /\ q[2][1] = k[1]
    BY <1>5
  <2>2. ~In(q)'
    BY <1>3, <2>1 DEF In
  <2>3. Known(q) => Past(q)'
    BY <1>1, <1>3, <2>1 DEF Known, In, Past
  <2> QED
    BY <2>2, <2>3 DEF Known
<1> QED
  BY <1>4, <1>5

(* A handle that an insertion, a revocation or a destruction finds invalid *)
(* it leaves invalid.                                                      *)
LEMMA InsertedInvalid ==
  ASSUME CapInv, NEW e \in Spaces, NEW p, Inserts(e, p), NEW q \in All, Known(q)
  PROVE  /\ Known(q)' /\ (~Valid(q) => ~Valid(q)')
         /\ In(q) => nd(q)' = nd(q) /\ lineage(sys', nd(q)) = lineage(sys, nd(q))
                     /\ (flag(sys', nd(q)) <=> flag(sys, nd(q)))
<1> DEFINE r == Issued(e)
<1>1. \A r1 : r1 = r => /\ ~Known(r1)
                        /\ \A x \in All : /\ Past(x) => Past(x)'
                                          /\ x # r1 => (In(x)' <=> In(x))
                                          /\ In(x) => nd(x)' = nd(x)
  BY IssuedNew
<1>2. q # r
  BY <1>1
<1>3. (Past(q) => Past(q)') /\ (In(q)' <=> In(q)) /\ (In(q) => nd(q)' = nd(q))
  <2> HIDE DEF r
  <2> QED
    BY <1>1, <1>2
<1>4. Known(q)'
  BY <1>3 DEF Known
<1>5. CapInv' /\ objects' = objects /\ Extends(sys, sys')
  BY DEF Inserts
<1>6. Forest(sys) /\ Forest(sys')
  BY <1>5 DEF CapInv, Sound
<1>7. ASSUME In(q)
      PROVE  /\ lineage(sys', nd(q)) = lineage(sys, nd(q)) /\ (flag(sys', nd(q)) <=> flag(sys, nd(q)))
             /\ validate_node(sys, nd(q), objects) <=> validate_node(sys', nd(q), objects)
  <2> DEFINE x == nd(q)
  <2>1. x \in Live(sys)
    BY <1>7, AllParts
  <2> HIDE DEF x
  <2>2. lineage(sys', x) = lineage(sys, x)
    BY <1>5, <1>6, <2>1, ExtendedLineage
  <2>3. validate_node(sys, x, objects) <=> validate_node(sys', x, objects)
    BY ZenonT(30), <1>5, <1>6, <2>1, ExtendedValid
  <2>4. flag(sys', x) <=> flag(sys, x)
    BY <1>5, <2>1 DEF Extends
  <2> QED
    BY <2>2, <2>3, <2>4 DEF x
<1>8. ~Valid(q) => ~Valid(q)'
  <2>1. Valid(q) <=> In(q) /\ validate_node(sys, nd(q), objects)
    BY DEF Valid, Usable, lookup_in, In, nd
  <2>2. Valid(q)' <=> In(q)' /\ validate_node(sys', nd(q)', objects')
    BY DEF Valid, Usable, lookup_in, In, nd
  <2> QED
    BY ZenonT(30), <1>3, <1>5, <1>7, <2>1, <2>2
<1> QED
  BY ZenonT(30), <1>3, <1>4, <1>7, <1>8

(* A revocation moves no handle and makes none valid. *)
LEMMA RevokedInvalid ==
  ASSUME CapInv, NEW c \in Spaces, NEW h \in Held(c), Revokes(c, h), NEW q \in All
  PROVE  /\ (In(q)' <=> In(q)) /\ (Known(q)' <=> Known(q)) /\ nd(q)' = nd(q)
         /\ (Valid(q)' => Valid(q))
         /\ In(q) => lineage(sys', nd(q)) = lineage(sys, nd(q)) /\ (flag(sys, nd(q)) => flag(sys', nd(q)))
<1>1. CapInv' /\ objects' = objects /\ spaces' = spaces
  BY DEF Revokes
<1>2. PICK M : Marked(sys, sys', M)
  BY DEF Revokes
<1>3. Forest(sys) /\ Forest(sys')
  BY <1>1 DEF CapInv, Sound
<1>4. (In(q)' <=> In(q)) /\ (Known(q)' <=> Known(q)) /\ nd(q)' = nd(q)
  BY <1>1 DEF In, Known, Past, nd
<1>5. ASSUME In(q)
      PROVE  /\ lineage(sys', nd(q)) = lineage(sys, nd(q)) /\ (flag(sys, nd(q)) => flag(sys', nd(q)))
             /\ validate_node(sys', nd(q), objects) => validate_node(sys, nd(q), objects)
  <2> DEFINE x == nd(q)
  <2>1. x \in Live(sys)
    BY <1>5, AllParts
  <2> HIDE DEF x
  <2>2. lineage(sys', x) = lineage(sys, x)
    BY <1>2, <1>3, <2>1, MarkedLineage
  <2>3. validate_node(sys', x, objects) => validate_node(sys, x, objects)
    BY <1>2, <1>3, <2>1, MarkedValid
  <2>4. flag(sys, x) => flag(sys', x)
    BY <1>2, <2>1 DEF Marked
  <2> QED
    BY <2>2, <2>3, <2>4 DEF x
<1>6. Valid(q)' => Valid(q)
  <2>1. Valid(q) <=> In(q) /\ validate_node(sys, nd(q), objects)
    BY DEF Valid, Usable, lookup_in, In, nd
  <2>2. Valid(q)' <=> In(q)' /\ validate_node(sys', nd(q)', objects')
    BY DEF Valid, Usable, lookup_in, In, nd
  <2> QED
    BY <1>1, <1>4, <1>5, <2>1, <2>2
<1> QED
  BY <1>4, <1>5, <1>6

(* Revoking q marks everything derived from it: the nodes below it, and    *)
(* its own when q stops being valid.                                       *)
LEMMA RevokeReaches ==
  ASSUME CapInv, NEW c \in Spaces, NEW h \in Held(c), Revokes(c, h), NEW q \in All, q = <<c, h>>,
         Valid(q), ~Valid(q)', NEW p \in All, In(p), nd(q) \in lineage(sys, nd(p))
  PROVE  flag(sys', nd(p))
<1> DEFINE x == nd(q)
           y == nd(p)
<1>1. In(q) /\ x = node_for(c, h) /\ x \in Live(sys) /\ y \in Live(sys) /\ validate_node(sys, x, objects)
  BY AllParts
<1>2. objects' = objects /\ spaces' = spaces
  BY DEF Revokes
<1>3. ~validate_node(sys', x, objects)
  <2>1. Valid(q)' <=> In(q)' /\ validate_node(sys', nd(q)', objects')
    BY DEF Valid, Usable, lookup_in, In, nd
  <2>2. In(q)' /\ nd(q)' = nd(q)
    BY <1>1, RevokedInvalid
  <2> QED
    BY <1>2, <2>1, <2>2
<1>4. PICK M : Marked(sys, sys', M) /\ descendants(sys, x) \subseteq M /\ x \in M
  BY <1>1, <1>3 DEF Revokes
<1>5. Forest(sys)
  BY DEF CapInv, Sound
<1> HIDE DEF x, y
<1>6. x \in lineage(sys, y)
  BY DEF x, y
<1>7. y \in M
  <2>1. CASE y = x
    BY <1>4, <2>1
  <2>2. CASE y # x
    <3>1. y \in descendants(sys, x)
      BY ZenonT(30), <1>1, <1>5, <1>6, <2>2, DescendantsReach
    <3> QED
      BY <1>4, <3>1
  <2> QED
    BY <2>1, <2>2
<1>8. flag(sys', y)
  BY <1>1, <1>4, <1>7 DEF Marked
<1> QED
  BY <1>8 DEF y

(* A marked handle is not valid. *)
LEMMA MarkedHandle ==
  ASSUME CapInv, NEW p \in All, In(p), flag(sys, nd(p))
  PROVE  ~Valid(p)
<1>1. nd(p) \in Live(sys) /\ Forest(sys) /\ (Valid(p) <=> In(p) /\ validate_node(sys, nd(p), objects))
  BY AllParts DEF CapInv, Sound
<1>2. nd(p) \in lineage(sys, nd(p))
  BY <1>1, LineageRec
<1>3. validate_node(sys, nd(p), objects) => ~flag(sys, nd(p))
  BY <1>1, <1>2, ValidIff
<1> QED
  BY <1>1, <1>3

(* The handles that stop being valid in a step *)
LEMMA AgesGone ==
  ASSUME CapInv, Ages, gone \subseteq All
  PROVE  /\ gone' = gone \cup {q \in AllHeld : Valid(q) /\ ~lookup_in(sys', spaces'[q[1]], objects', q[2])}
         /\ gone' \subseteq All
         /\ \A q \in All : q \in gone' => q \in gone \/ (In(q) /\ Valid(q) /\ ~Valid(q)')
<1>1. gone' = gone \cup {q \in AllHeld : Valid(q) /\ ~lookup_in(sys', spaces'[q[1]], objects', q[2])}
  BY DEF Ages
<1>2. AllHeld \subseteq All
  BY DEF AllHeld, All, Held
<1>3. \A q \in All : Valid(q)' <=> lookup_in(sys', spaces'[q[1]], objects', q[2])
  BY DEF Valid, Usable
<1>4. \A q \in All : In(q) <=> q \in AllHeld
  BY AllParts
<1> QED
  BY ZenonT(30), <1>1, <1>2, <1>3, <1>4

(* An insertion whose handle descends from those in O keeps the history. *)
LEMMA HistInsert ==
  ASSUME CapInv, HistoryInv, NEW e \in Spaces, NEW p \in Live(sys) \cup {None}, Inserts(e, p), Ages,
         revoked' = revoked, NEW O \in SUBSET All, NEW r, r = Issued(e),
         origins' = [origins EXCEPT ![r] = O \cup {r}],
         \A x \in O : Known(x) /\ x \notin revoked /\ (In(x) => p # None /\ nd(x) \in lineage(sys, p))
  PROVE  HistoryInv'
<1>1. /\ r \in All /\ ~Known(r) /\ In(r)' /\ nd(r)' = NewId(sys)
      /\ \A q \in All : q # r => (In(q)' <=> In(q))
  BY IssuedNew
<1>2. \A q \in All : Known(q) => /\ Known(q)' /\ (~Valid(q) => ~Valid(q)')
                                 /\ In(q) => nd(q)' = nd(q) /\ lineage(sys', nd(q)) = lineage(sys, nd(q))
                                             /\ (flag(sys', nd(q)) <=> flag(sys, nd(q)))
  BY InsertedInvalid
<1>3. origins \in [All -> SUBSET All] /\ revoked \subseteq All /\ gone \subseteq All
  BY DEF HistoryInv
<1>4. /\ \A q \in All : (In(q) => q \in origins[q]) /\ \A x \in origins[q] : Known(x)
      /\ \A q \in gone : Known(q) /\ ~Valid(q)
      /\ \A q \in revoked : Known(q)
  BY DEF HistoryInv
<1>5. \A a, b \in All : In(a) /\ In(b) /\ b \in origins[a] => nd(b) \in lineage(sys, nd(a))
  BY DEF HistoryInv
<1>6. \A a \in All : \A b \in revoked : In(a) /\ b \in origins[a] => flag(sys, nd(a))
  BY DEF HistoryInv
<1>7. /\ gone' \subseteq All
      /\ \A q \in All : q \in gone' => q \in gone \/ (In(q) /\ Valid(q) /\ ~Valid(q)')
  BY <1>3, AgesGone
<1>8. origins' \in [All -> SUBSET All]
  BY <1>1, <1>3
<1>9. origins'[r] = O \cup {r} /\ \A q \in All : q # r => origins'[q] = origins[q]
  BY <1>1, <1>3
<1>10. ASSUME NEW q \in All PROVE (In(q)' => q \in origins'[q]) /\ \A x \in origins'[q] : Known(x)'
  <2>1. In(q)' => q \in origins'[q]
    BY <1>1, <1>4, <1>9
  <2>2. ASSUME NEW x \in origins'[q] PROVE Known(x)'
    <3>1. x = r \/ (x \in All /\ Known(x))
      BY <1>3, <1>4, <1>9
    <3>2. CASE x = r
      BY <1>1, <3>2 DEF Known
    <3> QED
      BY ZenonT(30), <1>2, <3>1, <3>2
  <2> QED
    BY <2>1, <2>2
<1>11. ASSUME NEW q \in gone' PROVE Known(q)' /\ ~Valid(q)'
  <2>1. q \in All /\ Known(q) /\ (~Valid(q) \/ ~Valid(q)')
    BY <1>4, <1>7 DEF Known
  <2> QED
    BY <1>2, <2>1
<1>12. ASSUME NEW q \in revoked' PROVE Known(q)'
  BY <1>2, <1>3, <1>4
<1>13. ASSUME NEW a \in All, NEW b \in All, In(a)', In(b)', b \in origins'[a] PROVE nd(b)' \in lineage(sys', nd(a)')
  <2>1. CASE a # r
    <3>1. In(a) /\ b \in origins[a] /\ Known(b) /\ b # r
      BY ZenonT(30), <1>1, <1>4, <1>9, <1>13, <2>1
    <3>2. In(b)
      BY <1>1, <1>13, <3>1
    <3>3. nd(b) \in lineage(sys, nd(a)) /\ Known(a)
      BY <1>5, <3>1, <3>2 DEF Known
    <3>4. nd(b)' = nd(b) /\ nd(a)' = nd(a) /\ lineage(sys', nd(a)) = lineage(sys, nd(a))
      BY ZenonT(30), <1>2, <3>1, <3>2, <3>3
    <3> QED
      BY <3>3, <3>4
  <2>2. CASE a = r
    <3> DEFINE n == NewId(sys)
    <3>1. /\ nd(a)' = n /\ n \in Live(sys') /\ par(sys', n) = p /\ Extends(sys, sys')
      BY <1>1, <2>2 DEF Inserts
    <3>2. Forest(sys) /\ Forest(sys')
      BY DEF CapInv, Sound, Inserts
    <3> HIDE DEF n
    <3>3. n \in lineage(sys', n) /\ (p # None => lineage(sys', n) = {n} \cup lineage(sys', p))
      BY ZenonT(30), <3>1, <3>2, LineageRec
    <3>4. CASE b = r
      BY <1>1, <2>2, <3>1, <3>3, <3>4
    <3>5. CASE b # r
      <4>1. b \in O /\ In(b) /\ Known(b)
        BY ZenonT(30), <1>1, <1>9, <1>13, <2>2, <3>5 DEF Known
      <4>2. p # None /\ nd(b) \in lineage(sys, p)
        BY <4>1
      <4>3. lineage(sys', p) = lineage(sys, p)
        BY ZenonT(30), <3>1, <3>2, <4>2, ExtendedLineage
      <4>4. nd(b)' = nd(b)
        BY <1>2, <4>1
      <4> QED
        BY ZenonT(30), <3>1, <3>3, <4>2, <4>3, <4>4
    <3> QED
      BY <3>4, <3>5
  <2> QED
    BY <2>1, <2>2
<1>14. ASSUME NEW a \in All, NEW b \in revoked', In(a)', b \in origins'[a] PROVE flag(sys', nd(a)')
  <2>1. b \in revoked /\ b # r
    BY <1>1, <1>4
  <2>2. a # r
    BY <1>9, <1>14, <2>1
  <2>3. In(a) /\ b \in origins[a] /\ Known(a)
    BY <1>1, <1>9, <1>14, <2>2 DEF Known
  <2> QED
    BY ZenonT(30), <1>2, <1>6, <2>1, <2>3
<1> QED
  BY <1>3, <1>7, <1>8, <1>10, <1>11, <1>12, <1>13, <1>14 DEF HistoryInv

(* So does a deletion... *)
LEMMA HistDelete ==
  ASSUME CapInv, HistoryInv, NEW e \in Spaces, NEW k \in Held(e), Deletes(e, k), Ages,
         origins' = origins, revoked' = revoked
  PROVE  HistoryInv'
<1>1. \A q \in All : /\ Known(q) => Known(q)'
                     /\ In(q)' => In(q) /\ nd(q)' = nd(q) /\ (Valid(q)' <=> Valid(q))
  BY DeletedPast
<1>2. \A q \in All : Valid(q)' => In(q)'
  BY DEF Valid, Usable, lookup_in, In
<1>3. origins \in [All -> SUBSET All] /\ revoked \subseteq All /\ gone \subseteq All
  BY DEF HistoryInv
<1>4. /\ \A q \in All : (In(q) => q \in origins[q]) /\ \A x \in origins[q] : Known(x)
      /\ \A q \in gone : Known(q) /\ ~Valid(q)
      /\ \A q \in revoked : Known(q)
  BY DEF HistoryInv
<1>5. \A a, b \in All : In(a) /\ In(b) /\ b \in origins[a] => nd(b) \in lineage(sys, nd(a))
  BY DEF HistoryInv
<1>6. \A a \in All : \A b \in revoked : In(a) /\ b \in origins[a] => flag(sys, nd(a))
  BY DEF HistoryInv
<1>7. /\ gone' \subseteq All
      /\ \A q \in All : q \in gone' => q \in gone \/ (In(q) /\ Valid(q) /\ ~Valid(q)')
  BY <1>3, AgesGone
<1>8. ASSUME NEW q \in gone' PROVE Known(q)' /\ ~Valid(q)'
  <2>1. q \in All /\ Known(q) /\ (~Valid(q) \/ ~Valid(q)')
    BY <1>4, <1>7 DEF Known
  <2> QED
    BY <1>1, <1>2, <2>1
<1>9. ASSUME NEW a \in All, In(a)'
      PROVE  /\ In(a) /\ nd(a)' = nd(a) /\ lineage(sys', nd(a)) = lineage(sys, nd(a))
             /\ flag(sys', nd(a)) = flag(sys, nd(a))
  <2>1. In(a) /\ nd(a)' = nd(a)
    BY <1>1, <1>9
  <2> DEFINE x == nd(a)
  <2>2. x \in NodeId /\ x # None
    BY <2>1, AllParts DEF In, nd
  <2>3. a[1] \in Spaces /\ a[2][1] \in 1..Slots /\ spaces'[a[1]].node[a[2][1]] = x
    BY <2>1, AllParts DEF nd
  <2> HIDE DEF x
  <2>4. x \in HeldIds(spaces')
    BY <2>2, <2>3 DEF HeldIds
  <2>5. x \in Live(sys') /\ Forest(sys')
    BY <2>4 DEF Deletes, CapInv, Sound
  <2>6. Kept(sys, sys')
    BY DEF Deletes
  <2>7. Extends(sys', sys)
    BY <2>6 DEF Kept, Extends
  <2>8. lineage(sys, x) = lineage(sys', x)
    BY <2>5, <2>7, ExtendedLineage
  <2>9. flag(sys', x) = flag(sys, x)
    BY <2>5, <2>6 DEF Kept
  <2> QED
    BY <2>1, <2>8, <2>9 DEF x
<1>10. ASSUME NEW a \in All, NEW b \in All, In(a)', In(b)', b \in origins'[a] PROVE nd(b)' \in lineage(sys', nd(a)')
  BY ZenonT(30), <1>5, <1>9, <1>10
<1>11. ASSUME NEW a \in All, NEW b \in revoked', In(a)', b \in origins'[a] PROVE flag(sys', nd(a)')
  BY <1>6, <1>9, <1>11
<1>12. \A q \in All : (In(q)' => q \in origins'[q]) /\ \A x \in origins'[q] : Known(x)'
  BY <1>1, <1>3, <1>4
<1>13. \A q \in revoked' : Known(q)'
  BY <1>1, <1>3, <1>4
<1> QED
  BY <1>3, <1>7, <1>8, <1>10, <1>11, <1>12, <1>13 DEF HistoryInv

(* ... a revocation, which may add its own handle to the revoked ones...   *)
LEMMA HistRevoke ==
  ASSUME CapInv, HistoryInv, NEW c \in Spaces, NEW h \in Held(c), Revokes(c, h), Ages, origins' = origins,
         revoked' = IF <<c, h>> \in gone' \ gone THEN revoked \cup {<<c, h>>} ELSE revoked
  PROVE  HistoryInv'
<1>1. \A q \in All : /\ (In(q)' <=> In(q)) /\ (Known(q)' <=> Known(q)) /\ nd(q)' = nd(q)
                     /\ (Valid(q)' => Valid(q))
                     /\ In(q) => lineage(sys', nd(q)) = lineage(sys, nd(q)) /\ (flag(sys, nd(q)) => flag(sys', nd(q)))
  BY RevokedInvalid
<1>2. origins \in [All -> SUBSET All] /\ revoked \subseteq All /\ gone \subseteq All
  BY DEF HistoryInv
<1>3. /\ \A q \in All : (In(q) => q \in origins[q]) /\ \A x \in origins[q] : Known(x)
      /\ \A q \in gone : Known(q) /\ ~Valid(q)
      /\ \A q \in revoked : Known(q)
  BY DEF HistoryInv
<1>4. \A a, b \in All : In(a) /\ In(b) /\ b \in origins[a] => nd(b) \in lineage(sys, nd(a))
  BY DEF HistoryInv
<1>5. \A a \in All : \A b \in revoked : In(a) /\ b \in origins[a] => flag(sys, nd(a))
  BY DEF HistoryInv
<1>6. /\ gone' \subseteq All
      /\ \A q \in All : q \in gone' => q \in gone \/ (In(q) /\ Valid(q) /\ ~Valid(q)')
  BY <1>2, AgesGone
<1>7. ASSUME NEW q \in revoked' PROVE q \in revoked \/ (q = <<c, h>> /\ q \in All /\ In(q) /\ Valid(q) /\ ~Valid(q)')
  <2>1. q \in revoked \/ (q = <<c, h>> /\ q \in gone' /\ q \notin gone)
    OBVIOUS
  <2> QED
    BY <1>6, <2>1
<1>8. revoked' \subseteq All
  BY <1>2, <1>7
<1>9. ASSUME NEW q \in gone' PROVE Known(q)' /\ ~Valid(q)'
  <2>1. q \in All /\ Known(q) /\ (~Valid(q) \/ ~Valid(q)')
    BY <1>3, <1>6 DEF Known
  <2> QED
    BY <1>1, <2>1
<1>10. \A q \in All : (In(q)' => q \in origins'[q]) /\ \A x \in origins'[q] : Known(x)'
  BY <1>1, <1>2, <1>3
<1>11. \A q \in revoked' : Known(q)'
  BY ZenonT(30), <1>1, <1>3, <1>7, <1>8 DEF Known
<1>12. ASSUME NEW a \in All, NEW b \in All, In(a)', In(b)', b \in origins'[a] PROVE nd(b)' \in lineage(sys', nd(a)')
  BY <1>1, <1>4, <1>12
<1>13. ASSUME NEW a \in All, NEW b \in revoked', In(a)', b \in origins'[a] PROVE flag(sys', nd(a)')
  <2>1. In(a) /\ b \in origins[a] /\ nd(a)' = nd(a) /\ (flag(sys, nd(a)) => flag(sys', nd(a)))
    BY <1>1, <1>13
  <2>2. CASE b \in revoked
    BY ZenonT(30), <1>5, <2>1, <2>2
  <2>3. CASE b = <<c, h>> /\ b \in All /\ In(b) /\ Valid(b) /\ ~Valid(b)'
    <3>1. nd(b) \in lineage(sys, nd(a))
      BY ZenonT(30), <1>4, <2>1, <2>3
    <3>2. flag(sys', nd(a))
      BY ZenonT(30), <2>1, <2>3, <3>1, RevokeReaches
    <3> QED
      BY <2>1, <3>2
  <2> QED
    BY <1>7, <2>2, <2>3
<1> QED
  BY ZenonT(30), <1>2, <1>6, <1>8, <1>9, <1>10, <1>11, <1>12, <1>13 DEF HistoryInv

(* ... and the destruction of an object.                                   *)
LEMMA HistDestroy ==
  ASSUME CapInv, HistoryInv, CapInv', sys' = sys, spaces' = spaces, objects' \subseteq objects, Ages,
         origins' = origins, revoked' = revoked
  PROVE  HistoryInv'
<1>1. \A q \in All : (In(q)' <=> In(q)) /\ (Known(q)' <=> Known(q)) /\ nd(q)' = nd(q)
  BY DEF In, Known, Past, nd
<1>2. ASSUME NEW q \in All, Valid(q)' PROVE Valid(q)
  BY <1>2 DEF Valid, Usable, lookup_in, validate_node
<1>3. origins \in [All -> SUBSET All] /\ revoked \subseteq All /\ gone \subseteq All
  BY DEF HistoryInv
<1>4. /\ \A q \in All : (In(q) => q \in origins[q]) /\ \A x \in origins[q] : Known(x)
      /\ \A q \in gone : Known(q) /\ ~Valid(q)
      /\ \A q \in revoked : Known(q)
  BY DEF HistoryInv
<1>5. \A a, b \in All : In(a) /\ In(b) /\ b \in origins[a] => nd(b) \in lineage(sys, nd(a))
  BY DEF HistoryInv
<1>6. \A a \in All : \A b \in revoked : In(a) /\ b \in origins[a] => flag(sys, nd(a))
  BY DEF HistoryInv
<1>7. /\ gone' \subseteq All
      /\ \A q \in All : q \in gone' => q \in gone \/ (In(q) /\ Valid(q) /\ ~Valid(q)')
  BY <1>3, AgesGone
<1>8. ASSUME NEW q \in gone' PROVE Known(q)' /\ ~Valid(q)'
  <2>1. q \in All /\ Known(q) /\ (~Valid(q) \/ ~Valid(q)')
    BY <1>4, <1>7 DEF Known
  <2> QED
    BY <1>1, <1>2, <2>1
<1>9. \A q \in All : (In(q)' => q \in origins'[q]) /\ \A x \in origins'[q] : Known(x)'
  BY <1>1, <1>3, <1>4
<1>10. \A q \in revoked' : Known(q)'
  BY <1>1, <1>3, <1>4
<1>11. \A a, b \in All : In(a)' /\ In(b)' /\ b \in origins'[a] => nd(b)' \in lineage(sys', nd(a)')
  BY <1>1, <1>5
<1>12. \A a \in All : \A b \in revoked' : In(a)' /\ b \in origins'[a] => flag(sys', nd(a)')
  BY ZenonT(30), <1>1, <1>3, <1>6
<1> QED
  BY ZenonT(30), <1>3, <1>7, <1>8, <1>9, <1>10, <1>11, <1>12 DEF HistoryInv

(* No handle is known at first. *)
LEMMA HistInit ==
  ASSUME MCInit
  PROVE  HistoryInv
<1>1. CapInv
  BY InitCap DEF MCInit
<1>2. origins = [q \in All |-> {}] /\ revoked = {} /\ gone = {}
  BY DEF MCInit
<1>3. ASSUME NEW q \in All PROVE ~In(q)
  <2>1. q[1] \in Spaces /\ q[2][1] \in 1..Slots
    BY <1>1, AllParts
  <2> QED
    BY <2>1 DEF MCInit, CapInit, In
<1> QED
  BY <1>2, <1>3 DEF HistoryInv

(* A usable handle in hand: its origins are known, unrevoked, and on the   *)
(* lineage of its node.                                                    *)
LEMMA UsableOrigins ==
  ASSUME CapInv, HistoryInv, NEW c \in Spaces, NEW h \in Held(c), Usable(c, h), NEW q, q = <<c, h>>
  PROVE  /\ q \in All /\ origins[q] \in SUBSET All /\ node_for(c, h) \in Live(sys)
         /\ \A x \in origins[q] : /\ Known(x) /\ x \notin revoked
                                  /\ In(x) => nd(x) \in lineage(sys, node_for(c, h))
<1>1. q \in All
  BY DEF All, Held
<1>2. q[1] = c /\ q[2] = h
  OBVIOUS
<1>3. In(q) /\ nd(q) = node_for(c, h) /\ nd(q) \in Live(sys)
  BY <1>1, <1>2, AllParts
<1>4. ~flag(sys, nd(q))
  BY ZenonT(30), <1>1, <1>2, <1>3, MarkedHandle DEF Valid
<1>5. origins[q] \in SUBSET All
  BY <1>1 DEF HistoryInv
<1>6. ASSUME NEW x \in origins[q] PROVE Known(x) /\ x \notin revoked /\ (In(x) => nd(x) \in lineage(sys, node_for(c, h)))
  <2>1. Known(x)
    BY <1>1 DEF HistoryInv
  <2>2. x \notin revoked
    BY <1>1, <1>3, <1>4 DEF HistoryInv
  <2>3. In(x) => nd(x) \in lineage(sys, nd(q))
    BY <1>1, <1>3, <1>5 DEF HistoryInv
  <2> QED
    BY ZenonT(30), <1>3, <2>1, <2>2, <2>3
<1> QED
  BY ZenonT(30), <1>1, <1>3, <1>5, <1>6

(* Every step of the history keeps both. *)
LEMMA HistNext ==
  ASSUME CapInv, HistoryInv, [MCNext]_mcvars
  PROVE  HistoryInv'
<1>1. ASSUME NEW o \in Objects, Destroy(o), Ages, UNCHANGED <<origins, revoked>>
      PROVE  HistoryInv'
  <2>1. CapInv' /\ sys' = sys /\ spaces' = spaces /\ objects' \subseteq objects
    BY <1>1 DEF Destroy, CapInv
  <2> QED
    BY <1>1, <2>1, HistDestroy
<1>2. ASSUME NEW c \in Spaces, NEW o \in Objects, NEW r \in SUBSET Rights, InsertRoot(c, o, r), Ages,
             origins' = [origins EXCEPT ![Issued(c)] = {Issued(c)}], revoked' = revoked
      PROVE  HistoryInv'
  <2>1. Inserts(c, None)
    BY <1>2, InsertStep DEF InsertRoot
  <2> DEFINE x == Issued(c)
             O == {}
  <2>2. origins' = [origins EXCEPT ![x] = O \cup {x}] /\ O \in SUBSET All /\ \A y \in O : FALSE
    BY <1>2
  <2>3. x = Issued(c)
    OBVIOUS
  <2> HIDE DEF x, O
  <2> QED
    BY ZenonT(30), <1>2, <2>1, <2>2, <2>3, HistInsert
<1>3. ASSUME NEW c \in Spaces, NEW h \in Held(c), NEW d \in Spaces, Usable(c, h), Inserts(d, node_for(c, h)),
             Ages, From(c, h, d), revoked' = revoked
      PROVE  HistoryInv'
  <2> DEFINE x == Issued(d)
             p == node_for(c, h)
             O == origins[<<c, h>>]
  <2>1. O \in SUBSET All /\ p \in Live(sys)
    BY <1>3, UsableOrigins
  <2>2. \A y \in O : Known(y) /\ y \notin revoked /\ (In(y) => nd(y) \in lineage(sys, p))
    BY <1>3, UsableOrigins
  <2>3. p # None
    BY <2>1, NoneNotLive
  <2>4. origins' = [origins EXCEPT ![x] = O \cup {x}] /\ x = Issued(d) /\ Inserts(d, p)
    BY <1>3 DEF From
  <2> HIDE DEF x, p, O
  <2> QED
    BY ZenonT(30), <1>3, <2>1, <2>2, <2>3, <2>4, HistInsert
<1>4. ASSUME NEW c \in Spaces, NEW h \in Held(c), NEW d \in Spaces, NEW r \in SUBSET Rights,
             Derive(c, h, d, r) \/ \E o \in Objects : InsertDescendant(c, h, d, o, r),
             Ages, From(c, h, d), revoked' = revoked
      PROVE  HistoryInv'
  <2>1. CASE Derive(c, h, d, r)
    <3>1. Usable(c, h)
      BY <2>1 DEF Derive
    <3>2. node_for(c, h) \in Live(sys) /\ sys.node[node_for(c, h)[1]].object \in Objects
      BY <3>1, UsableObject
    <3>3. Inserts(d, node_for(c, h))
      BY <2>1, <3>2, InsertStep DEF Derive
    <3> QED
      BY ZenonT(30), <1>3, <1>4, <3>1, <3>3
  <2>2. ASSUME NEW o \in Objects, InsertDescendant(c, h, d, o, r)
        PROVE  HistoryInv'
    <3>1. Usable(c, h) /\ node_for(c, h) \in Live(sys)
      BY <2>2, HeldLive DEF InsertDescendant
    <3>2. Inserts(d, node_for(c, h))
      BY <2>2, <3>1, InsertStep DEF InsertDescendant
    <3> QED
      BY ZenonT(30), <1>3, <1>4, <3>1, <3>2
  <2> QED
    BY <1>4, <2>1, <2>2
<1>5. ASSUME NEW c \in Spaces, NEW h \in Held(c), Delete(c, h), Ages, UNCHANGED <<origins, revoked>>
      PROVE  HistoryInv'
  <2>1. Deletes(c, h)
    BY <1>5, DeleteStep
  <2> QED
    BY <1>5, <2>1, HistDelete
<1>6. ASSUME NEW c \in Spaces, NEW h \in Held(c), Revoke(c, h), Ages, origins' = origins,
             revoked' = IF <<c, h>> \in gone' \ gone THEN revoked \cup {<<c, h>>} ELSE revoked
      PROVE  HistoryInv'
  <2>1. Revokes(c, h)
    BY <1>6, RevokeStep
  <2> QED
    BY <1>6, <2>1, HistRevoke
<1>7. CASE UNCHANGED mcvars
  BY ZenonT(30), <1>7 DEF mcvars, HistoryInv, In, Known, Past, nd, Valid, Usable
<1>8. CASE MCNext
  <2>1. CASE \E o \in Objects : Destroy(o) /\ Ages /\ UNCHANGED <<origins, revoked>>
    BY <1>1, <2>1
  <2>2. CASE \E c \in Spaces : \E o \in Objects, r \in SUBSET Rights :
               /\ InsertRoot(c, o, r) /\ Ages
               /\ origins' = [origins EXCEPT ![Issued(c)] = {Issued(c)}] /\ revoked' = revoked
    BY <1>2, <2>2
  <2>3. CASE \E c \in Spaces : \E h \in Held(c) : Delete(c, h) /\ Ages /\ UNCHANGED <<origins, revoked>>
    BY <1>5, <2>3
  <2>4. CASE \E c \in Spaces : \E h \in Held(c) :
               /\ Revoke(c, h) /\ Ages
               /\ revoked' = IF <<c, h>> \in gone' \ gone THEN revoked \cup {<<c, h>>} ELSE revoked
               /\ origins' = origins
    BY <1>6, <2>4
  <2>5. CASE \E c \in Spaces : \E h \in Held(c) : \E d \in Spaces, r \in SUBSET Rights :
               /\ Derive(c, h, d, r) \/ \E o \in Objects : InsertDescendant(c, h, d, o, r)
               /\ Ages /\ From(c, h, d) /\ revoked' = revoked
    BY <1>4, <2>5
  <2> QED
    BY ZenonT(30), <1>8, <2>1, <2>2, <2>3, <2>4, <2>5 DEF MCNext
<1> QED
  BY <1>7, <1>8

(* The history takes no step the tables do not. *)
LEMMA HistSteps ==
  ASSUME [MCNext]_mcvars
  PROVE  [CapNext]_cvars
<1>1. CASE UNCHANGED mcvars
  BY <1>1 DEF mcvars, cvars
<1>2. CASE MCNext
  BY ZenonT(30), <1>2 DEF MCNext, CapNext
<1> QED
  BY <1>1, <1>2

(* The two invariants hold together in every state of the history. *)
LEMMA HistAlways == MCSpec => [](CapInv /\ HistoryInv)
<1>1. MCInit => CapInv /\ HistoryInv
  BY HistInit, InitCap DEF MCInit
<1>2. CapInv /\ HistoryInv /\ [MCNext]_mcvars => (CapInv /\ HistoryInv)'
  BY HistNext, HistSteps, NextCap
<1> QED
  BY <1>1, <1>2, PTL DEF MCSpec

(* CapabilitySystem: a handle that was usable and stopped being so, because *)
(* it was deleted or revoked or its object destroyed, is never usable again, *)
(* for any number of nodes, slots and spaces: the slot's generation has moved *)
(* on, or the node it names is marked or names a destroyed object.          *)
THEOREM HandlesNeverReturn == MCSpec => []NeverUsableAgain
<1>1. CapInv /\ HistoryInv => NeverUsableAgain
  BY DEF HistoryInv, NeverUsableAgain
<1> QED
  BY <1>1, HistAlways, PTL

(* revoke: once a handle has been revoked, no handle derived from it,       *)
(* directly or through handles since deleted, is usable.                    *)
THEOREM RevocationReaches == MCSpec => []RevokeReachesSubtree
<1>1. ASSUME CapInv, HistoryInv PROVE RevokeReachesSubtree
  <2>1. SUFFICES ASSUME NEW q \in revoked, NEW p \in AllHeld, q \in origins[p] PROVE ~Valid(p)
    BY DEF RevokeReachesSubtree
  <2>2. p \in All
    BY DEF AllHeld, All, Held
  <2>3. In(p)
    BY <1>1, <2>2, AllParts
  <2>4. flag(sys, nd(p))
    BY <1>1, <2>1, <2>2, <2>3 DEF HistoryInv
  <2> QED
    BY ZenonT(30), <1>1, <2>2, <2>3, <2>4, MarkedHandle
<1> QED
  BY <1>1, HistAlways, PTL
=============================================================================
