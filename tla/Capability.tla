------------------------------ MODULE Capability ------------------------------
(***************************************************************************)
(* Capability spaces and the derivation tree (kernel-core/capability.rs)   *)
(* under the system calls Derive, DeleteHandle and Revoke, the insertions  *)
(* of FactoryCreate and MapMemory, and the destruction of objects.         *)
(*                                                                         *)
(* A free list that starts with every index, lowest first, and takes and   *)
(* returns at its head is the code's pair of free_head and the vector's    *)
(* unused tail.  Refused operations change nothing and are not actions,    *)
(* except Revoke, which is refused half way.  A PreparedTransfer is a      *)
(* handle and rights kept for a later derive, so committing one is Derive. *)
(***************************************************************************)
EXTENDS Naturals, Sequences, FiniteSets, Functions, Options

CONSTANTS
  Spaces,       \* capability spaces, each with a domain of its own
  Slots,        \* CapabilitySpace.capacity
  Nodes,        \* CapabilitySystem.capacity
  Budget,       \* the capability limit of every domain
  Objects, Rights, MANAGE,
  MaxGeneration \* bound: reuses of a slot or node

ASSUME CapabilityAssumption ==
  /\ Slots \in Nat \ {0} /\ Nodes \in Nat \ {0}
  /\ Budget \in Nat /\ MaxGeneration \in Nat \ {0}
  /\ MANAGE \in Rights /\ None \notin Nat \X Nat

VARIABLES
  sys,          \* CapabilitySystem: node table and free list
  spaces,       \* CAPABILITY_SPACES: slot table and free list of each
  charged,      \* ResourceDomain.capabilities in use
  objects       \* the objects alive in the arena

cvars == <<sys, spaces, charged, objects>>

FreeNode == [live |-> FALSE, object |-> None, rights |-> {}, parent |-> None,
             first_child |-> None, next_sibling |-> None, revoked |-> FALSE,
             references |-> 0]

CapInit ==
  /\ sys = [node |-> [i \in 1..Nodes |-> FreeNode],
            generation |-> [i \in 1..Nodes |-> 1],
            free |-> [i \in 1..Nodes |-> i]]
  /\ spaces = [c \in Spaces |-> [node |-> [i \in 1..Slots |-> None],
                                 generation |-> [i \in 1..Slots |-> 1],
                                 free |-> [i \in 1..Slots |-> i]]]
  /\ charged = [c \in Spaces |-> 0]
  /\ objects = Objects
-----------------------------------------------------------------------------
(* A NodeId <<index, generation>> that names a live node of s. *)
names(s, id) == id # None /\ s.generation[id[1]] = id[2] /\ s.node[id[1]].live

parent(s, id) == IF names(s, id) THEN s.node[id[1]].parent ELSE None

(* The nodes the parent links lead to from id, and None where they end. *)
ancestors(s, id) ==
  LET path[k \in 0..Nodes] == IF k = 0 THEN id ELSE parent(s, path[k - 1])
  IN  Range(path)

lineage(s, id) == ancestors(s, id) \ {None}

validate_node(s, id, alive) ==
  /\ \A a \in lineage(s, id) : names(s, a) /\ ~s.node[a[1]].revoked
  /\ s.node[id[1]].object \in alive

next_sibling(s, id) == IF names(s, id) THEN s.node[id[1]].next_sibling ELSE None

(* The children of id, as far as the links lead to live nodes. *)
children(s, id) ==
  LET list[k \in 0..Nodes] == IF k = 0 THEN s.node[id[1]].first_child ELSE next_sibling(s, list[k - 1])
  IN  {c \in Range(list) : names(s, c)}

and_children(s, ids) == ids \cup UNION {children(s, c) : c \in ids}

(* What find_unrevoked_descendant can reach below id. *)
descendants(s, id) ==
  LET reach[k \in 0..Nodes] ==
        IF k = 0 THEN children(s, id) ELSE and_children(s, reach[k - 1])
  IN  reach[Nodes]

(* revoke_one_descendant until none is left. *)
revoke_descendants(s, id) ==
  LET below == descendants(s, id)
  IN  [s EXCEPT !.node = [i \in 1..Nodes |->
         IF <<i, s.generation[i]>> \in below THEN [@[i] EXCEPT !.revoked = TRUE] ELSE @[i]]]

(* add_reference, take a free node, link_child *)
allocate_node(s, info, p) ==
  LET i   == Head(s.free)
      id  == <<i, s.generation[i]>>
      new == [FreeNode EXCEPT !.live = TRUE, !.references = 1, !.parent = p,
                !.object = info.object, !.rights = info.rights,
                !.next_sibling = IF p = None THEN None ELSE s.node[p[1]].first_child]
      s1  == [s EXCEPT !.free = Tail(@), !.node[i] = new]
  IN  IF p = None THEN s1
      ELSE [s1 EXCEPT !.node[p[1]].references = @ + 1, !.node[p[1]].first_child = id]

(* Mutant of unlink_child: only the head of the list is handled. *)
unlink_child_first(s, p, c) ==
  IF s.node[p[1]].first_child = c
  THEN [s EXCEPT !.node[p[1]].first_child = s.node[c[1]].next_sibling]
  ELSE s

unlink_child(s, p, c) ==
  IF ~names(s, p) THEN s
  ELSE IF s.node[p[1]].first_child = c
  THEN [s EXCEPT !.node[p[1]].first_child = s.node[c[1]].next_sibling]
  ELSE LET siblings == children(s, p)
       IN  [s EXCEPT !.node = [i \in 1..Nodes |->
              IF <<i, s.generation[i]>> \in siblings /\ @[i].next_sibling = c
              THEN [@[i] EXCEPT !.next_sibling = s.node[c[1]].next_sibling]
              ELSE @[i]]]

(* Mutant of release_step: the node is freed while children refer to it. *)
release_step_always(s, id) ==
  LET p == s.node[id[1]].parent
      u == IF p = None THEN s ELSE unlink_child(s, p, id)
  IN  <<[u EXCEPT !.node[id[1]] = FreeNode, !.generation[id[1]] = @ + 1,
                  !.free = <<id[1]>> \o @], None>>

(* One turn of release_node's loop: the state and the node still to be     *)
(* released.                                                               *)
release_step(s, id) ==
  LET n == s.node[id[1]]
      u == IF n.parent = None THEN s ELSE unlink_child(s, n.parent, id)
  IN  IF n.references > 1
      THEN <<[s EXCEPT !.node[id[1]].references = @ - 1], None>>
      ELSE <<[u EXCEPT !.node[id[1]] = FreeNode, !.generation[id[1]] = @ + 1,
                       !.free = <<id[1]>> \o @], n.parent>>

(* release_node goes on with the parent of a freed node. *)
release_on(q) == IF names(q[1], q[2]) THEN release_step(q[1], q[2]) ELSE q

release_node(s, id) ==
  LET turn[k \in 0..Nodes] == IF k = 0 THEN <<s, id>> ELSE release_on(turn[k - 1])
  IN  turn[Nodes][1]
-----------------------------------------------------------------------------
(* A handle <<slot, generation>> of space c and the node it names. *)
Handles == (1..Slots) \X (1..MaxGeneration)

node_for(c, h) ==
  IF spaces[c].generation[h[1]] = h[2] THEN spaces[c].node[h[1]] ELSE None

Held(c) == {h \in Handles : node_for(c, h) # None}

(* lookup of h in slot table t, with node table s and the objects alive. *)
lookup_in(s, t, alive, h) ==
  /\ t.generation[h[1]] = h[2]
  /\ t.node[h[1]] # None
  /\ validate_node(s, t.node[h[1]], alive)

Usable(c, h) == lookup_in(sys, spaces[c], objects, h)

rights_of(c, h) == sys.node[node_for(c, h)[1]].rights

(* insert_new: room in the space, a free node, a charge, then both inserts. *)
insert_new(c, info, p) ==
  /\ spaces[c].free # <<>>
  /\ sys.free # <<>>
  /\ charged[c] < Budget
  /\ charged' = [charged EXCEPT ![c] = @ + 1]
  /\ sys' = allocate_node(sys, info, p)
  /\ LET i == Head(spaces[c].free)
         n == Head(sys.free)
     IN  spaces' = [spaces EXCEPT ![c].free = Tail(@), ![c].node[i] = <<n, sys.generation[n]>>]
  /\ UNCHANGED objects

(* An object that has just been created: no capability names it. *)
Fresh(o) == o \in objects /\ \A i \in 1..Nodes : sys.node[i].object # o

(* insert_root, by a factory; the rights depend on the type of the object, *)
(* and those of an interrupt or a contiguous frame do not include MANAGE.  *)
InsertRoot(c, o, r) ==
  /\ Fresh(o)
  /\ insert_new(c, [object |-> o, rights |-> r], None)

(* Mutant of Derive: the new node becomes a sibling of its origin. *)
Derive_sibling(c, h, d, r) ==
  /\ Usable(c, h)
  /\ r \subseteq rights_of(c, h)
  /\ insert_new(d, [object |-> sys.node[node_for(c, h)[1]].object, rights |-> r],
                parent(sys, node_for(c, h)))

(* derive *)
Derive(c, h, d, r) ==
  /\ Usable(c, h)
  /\ r \subseteq rights_of(c, h)
  /\ insert_new(d, [object |-> sys.node[node_for(c, h)[1]].object, rights |-> r], node_for(c, h))

(* insert_descendant: MapMemory's new Mapping, below the memory's handle *)
InsertDescendant(c, h, d, o, r) ==
  /\ Fresh(o)
  /\ Usable(c, h)
  /\ r \subseteq rights_of(c, h)
  /\ insert_new(d, [object |-> o, rights |-> r], node_for(c, h))

(* Mutant of Delete: the slot keeps its generation. *)
Delete_keeps_generation(c, h) ==
  /\ node_for(c, h) # None
  /\ \A i \in 1..Nodes : sys.generation[i] < MaxGeneration
  /\ spaces' = [spaces EXCEPT ![c].node[h[1]] = None, ![c].free = <<h[1]>> \o @]
  /\ charged' = [charged EXCEPT ![c] = @ - 1]
  /\ sys' = release_node(sys, node_for(c, h))
  /\ UNCHANGED objects

(* delete: space.remove, release_capability, release_node *)
Delete(c, h) ==
  /\ node_for(c, h) # None
  /\ h[2] < MaxGeneration
  /\ \A i \in 1..Nodes : sys.generation[i] < MaxGeneration
  /\ spaces' = [spaces EXCEPT ![c].node[h[1]] = None, ![c].generation[h[1]] = @ + 1,
                              ![c].free = <<h[1]>> \o @]
  /\ charged' = [charged EXCEPT ![c] = @ - 1]
  /\ sys' = release_node(sys, node_for(c, h))
  /\ UNCHANGED objects

(* OperationCode::Revoke: perform_kernel_selective_revoke on the handle's  *)
(* node, then revoke, which alone validates the handle and asks for        *)
(* MANAGE.                                                                 *)
Revoke(c, h) ==
  /\ node_for(c, h) # None
  /\ LET id == node_for(c, h)
         s1 == revoke_descendants(sys, id)
     IN  sys' = IF validate_node(s1, id, objects) /\ MANAGE \in rights_of(c, h)
                THEN [s1 EXCEPT !.node[id[1]].revoked = TRUE]
                ELSE s1
  /\ UNCHANGED <<spaces, charged, objects>>

(* ObjectArena::destroy; an ObjectId is never used again. *)
Destroy(o) ==
  /\ o \in objects
  /\ objects' = objects \ {o}
  /\ UNCHANGED <<sys, spaces, charged>>

CapNext ==
  \/ \E o \in Objects : Destroy(o)
  \/ \E c \in Spaces :
       \/ \E o \in Objects, r \in SUBSET Rights : InsertRoot(c, o, r)
       \/ \E h \in Held(c) :
            \/ Delete(c, h)
            \/ Revoke(c, h)
            \/ \E d \in Spaces, r \in SUBSET Rights :
                 \/ Derive(c, h, d, r)
                 \/ \E o \in Objects : InsertDescendant(c, h, d, o, r)

CapSpec == CapInit /\ [][CapNext]_cvars
-----------------------------------------------------------------------------
NodeId == (1..Nodes) \X (1..MaxGeneration)

LiveIds == {id \in NodeId : names(sys, id)}

(* The intrusive lists are the tree: link_child and unlink_child keep the  *)
(* sibling list of every node equal to the nodes that name it as parent,   *)
(* and no list leads to a freed node.                                      *)
TreeLinked ==
  \A id \in LiveIds :
    /\ children(sys, id) = {c \in LiveIds : sys.node[c[1]].parent = id}
    /\ {sys.node[id[1]].first_child, sys.node[id[1]].next_sibling} \subseteq LiveIds \cup {None}

(* The reference count of a node is its slot, if one still holds it, plus  *)
(* its children; so a node is freed exactly when neither is left, and no   *)
(* parent or slot ever names a freed node.                                 *)
Holders(id) == {q \in Spaces \X (1..Slots) : spaces[q[1]].node[q[2]] = id}

ReferencesExact ==
  /\ \A id \in LiveIds :
       /\ Cardinality(Holders(id)) <= 1
       /\ sys.node[id[1]].references = Cardinality(Holders(id))
            + Cardinality({c \in LiveIds : sys.node[c[1]].parent = id})
       /\ sys.node[id[1]].references > 0
       /\ sys.node[id[1]].parent \in LiveIds \cup {None}
  /\ \A c \in Spaces, i \in 1..Slots : spaces[c].node[i] \in LiveIds \cup {None}

(* ADR 0007: deleting a handle does not invalidate what was derived from   *)
(* it, in this space or another.  (s, t and a are the state after it.)     *)
DeleteSparesOthers ==
  [][\A c \in Spaces : \A h \in Held(c) : node_for(c, h)' = None =>
       \A s \in {sys'}, t \in {spaces'}, a \in {objects'} :
         \A d \in Spaces, g \in Handles :
           <<d, g>> # <<c, h>> => (Usable(d, g) = lookup_in(s, t[d], a, g))]_cvars

=============================================================================
