---------------------------- MODULE MCCapability ----------------------------
(***************************************************************************)
(* Capability with the history a lookup does not keep: which handles each  *)
(* handle was derived from, which were revoked, and which stopped being    *)
(* usable.                                                                 *)
(***************************************************************************)
EXTENDS Capability, TLC

CONSTANTS
  MaxIssued,    \* bound: handles issued in a behaviour
  MaxSteps      \* bound: operations in one

VARIABLES
  origins,      \* the handles a handle was derived from, itself included
  revoked,      \* the handles a Revoke succeeded on
  gone,         \* the handles that were usable and no longer are
  ends          \* deletions, revocations and destructions so far

mcvars == <<sys, spaces, charged, objects, origins, revoked, gone, ends>>

(* No operation tells one space or one object from another. *)
Symmetry == Permutations(Spaces) \cup Permutations(Objects)

All == Spaces \X Handles

(* The handle the next insertion into space d returns. *)
Issued(d) == LET i == Head(spaces[d].free) IN <<d, <<i, spaces[d].generation[i]>>>>

Valid(q) == Usable(q[1], q[2])

(* Room below the bounds for one more operation, for one more handle. *)
IssuedSoFar == Cardinality({q \in All : origins[q] # {}})
Room == IssuedSoFar + ends < MaxSteps
Issues == Room /\ IssuedSoFar < MaxIssued

MCInit == CapInit /\ origins = [q \in All |-> {}] /\ revoked = {} /\ gone = {} /\ ends = 0

AllHeld == UNION {{c} \X Held(c) : c \in Spaces}

(* The successor is bound to values, so that TLC evaluates it once. *)
Ages ==
  \E s \in {sys'}, t \in {spaces'}, a \in {objects'} :
    gone' = gone \cup {q \in AllHeld : Valid(q) /\ ~lookup_in(s, t[q[1]], a, q[2])}

From(c, h, d) == origins' = [origins EXCEPT ![Issued(d)] = origins[<<c, h>>] \cup {Issued(d)}]

Ends == Room /\ ends' = ends + 1

MCNext ==
  \/ \E o \in Objects : Ends /\ Destroy(o) /\ Ages /\ UNCHANGED <<origins, revoked>>
  \/ \E c \in Spaces :
       \/ \E o \in Objects, r \in SUBSET Rights :
            /\ Issues /\ InsertRoot(c, o, r) /\ Ages
            /\ origins' = [origins EXCEPT ![Issued(c)] = {Issued(c)}]
            /\ UNCHANGED <<revoked, ends>>
       \/ \E h \in Held(c) :
            \/ Ends /\ Delete(c, h) /\ Ages /\ UNCHANGED <<origins, revoked>>
            \/ /\ Ends /\ Revoke(c, h) /\ Ages
               /\ revoked' = IF <<c, h>> \in gone' \ gone THEN revoked \cup {<<c, h>>} ELSE revoked
               /\ UNCHANGED origins
            \/ \E d \in Spaces, r \in SUBSET Rights :
                 /\ Issues
                 /\ Derive(c, h, d, r) \/ \E o \in Objects : InsertDescendant(c, h, d, o, r)
                 /\ Ages /\ From(c, h, d) /\ UNCHANGED <<revoked, ends>>

MCSpec == MCInit /\ [][MCNext]_mcvars

(* ADR 0007: a handle encodes slot and generation and validation checks    *)
(* both.  A handle that was deleted or revoked, or whose object was        *)
(* destroyed, is never usable again, however slots and nodes are reused.   *)
NeverUsableAgain == \A q \in gone : ~Valid(q)

(* ADR 0007: once revoke has returned, every future validation of the      *)
(* capability or any descendant fails, although handles between the two    *)
(* may have been deleted and their slots reused.                           *)
RevokeReachesSubtree == \A q \in revoked : \A p \in AllHeld : q \in origins[p] => ~Valid(p)
=============================================================================
