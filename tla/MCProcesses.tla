----------------------------- MODULE MCProcesses -----------------------------
(***************************************************************************)
(* Processes for TLC: init and the processes it starts.  A plan bounds the *)
(* calls of each kind: few calls of every kind on one process, or two      *)
(* processes, one below the other or side by side, and few other calls.    *)
(***************************************************************************)
EXTENDS Processes

CONSTANTS
  Plans, Kinds,
  Nested        \* the limits that leave room for a child of the child

VARIABLE left      \* calls left of each kind

MCInit == Init /\ left \in Plans

Counts(kind) == left[kind] > 0 /\ left' = [left EXCEPT ![kind] = @ - 1]

(* Objects whose handles behave alike are represented by one. *)
Handed(p, h) == \E type \in {"MemoryObject", "ContiguousFrame", "Mapping", "CapabilitySpace", "Factory"} :
                  Names(p, h, type)

MCNext ==
  \E p \in DOMAIN processes :
    \/ Enter(p) /\ UNCHANGED left
    \/ /\ Acting(p)
       /\ \/ p # RootProcess /\ Exit(p) /\ UNCHANGED left
          \/ \E h \in Held(p) :
               \/ /\ Counts("create")
                  /\ \E limits \in ChildLimits, heap \in BOOLEAN :
                       (heap \/ limits # Nested) /\ CreateProcess(p, h, limits, heap)
               \/ /\ UNCHANGED left
                  /\ ConfigureMainThread(p, h) \/ Start(p, h) \/ Terminate(p, h) \/ Reap(p, h)
               \/ /\ Counts("handle")
                  /\ \/ Acquire(p, h, "aspace")
                     \/ \E s \in Held(p), role \in InstallRoles :
                          Handed(p, s) /\ InstallCapability(p, h, s, role)
                     \/ \E s \in Held(p) : Handed(p, h) /\ Derive(p, h, s)
               \/ Counts("memory") /\ \E kind \in Kinds : FactoryCreate(p, h, kind, 1)
               \/ Counts("map") /\ \E s \in Held(p) : MapMemory(p, h, s)
               \/ Counts("delete") /\ DeleteHandle(p, h)
=============================================================================
