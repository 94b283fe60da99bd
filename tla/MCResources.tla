----------------------------- MODULE MCResources -----------------------------
(***************************************************************************)
(* Small instances of the two halves of the kernel's resource accounting,  *)
(* checked side by side: memory objects and their mappings, and, as P, the *)
(* processes with their domains.  They share no state; every behaviour     *)
(* exercises one of them while the other rests in its initial state.       *)
(***************************************************************************)
EXTENDS MCMemory

CONSTANTS
  Parts,
  RootLimits, ProcessArena, ProcessFrames, NodeCapacity, StackFrames, TableFrames,
  MaxEntries, InstallRoles, Plans, Kinds

VARIABLES
  part,
  parena, pcreated, pmemory, pmappings, paspaces, pfree,
  domains, cspaces, issued, processes, threads, notices, factories, ready, left

Limits(o, c, m) == [objects |-> o, caps |-> c, memory |-> m]
MCRootLimits == Limits(22, 20, 6)
MCNested == Limits(13, 12, 3)
MCChildLimits == {Limits(4, 5, 1), Limits(6, 5, 1), MCNested}

Plan(c, m, t, h, d) == [create |-> c, memory |-> m, map |-> t, handle |-> h, delete |-> d]
MCPlans == {Plan(1, 1, 1, 1, 1), Plan(1, 1, 0, 2, 1), Plan(2, 1, 0, 1, 0)}

(* An init with room for one more object *)
MCTightLimits == Limits(6, 10, 6)
MCTightPlans == {Plan(0, 3, 0, 0, 1)}

P == INSTANCE MCProcesses WITH
       arena <- parena, created <- pcreated, memory <- pmemory, mappings <- pmappings,
       aspaces <- paspaces, free <- pfree, ArenaCapacity <- ProcessArena,
       FrameCount <- ProcessFrames, ChildLimits <- MCChildLimits, Nested <- MCNested

ASSUME ProcessConstants == P!ProcessAssumption

memvars == <<mvars, derives, ends>>
procvars == <<parena, pcreated, pmemory, pmappings, paspaces, pfree, domains, cspaces, issued,
              processes, threads, notices, factories, ready, left>>

ResInit ==
  /\ part \in Parts /\ MCInit /\ P!MCInit
  /\ part = "memory" => left = CHOOSE plan \in Plans : TRUE

ResNext ==
  \/ part = "memory" /\ MCNext /\ UNCHANGED <<part, procvars>>
  \/ part = "processes" /\ P!MCNext /\ UNCHANGED <<part, memvars>>

ResSpec == ResInit /\ [][ResNext]_<<part, memvars, procvars>>
-----------------------------------------------------------------------------
(* No path through CreateProcess, its rollbacks, Reap or reclamation loses *)
(* a frame or frees one twice.                                             *)
FramesAccounted == P!FramesAccounted

(* A domain charges no more than its limits, and its charges for           *)
(* capabilities and memory cover what it holds and what its children have  *)
(* reserved of it, whatever failed on the way.                             *)
QuotaCovered == P!QuotaCovered

(* No call takes a memory object away that some process still holds or     *)
(* maps, although its creator was reaped, nor a domain that pays for one.  *)
DelegatedMemorySurvives == P!DelegatedMemorySurvives

(* Until a process starts, its manifest lists handles of its capability    *)
(* space, each once, also after installations that were refused.           *)
ManifestBacked == P!ManifestBacked

(* process_model.md: the objects a domain pays for, with the budgets of    *)
(* its child domains, stay within its limit.                               *)
ObjectsLimited == P!ObjectsLimited
=============================================================================
