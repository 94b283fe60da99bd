---------------------------- MODULE InitServices ---------------------------
(***************************************************************************)
(* The first user programs: init (crates/init/src/main.rs), which the      *)
(* kernel starts with a bootstrap manifest (kernel init.rs), and the two   *)
(* it starts itself, the file server ramfs and its client script_session.  *)
(* Their threads run on the scheduler and talk over the endpoint of module *)
(* KernelIpc.  A child knows its capabilities only by position, so what    *)
(* init puts into a child's capability space, and in which order, is part  *)
(* of the protocol.                                                        *)
(***************************************************************************)
EXTENDS KernelIpc

CONSTANTS InitThread, RamfsThread, ScriptThread, Channel,
          ModuleLists,      \* what the boot loader may hand over (limine.conf)
          MaxManifest,      \* MAX_BOOTSTRAP_CAPABILITIES
          ArchiveLimit      \* RAMFS_MAX_SIZE, in units of an archive entry

ASSUME InitAssumption ==
  /\ {InitThread, RamfsThread, ScriptThread} \subseteq Threads /\ Boot = InitThread
  /\ Channel \in Endpoints /\ MaxManifest \in Nat /\ ArchiveLimit \in Nat

VARIABLES modules,    \* boot modules, each [kind, archive]
          manifest,   \* BootstrapManifest.entries: [role, module]
          istep,      \* the statement of run_init that comes next
          cspaces,    \* capabilities of the two children, in slot order
          ramfs,      \* "start", "serve", or "spin" after a panic
          answers     \* what script_session was told so far

ivars == <<modules, manifest, istep, cspaces, ramfs, answers>>
allvars == <<vars, ivars>>

Entry(role, n) == [role |-> role, module |-> n]

(* load_and_spawn_init: the fixed roles, then one entry per boot module.    *)
FixedRoles == <<"SelfAddressSpace", "SelfThread", "HeapFactory", "SelfCapabilitySpace", "ImageFactory">>

bootstrap_manifest(mods) ==
  [i \in 1..Len(FixedRoles) |-> Entry(FixedRoles[i], 0)]
    \o [i \in DOMAIN mods |-> Entry("BootModule", i)]

(* manifest_capability: the entry of a role with a given ordinal, from 0    *)
matching(role) == SelectSeq(manifest, LAMBDA e : e.role = role)
manifest_capability_ok(role, ordinal) == ordinal < Len(matching(role))
boot_module(ordinal) == modules[matching("BootModule")[ordinal + 1].module]

(* The statements of run_init *)
InitSteps == <<"lookup", "objects", "image", "endpoint", "give_ramfs", "give_script", "console",
               "give_console", "load_ramfs", "start_ramfs", "load_script", "start_script", "watch">>

(* What a statement needs from the manifest and the modules it reads *)
step_possible(s) ==
  CASE s = "lookup" -> \A role \in {"SelfAddressSpace", "SelfCapabilitySpace", "HeapFactory"} :
                         manifest_capability_ok(role, 0)
    [] s = "image" -> manifest_capability_ok("BootModule", 3)
    [] s = "load_ramfs" -> manifest_capability_ok("BootModule", 1) /\ boot_module(1).kind = "ramfs_elf"
    [] s = "load_script" -> manifest_capability_ok("BootModule", 2) /\ boot_module(2).kind = "script_elf"
    [] OTHER -> TRUE

(* Mutant of derived: the console comes first. *)
derived_console_first(s) ==
  CASE s = "give_ramfs" -> [cspaces EXCEPT !.ramfs = Append(@, [object |-> "endpoint", rights |-> {"READ", "WRITE"}])]
    [] s = "give_script" -> [cspaces EXCEPT !.script = Append(@, [object |-> "console", rights |-> {"WRITE"}])]
    [] s = "give_console" -> [cspaces EXCEPT !.script = Append(@, [object |-> "endpoint", rights |-> {"WRITE", "EXECUTE"}])]
    [] OTHER -> cspaces

(* derive_capability into a child's space takes its first free slot.        *)
derived(s) ==
  CASE s = "give_ramfs" -> [cspaces EXCEPT !.ramfs = Append(@, [object |-> "endpoint", rights |-> {"READ", "WRITE"}])]
    [] s = "give_script" -> [cspaces EXCEPT !.script = Append(@, [object |-> "endpoint", rights |-> {"WRITE", "EXECUTE"}])]
    [] s = "give_console" -> [cspaces EXCEPT !.script = Append(@, [object |-> "console", rights |-> {"WRITE"}])]
    [] OTHER -> cspaces

(* ConfigureThread: enqueue(..).unwrap() *)
configure_thread(s, t) == IF enqueue_ok(s, t) THEN enqueue(s, t) ELSE [s EXCEPT !.up = FALSE]

InUserMode(t) == sched.up /\ sched.cpu = t /\ sched.cur = t /\ pc[t].op = "User"

may_use(space, slot, object, right) ==
  slot <= Len(space) /\ space[slot].object = object /\ right \in space[slot].rights
-----------------------------------------------------------------------------
(* The kernel builds init's manifest, or halts when it does not fit. *)
LoadInit ==
  /\ istep = "kernel" /\ sched.up
  /\ IF Len(bootstrap_manifest(modules)) > MaxManifest
     THEN sched' = [sched EXCEPT !.up = FALSE] /\ UNCHANGED <<manifest, istep>>
     ELSE /\ manifest' = bootstrap_manifest(modules) /\ istep' = "lookup" /\ UNCHANGED sched
  /\ UNCHANGED <<eps, notifs, pc, inbox, held, ncalls, modules, cspaces, ramfs, answers>>

after(s) == InitSteps[1 + CHOOSE i \in DOMAIN InitSteps : InitSteps[i] = s]

(* A statement of run_init.  The kernel may refuse any of its system calls, *)
(* and then init only spins.                                                *)
InitStep ==
  /\ InUserMode(InitThread) /\ istep \in Elems(InitSteps) \ {"watch"}
  /\ \/ /\ step_possible(istep) /\ istep' = after(istep) /\ cspaces' = derived(istep)
        /\ sched' = CASE istep = "start_ramfs" -> configure_thread(sched, RamfsThread)
                      [] istep = "start_script" -> configure_thread(sched, ScriptThread)
                      [] OTHER -> sched
     \/ istep' = "spin" /\ UNCHANGED <<sched, cspaces>>
  /\ UNCHANGED <<eps, notifs, pc, inbox, held, ncalls, modules, manifest, ramfs, answers>>

thread_status(t) == IF sched.thr[t] = "Dead" THEN "dead" ELSE "alive"

(* The supervisor loop polls ThreadStatus and reconfigures a dead client. *)
Supervise ==
  /\ InUserMode(InitThread) /\ istep = "watch" /\ thread_status(ScriptThread) = "dead"
  /\ sched' = configure_thread(sched, ScriptThread)
  /\ UNCHANGED <<eps, notifs, pc, inbox, held, ncalls, ivars>>

(* ramfs checks the magic of what is mapped at RAMFS_BASE. *)
RamfsStart ==
  /\ InUserMode(RamfsThread) /\ ramfs = "start"
  /\ ramfs' = IF boot_module(3).kind = "archive" THEN "serve" ELSE "spin"
  /\ UNCHANGED <<vars, modules, manifest, istep, cspaces, answers>>

RamfsReceive ==
  /\ InUserMode(RamfsThread) /\ ramfs = "serve" /\ may_use(cspaces.ramfs, 1, "endpoint", "READ")
  /\ Receive(RamfsThread, Channel) /\ UNCHANGED ivars

RamfsReply == ramfs = "serve" /\ (\E h \in held[RamfsThread] : Reply(RamfsThread, h)) /\ UNCHANGED ivars

(* parse_gaxfs: the first entry with the requested id, if the headers and   *)
(* the file lie within the archive.                                         *)
parse_gaxfs(archive, id) ==
  LET hits == {i \in DOMAIN archive : archive[i].id = id}
      first == CHOOSE i \in hits : \A j \in hits : i <= j
  IN  IF Len(archive) > ArchiveLimit \/ hits = {} THEN "not_found"
      ELSE IF archive[first].offset + archive[first].size <= ArchiveLimit
      THEN archive[first].content ELSE "not_found"

(* script_session's requests: file 1, then a file that is not there *)
file_id(m) == IF m[2] = 1 THEN 1 ELSE 999

answer_to(m) == IF m = <<>> THEN "empty" ELSE parse_gaxfs(boot_module(3).archive, file_id(m))

ScriptCall ==
  /\ Len(answers) \in {0, 2} /\ may_use(cspaces.script, 1, "endpoint", "WRITE")
  /\ Call(ScriptThread, Channel)
  /\ answers' = IF pc'[ScriptThread].op = "User" THEN Append(answers, "empty") ELSE answers
  /\ UNCHANGED <<modules, manifest, istep, cspaces, ramfs>>

ScriptResume ==
  /\ answers' = Append(answers, answer_to(inbox[ScriptThread])) /\ ResumeCall(ScriptThread)
  /\ UNCHANGED <<modules, manifest, istep, cspaces, ramfs>>

(* A call on a handle it does not have, or on an endpoint handle that lacks *)
(* the right, is refused.                                                   *)
ScriptRefused ==
  /\ InUserMode(ScriptThread)
  /\ \/ Len(answers) = 1
     \/ Len(answers) \in {0, 2} /\ ~may_use(cspaces.script, 1, "endpoint", "WRITE")
  /\ answers' = Append(answers, "refused")
  /\ UNCHANGED <<vars, modules, manifest, istep, cspaces, ramfs>>

(* Its last statement faults: page_fault_handler kills the thread. *)
ScriptCrash ==
  /\ InUserMode(ScriptThread) /\ Len(answers) = 3
  /\ sched' = IF sched.rq = <<>> THEN [sched EXCEPT !.up = FALSE]
              ELSE dispatch([sched EXCEPT !.thr[ScriptThread] = make_dead(make_dying(@))], ScriptThread)
  /\ UNCHANGED <<eps, notifs, pc, inbox, held, ncalls, ivars>>

IInit ==
  /\ Init /\ modules \in ModuleLists /\ manifest = <<>> /\ istep = "kernel"
  /\ cspaces = [ramfs |-> <<>>, script |-> <<>>] /\ ramfs = "start" /\ answers = <<>>

INext ==
  \/ LoadInit \/ InitStep \/ Supervise \/ RamfsStart \/ RamfsReceive \/ RamfsReply
  \/ ScriptCall \/ ScriptResume \/ ScriptRefused \/ ScriptCrash
  \/ (ResumeReceive(RamfsThread) \/ (istep # "kernel" /\ Preempt)) /\ UNCHANGED ivars

ISpec == IInit /\ [][INext]_allvars
-----------------------------------------------------------------------------
(* The archive has file 1 where parse_gaxfs can return it. *)
Holds1 ==
  \E i \in DOMAIN boot_module(3).archive :
    LET f == boot_module(3).archive[i]
    IN  /\ f.id = 1 /\ f.offset + f.size <= ArchiveLimit
        /\ \A j \in 1..(i - 1) : boot_module(3).archive[j].id # 1

(* However the three programs are scheduled and whatever the kernel refuses *)
(* init: script_session is never told anything but the content of file 1    *)
(* when the archive has it, a refusal of the handle it does not have, and   *)
(* that file 999 is not found; and no child of a running init ever runs     *)
(* without the endpoint in its first slot and, for the script, the console  *)
(* in its second.                                                           *)
ServicesAnswer ==
  /\ Len(answers) >= 1 => boot_module(3).kind = "archive"
                          /\ answers[1] # "empty" /\ (answers[1] = "not_found" => ~Holds1)
  /\ Len(answers) >= 2 => answers[2] = "refused"
  /\ Len(answers) >= 3 => answers[3] = "not_found"
  /\ istep # "kernel" =>
       /\ sched.thr[RamfsThread] # "New" => cspaces.ramfs[1].object = "endpoint"
       /\ sched.thr[ScriptThread] # "New" =>
            cspaces.script[1].object = "endpoint" /\ cspaces.script[2].object = "console"

(* The supervisor loop of init survives the crash of script_session that   *)
(* it is there to handle: the kernel is still up afterwards.               *)
RestartSurvived == istep = "watch" => sched.up
=============================================================================
