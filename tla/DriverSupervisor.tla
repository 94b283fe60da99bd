-------------------------- MODULE DriverSupervisor -------------------------
(***************************************************************************)
(* The driver supervisor of init (driver_supervisor.rs) over the process   *)
(* builder of the runtime library (libgaxera process.rs).  Every system    *)
(* call of a build may be refused by the kernel; the supervisor's          *)
(* capability table shows which handles each way out leaves behind.        *)
(***************************************************************************)
EXTENDS Integers, Sequences, FiniteSets, SequencesExt, TLC

CONSTANTS Drivers,
          MaxRestarts,  \* DriverConfig.max_restarts of each driver
          Image,        \* the kinds of the PT_LOAD segments of its ELF image
          MaxBuilds     \* bound: builds attempted for one driver

SegmentKinds == {"plain", "wx", "empty", "overflowing"}

ASSUME SupervisorAssumption ==
  /\ MaxRestarts \in [Drivers -> Nat] /\ MaxBuilds \in Nat
  /\ \A d \in Drivers : \A i \in DOMAIN Image[d] : Image[d][i] \in SegmentKinds

VARIABLES drv,      \* DriverInstance of each driver
          builds,   \* builds attempted for it
          owned,    \* handles in the supervisor's table: <<driver, build, what>>
          procs,    \* processes <<driver, build>> that were started and not reaped,
                    \* with what the kernel knows: running, exited or faulted
          reports,  \* processes whose end was not reported to the supervisor yet
          again     \* drivers started while the supervisor recorded a process

dvars == <<drv, builds, owned, procs, reports, again>>

One(kind) == <<kind, 0>>

Control == {One("process"), One("aspace"), One("thread")}

(* A system call of spawn: what it adds to the table, what the code deletes *)
(* when it fails, and whether it is only a check that always fails here.    *)
SysCall(gain, undo) == [gain |-> gain, undo |-> undo, doomed |-> FALSE]
Refusal(undo) == [gain |-> {}, undo |-> undo, doomed |-> TRUE]

(* One PT_LOAD segment: a memory object, mapped here to be filled, then     *)
(* mapped in the child.  The size computation leaves by `?`.                *)
load_segment(kind, i) ==
  CASE kind = "plain" -> <<SysCall({<<"memory", i>>}, Control),
                           SysCall({}, Control \cup {<<"memory", i>>}),
                           SysCall({<<"mapping", i>>}, Control \cup {<<"memory", i>>})>>
    [] kind = "wx" -> <<Refusal(Control)>>
    [] kind = "overflowing" -> <<Refusal({})>>
    [] kind = "empty" -> <<>>

(* Mutant of spawn_calls: a refused Start leaves the process handle. *)
spawn_calls_start_leaks(image) ==
  <<SysCall({One("process")}, {}), SysCall({One("aspace")}, {One("process")}),
    SysCall({One("thread")}, {One("process"), One("aspace")}), SysCall({One("cspace")}, Control)>>
  \o FlattenSeq([i \in DOMAIN image |-> load_segment(image[i], i)])
  \o <<SysCall({One("stack")}, Control), SysCall({One("stackmapping")}, Control \cup {One("stack")}),
       SysCall({}, Control \cup {One("cspace")}), SysCall({}, Control), SysCall({}, Control \ {One("process")})>>

(* spawn: create the process, acquire its parts, load the segments, make    *)
(* the stack, install a capability, configure the main thread, start.       *)
spawn_calls(image) ==
  <<SysCall({One("process")}, {}), SysCall({One("aspace")}, {One("process")}),
    SysCall({One("thread")}, {One("process"), One("aspace")}), SysCall({One("cspace")}, Control)>>
  \o FlattenSeq([i \in DOMAIN image |-> load_segment(image[i], i)])
  \o <<SysCall({One("stack")}, Control), SysCall({One("stackmapping")}, Control \cup {One("stack")}),
       SysCall({}, Control \cup {One("cspace")}), SysCall({}, Control), SysCall({}, Control)>>

gained(calls, n) == UNION {calls[i].gain : i \in 1..n}

(* The ways a build can end: at the n-th call, or started (n = Len + 1).    *)
outcomes(calls) ==
  {n \in 1..(Len(calls) + 1) : \A i \in 1..(n - 1) : ~calls[i].doomed}

left_behind(calls, n) ==
  IF n > Len(calls) THEN gained(calls, Len(calls)) \ {One("cspace"), One("thread"), One("aspace")}
  ELSE gained(calls, n - 1) \ calls[n].undo

Instance(state, process, restarts) == [state |-> state, process |-> process, restarts |-> restarts]
Nothing == 0           \* process_handle = None; builds are numbered from 1

may_start(d, restarts) == restarts < MaxRestarts[d]

(* start_driver for driver d as instance says, keeping or having taken its *)
(* process_handle; a failed spawn leaves the instance but for its state.    *)
start_driver(d, instance, table, processes, failed) ==
  IF ~may_start(d, instance.restarts)
  THEN /\ drv' = [drv EXCEPT ![d] = [instance EXCEPT !.state = "FailedPermanently"]]
       /\ owned' = table /\ procs' = processes /\ UNCHANGED builds
  ELSE /\ builds[d] < MaxBuilds /\ builds' = [builds EXCEPT ![d] = @ + 1]
       /\ LET calls == spawn_calls(Image[d])
              b == builds[d] + 1
          IN  \E n \in outcomes(calls) :
                /\ owned' = table \cup {<<d, b, h>> : h \in left_behind(calls, n)}
                /\ IF n > Len(calls)
                   THEN /\ drv' = [drv EXCEPT ![d] = Instance("Running", b, instance.restarts)]
                        /\ procs' = (<<d, b>> :> "running") @@ processes
                   ELSE /\ drv' = [drv EXCEPT ![d] = [instance EXCEPT !.state = failed]]
                        /\ procs' = processes

(* The supervisor is asked to start a driver it registered, whether or not  *)
(* it recorded a process for it: the new handle replaces the old one.       *)
StartDriver(d) ==
  /\ start_driver(d, drv[d], owned, procs, drv[d].state)
  /\ again' = IF drv[d].process # Nothing /\ procs' # procs THEN again \cup {d} ELSE again
  /\ UNCHANGED reports

(* A driver process exits by itself, and is a Zombie, or faults, and stays  *)
(* Runnable without a thread.                                               *)
DriverStops(p, how) ==
  /\ procs[p] = "running" /\ procs' = [procs EXCEPT ![p] = how] /\ reports' = reports \cup {p}
  /\ UNCHANGED <<drv, builds, owned, again>>

(* Reap takes a Zombie away and is refused for any other process. *)
reap(processes, p) ==
  IF p \in DOMAIN processes /\ processes[p] = "exited"
  THEN Restrict(processes, DOMAIN processes \ {p}) ELSE processes

(* handle_driver_exit: reap whatever process is recorded, whether or not    *)
(* the kernel does, delete its handle, count, restart.  A restart that      *)
(* fails is final for this call.                                            *)
HandleDriverExit(p) ==
  LET d == p[1]
      taken == Instance(drv[d].state, Nothing, drv[d].restarts + 1)
      table == owned \ {<<d, drv[d].process, One("process")>>}
      processes == reap(procs, <<d, drv[d].process>>)
  IN  /\ p \in reports /\ reports' = reports \ {p}
      /\ IF taken.restarts >= MaxRestarts[d]
         THEN /\ drv' = [drv EXCEPT ![d] = [taken EXCEPT !.state = "FailedPermanently"]]
              /\ owned' = table /\ procs' = processes /\ UNCHANGED builds
         ELSE start_driver(d, taken, table, processes, "FailedPermanently")
      /\ UNCHANGED again

DInit ==
  /\ drv = [d \in Drivers |-> Instance("Uninitialized", Nothing, 0)]
  /\ builds = [d \in Drivers |-> 0] /\ owned = {} /\ procs = <<>> /\ reports = {} /\ again = {}

DNext ==
  \/ \E d \in Drivers : StartDriver(d)
  \/ \E p \in DOMAIN procs, how \in {"exited", "faulted"} : DriverStops(p, how)
  \/ \E p \in reports : HandleDriverExit(p)

DSpec == DInit /\ [][DNext]_dvars
-----------------------------------------------------------------------------
processes_of(d) == {p \in DOMAIN procs : p[1] = d}
control_handles(d) == {h \in owned : h[1] = d /\ h[3] \in Control}

(* However builds, exits and restarts fail: the supervisor records a       *)
(* process exactly while it says the driver is Running, holds its handle,  *)
(* and it is restarted fewer than max_restarts times.  As long as no       *)
(* driver is started while it has a process, that process is the only one  *)
(* of the driver which runs or waits to be reaped (a faulted one stays     *)
(* behind, since Reap refuses it), and a build that did not start leaves   *)
(* no handle on a process, its address space or its thread, unless the     *)
(* size of a segment overflowed.                                           *)
DriversSupervised ==
  \A d \in Drivers :
    LET recorded == {<<d, drv[d].process>>} \ {<<d, Nothing>>}
        handles == {<<d, p[2], One("process")>> : p \in recorded}
    IN  /\ drv[d].state = "Running" <=> recorded # {}
        /\ recorded \subseteq processes_of(d) /\ handles \subseteq owned
        /\ recorded # {} => drv[d].restarts < MaxRestarts[d]
        /\ d \notin again =>
             /\ {p \in processes_of(d) : procs[p] # "faulted"} \subseteq recorded
             /\ "overflowing" \notin Range(Image[d]) => control_handles(d) = handles
=============================================================================
