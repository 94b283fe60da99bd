------------------------------ MODULE IrqDriver ------------------------------
(***************************************************************************)
(* IrqDelivery driven by a supervisor and its drivers.  A driver binds and *)
(* unmasks, then waits, services the device and acknowledges, and at the   *)
(* end masks and deletes its handle (test_virtio_rng.rs; reading the       *)
(* device's ISR register lowers the line).  The supervisor creates the     *)
(* object, launches one driver at a time, may kill it at any point, and    *)
(* between two drivers may replace the object.                             *)
(***************************************************************************)
EXTENDS IrqDelivery

VARIABLE step   \* what each driver does next

dvars == <<slot, objs, caps, masked, line, irr, signals, step>>

Drivers == Holders \ {Creator}

Running(d) == step[d] \notin {"absent", "gone"}

(* There is a driver left to launch, so the one that runs may go. *)
Replaceable == \E d \in Drivers : step[d] = "absent"

DInit == Init /\ step = [d \in Drivers |-> "absent"]

Goes(d, from, to) == step[d] = from /\ step' = [step EXCEPT ![d] = to]

CreateObject == \E o \in Ids : Create(o) /\ UNCHANGED step

(* The supervisor drops its own handle, and with it the object. *)
Retire ==
  /\ \A d \in Drivers : ~Running(d)
  /\ Replaceable
  /\ \E o \in Ids \ {MaxObjects} : DeleteHandle(Creator, o)
  /\ UNCHANGED step

(* InstallCapability into a new driver when none runs. *)
Launch(d) ==
  /\ \A c \in Drivers : ~Running(c)
  /\ \E o \in Ids : Derive(Creator, d, o)
  /\ Goes(d, "absent", "Bind")

(* The driver dies in any state and is reaped. *)
Kill(d) ==
  /\ Running(d) /\ Replaceable
  /\ \E o \in Ids : DeleteHandle(d, o)
  /\ step' = [step EXCEPT ![d] = "gone"]

DriverStep(d, o) ==
  \/ BindNotification(d, o) /\ Goes(d, "Bind", "Unmask")
  \/ Unmask(d, o) /\ Goes(d, "Unmask", "Wait")
  \/ TakeSignal(d) /\ Goes(d, "Wait", "Drain")
  \/ Drain /\ Goes(d, "Drain", "Ack")
  \/ Ack(d, o) /\ Goes(d, "Ack", "Wait")
  \/ Replaceable /\ Mask(d, o) /\ Goes(d, "Wait", "Delete")
  \/ DeleteHandle(d, o) /\ Goes(d, "Delete", "gone")

Proceed(d) == \E o \in Ids : DriverStep(d, o)

DNext ==
  \/ (Assert \/ DeviceInterrupt) /\ UNCHANGED step
  \/ CreateObject
  \/ Retire
  \/ \E d \in Drivers : Launch(d) \/ Kill(d) \/ Proceed(d)

DSpec == DInit /\ [][DNext]_dvars

(* The device may stay silent and drivers need not die.  A driver that is  *)
(* scheduled proceeds, an accepted vector is taken, the supervisor         *)
(* replaces a driver or an object that is gone.                            *)
DFairness ==
  /\ WF_dvars(DeviceInterrupt /\ UNCHANGED step)
  /\ WF_dvars(CreateObject)
  /\ \A d \in Drivers : WF_dvars(Proceed(d)) /\ WF_dvars(Launch(d))

DFairSpec == DSpec /\ DFairness
-----------------------------------------------------------------------------
(* Every event of a device on a level-triggered entry is serviced, by the  *)
(* driver that runs or by the one that replaces it, whenever the previous  *)
(* one died and whatever it had done, unless the supervisor retires the    *)
(* object itself.                                                          *)
EventServed == line /\ LevelTriggered ~> ~line \/ ~LevelTriggered
=============================================================================
