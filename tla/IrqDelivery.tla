----------------------------- MODULE IrqDelivery -----------------------------
(***************************************************************************)
(* Device interrupts on one legacy line: the vector slot                   *)
(* (arch/interrupts.rs), the InterruptObject (kernel-core/interrupt.rs),   *)
(* the IOAPIC entry, the interrupt handler (exceptions.rs), the            *)
(* InterruptControl system call, and creation, derivation and deletion of  *)
(* interrupt handles.  Every holder of a handle has one notification.      *)
(*                                                                         *)
(* System calls run with interrupts masked: a vector the local APIC        *)
(* accepted during a call (irr = 1) is taken as soon as the call returns   *)
(* (irr = 2), before user code can enter the kernel again.  On the single  *)
(* processor the handler therefore never finds a registry locked.          *)
(***************************************************************************)
EXTENDS Naturals, FiniteSets

CONSTANTS
  Holders,      \* processes that may hold a handle; the notification of each
  Creator,      \* the process whose factory creates the object
  None,
  LevelObjects, \* objects whose IOAPIC entry is level-triggered
  MaxObjects    \* bound: interrupt objects created one after the other

ASSUME IrqAssumption ==
  /\ Creator \in Holders
  /\ None \notin Holders
  /\ LevelObjects \subseteq Nat
  /\ MaxObjects \in Nat \ {0}

VARIABLES
  slot,         \* VECTORS[irq]; interrupt and notification 0 is None
  objs,         \* the InterruptObjects created so far, in INTERRUPTS if live
  caps,         \* handles: <<holder, object>>
  masked,       \* the mask bit of the IOAPIC redirection entry
  line,         \* the device asserts its interrupt line
  irr,          \* 0: no vector accepted; 1, 2: see above
  signals       \* the notification bit of each holder

irqvars == <<slot, objs, caps, masked, line, irr, signals>>

Ids == 1..MaxObjects

Unborn == [live |-> FALSE, generation |-> 0, bound |-> None, refs |-> 0,
           masked |-> TRUE, in_flight |-> FALSE]

Live == {o \in Ids : objs[o].live}

Init ==
  /\ slot = [active |-> FALSE, generation |-> 1, interrupt |-> None,
             notification |-> None, pending |-> 0]
  /\ objs = [o \in Ids |-> Unborn]
  /\ caps = {}
  /\ masked = TRUE
  /\ line = FALSE
  /\ irr = 0
  /\ signals = [h \in Holders |-> 0]
-----------------------------------------------------------------------------
(* A level-triggered entry sends its vector whenever the line is asserted  *)
(* and open; an edge-triggered one only when the line rises while open.    *)
(* The kernel programs the entry of the object it makes for init at boot   *)
(* as level-triggered (init.rs); FactoryCreate, as edge-triggered.         *)
LevelTriggered == slot.interrupt \in LevelObjects

fires(l, m, rising) == l /\ ~m /\ (LevelTriggered \/ rising)

(* The kernel is entered by user code, so no vector waits for delivery. *)
Entered == irr < 2

Returns(m) == irr' = IF irr = 1 \/ fires(line, m, FALSE) THEN 2 ELSE 0

(* The device raises its line. *)
Assert ==
  /\ ~line
  /\ line' = TRUE
  /\ irr' = IF irr = 0 /\ fires(TRUE, masked, TRUE) THEN 1 ELSE irr
  /\ UNCHANGED <<slot, objs, caps, masked, signals>>

(* Driver code services the device, which lowers its line. *)
Drain ==
  /\ line
  /\ Entered
  /\ line' = FALSE
  /\ UNCHANGED <<slot, objs, caps, masked, irr, signals>>
-----------------------------------------------------------------------------
(* FactoryCreate of an InterruptObject: arena entry, interrupts::allocate, *)
(* a masked redirection entry, root handle, InterruptObject.  A line in    *)
(* use is refused.                                                         *)
Create(o) ==
  /\ Entered
  /\ ~slot.active
  /\ objs[o] = Unborn /\ \A p \in 1..(o - 1) : objs[p] # Unborn
  /\ slot' = [slot EXCEPT !.active = TRUE, !.interrupt = o, !.notification = None, !.pending = 0]
  /\ objs' = [objs EXCEPT ![o] = [Unborn EXCEPT !.live = TRUE, !.refs = 1,
                                                !.generation = slot.generation]]
  /\ caps' = caps \cup {<<Creator, o>>}
  /\ masked' = TRUE
  /\ Returns(TRUE)
  /\ UNCHANGED <<line, signals>>

(* Derive or InstallCapability of h's handle into the space of g. *)
Derive(h, g, o) ==
  /\ Entered
  /\ <<h, o>> \in caps /\ <<g, o>> \notin caps
  /\ caps' = caps \cup {<<g, o>>}
  /\ objs' = [objs EXCEPT ![o].refs = @ + 1]
  /\ Returns(masked)
  /\ UNCHANGED <<slot, masked, line, signals>>

unbind_notification(obj) ==
  IF obj.bound = None THEN obj
  ELSE [obj EXCEPT !.bound = None, !.in_flight = FALSE, !.masked = TRUE]

dec_capability_ref(obj) == [obj EXCEPT !.refs = @ - 1]

unmask(obj) ==
  IF obj.bound # None /\ ~obj.in_flight THEN [obj EXCEPT !.masked = FALSE] ELSE obj

leased(obj) == slot.active /\ slot.generation = obj.generation

(* InterruptOp::BindNotification *)
BindNotification(h, o) ==
  /\ Entered
  /\ <<h, o>> \in caps /\ objs[o].live
  /\ objs[o].bound = None
  /\ IF leased(objs[o])
     THEN /\ objs' = [objs EXCEPT ![o].bound = h]
          /\ slot' = [slot EXCEPT !.notification = h]
     ELSE /\ objs' = [objs EXCEPT ![o] = unbind_notification([@ EXCEPT !.bound = h])]
          /\ UNCHANGED slot
  /\ Returns(masked)
  /\ UNCHANGED <<caps, masked, line, signals>>

(* Mutant of Mask: only the controller is told. *)
Mask_controller_only(h, o) ==
  /\ Entered
  /\ <<h, o>> \in caps /\ objs[o].live
  /\ masked' = TRUE
  /\ Returns(TRUE)
  /\ UNCHANGED <<slot, objs, caps, line, signals>>

(* InterruptOp::Mask *)
Mask(h, o) ==
  /\ Entered
  /\ <<h, o>> \in caps /\ objs[o].live
  /\ objs' = [objs EXCEPT ![o].masked = TRUE]
  /\ masked' = TRUE
  /\ Returns(TRUE)
  /\ UNCHANGED <<slot, caps, line, signals>>

(* InterruptOp::Unmask *)
Unmask(h, o) ==
  /\ Entered
  /\ <<h, o>> \in caps /\ objs[o].live
  /\ objs[o].bound # None /\ ~objs[o].in_flight
  /\ objs' = [objs EXCEPT ![o] = unmask(@)]
  /\ masked' = objs'[o].masked
  /\ Returns(masked')
  /\ UNCHANGED <<slot, caps, line, signals>>

(* InterruptOp::Ack *)
Ack(h, o) ==
  /\ Entered
  /\ <<h, o>> \in caps /\ objs[o].live
  /\ objs[o].in_flight
  /\ objs' = [objs EXCEPT ![o] = unmask([@ EXCEPT !.in_flight = FALSE])]
  /\ masked' = FALSE
  /\ Returns(FALSE)
  /\ UNCHANGED <<slot, caps, line, signals>>

(* Mutant of DeleteHandle: a handle that is not the last leaves the binding *)
(* of the object in place.                                                  *)
DeleteHandle_keeps_binding(h, o) ==
  /\ Entered
  /\ <<h, o>> \in caps
  /\ caps' = caps \ {<<h, o>>}
  /\ LET last  == objs[o].refs = 1
         clean == [slot EXCEPT !.notification = None, !.pending = 0]
     IN  /\ slot' = IF ~leased(objs[o]) THEN slot
                    ELSE IF last
                    THEN [clean EXCEPT !.active = FALSE, !.interrupt = None, !.generation = @ + 1]
                    ELSE clean
         /\ objs' = [objs EXCEPT ![o] =
                       IF last THEN [Unborn EXCEPT !.generation = objs[o].generation]
                       ELSE dec_capability_ref(objs[o])]
  /\ masked' = TRUE
  /\ Returns(TRUE)
  /\ UNCHANGED <<line, signals>>

(* delete_handle_internal on an interrupt handle, from DeleteHandle or     *)
(* Reap.  The line is masked and the slot unbound even if other handles    *)
(* remain; the last handle releases the vector and removes the object.     *)
DeleteHandle(h, o) ==
  /\ Entered
  /\ <<h, o>> \in caps
  /\ caps' = caps \ {<<h, o>>}
  /\ LET last  == objs[o].refs = 1
         clean == [slot EXCEPT !.notification = None, !.pending = 0]
     IN  /\ slot' = IF ~leased(objs[o]) THEN slot
                    ELSE IF last
                    THEN [clean EXCEPT !.active = FALSE, !.interrupt = None, !.generation = @ + 1]
                    ELSE clean
         /\ objs' = [objs EXCEPT ![o] =
                       IF last THEN [Unborn EXCEPT !.generation = objs[o].generation]
                       ELSE unbind_notification(dec_capability_ref(objs[o]))]
  /\ masked' = TRUE
  /\ Returns(TRUE)
  /\ UNCHANGED <<line, signals>>
-----------------------------------------------------------------------------
begin_delivery_ok(o) ==
  /\ o \in Live
  /\ objs[o].bound # None
  /\ ~objs[o].masked /\ ~objs[o].in_flight

(* signal_notification sets the bit of n. *)
signalled(n) == [signals EXCEPT ![n] = 1]

(* device_interrupt_handler: mask the line of an active vector, dispatch,  *)
(* begin_delivery, signal, take_pending, end of interrupt.                 *)
DeviceInterrupt ==
  /\ irr > 0
  /\ masked' = (masked \/ slot.active)
  /\ LET n == slot.notification
         o == slot.interrupt
         dispatched == slot.active /\ n # None
         begins     == dispatched /\ begin_delivery_ok(o)
         delivered  == begins /\ objs[o].bound = n
     IN  /\ objs' = IF begins THEN [objs EXCEPT ![o].masked = TRUE, ![o].in_flight = TRUE]
                    ELSE objs
         /\ signals' = IF delivered THEN signalled(n) ELSE signals
         /\ slot' = IF dispatched THEN [slot EXCEPT !.pending = IF delivered THEN 0 ELSE 1]
                    ELSE slot
  /\ irr' = IF fires(line, masked', FALSE) THEN 1 ELSE 0
  /\ UNCHANGED <<caps, line>>

(* WaitNotification takes the signal (KernelIpc models the blocking). *)
TakeSignal(h) ==
  /\ Entered
  /\ signals[h] = 1
  /\ signals' = [signals EXCEPT ![h] = 0]
  /\ Returns(masked)
  /\ UNCHANGED <<slot, objs, caps, masked, line>>

Next ==
  \/ Assert
  \/ Drain
  \/ DeviceInterrupt
  \/ \E o \in Ids :
       \/ Create(o)
       \/ \E h \in Holders :
            \/ \E g \in Holders : Derive(h, g, o)
            \/ BindNotification(h, o) \/ Mask(h, o) \/ Unmask(h, o) \/ Ack(h, o)
            \/ DeleteHandle(h, o)
  \/ \E h \in Holders : TakeSignal(h)

Spec == Init /\ [][Next]_irqvars
-----------------------------------------------------------------------------
(* The line is open at the IOAPIC exactly when a live object is unmasked:  *)
(* the handler, Ack, Mask, Unmask and teardown never leave the controller  *)
(* masked behind an object that believes it is armed (no interrupt would   *)
(* ever come again) nor open behind one that refuses delivery (a storm).   *)
ControllerAgrees == ~masked <=> \E o \in Live : ~objs[o].masked
=============================================================================
