------------------------------ MODULE Platform -----------------------------
(***************************************************************************)
(* How the kernel takes over the interrupt hardware: the handoff of the    *)
(* boot loader (arch/boot.rs), the firmware tables (acpi.rs), the local    *)
(* APIC and its timer (apic.rs), the IOAPIC (ioapic.rs) and the vector     *)
(* slots of the legacy lines (interrupts.rs).  A firmware table is a       *)
(* record with at most one flaw, the first that its reader would meet;     *)
(* whatever fails halts the boot.                                          *)
(***************************************************************************)
EXTENDS Naturals, Sequences, SequencesExt, FiniteSets

CONSTANTS Machines,    \* loader answers, firmware tables and processors to boot on
          HhdmOffset,  \* of the direct map the boot loader made
          IsaIrqs,     \* 0..15
          MaxLeases,   \* bound: interrupt objects created one after the other
          Absent       \* model value: None

ASSUME PlatformAssumption == HhdmOffset \in Nat \ {0} /\ IsaIrqs \subseteq Nat /\ MaxLeases \in Nat

VARIABLES hw,        \* the machine
          hwstage,   \* what the boot does next; "up", or "halt"
          unread,    \* XSDT entries not looked at yet
          info,      \* LocalApicInfo
          timer,     \* the local APIC timer: as the firmware left it, masked or periodic
          redir,     \* IOAPIC redirection entry -> [vector, masked]
          slots,     \* VECTORS: per irq [active, generation]
          leased     \* interrupt objects created so far

hwvars == <<hw, hwstage, unread, info, timer, redir, slots, leased>>

(* Base revision 3 hands over a physical RSDP address, others a virtual one *)
rsdp_info(address, revision) ==
  IF address = 0 \/ (revision # 3 /\ address < HhdmOffset) THEN Absent
  ELSE IF revision = 3 THEN address ELSE address - HhdmOffset

framebuffer_ok(f) == f = Absent \/ (f.bpp = 32 /\ f.pitch >= f.width * 4 /\ f.address >= HhdmOffset)

Goto(next) == hwstage' = next
Unchanged == UNCHANGED <<hw, slots, leased>>

Required == {"memmap", "hhdm", "paging_mode", "executable", "modules"}

CaptureHandoff ==
  /\ hwstage = "handoff"
  /\ LET l == hw.loader
         ok == /\ l.revision # Absent /\ Required \subseteq l.responses /\ l.four_levels
               /\ framebuffer_ok(l.framebuffer)
               /\ l.rsdp # Absent => rsdp_info(l.rsdp, l.revision) # Absent
     IN  Goto(IF ok THEN "acpi" ELSE "halt")
  /\ UNCHANGED <<unread, info, timer, redir>> /\ Unchanged

(* discover_from_boot_context: without an RSDP there is nothing to read.   *)
DiscoverAcpi ==
  /\ hwstage = "acpi"
  /\ LET l == hw.loader
     IN  Goto(IF l.rsdp # Absent /\ rsdp_info(l.rsdp, l.revision) = hw.rsdp.at THEN "rsdp" ELSE "halt")
  /\ UNCHANGED <<unread, info, timer, redir>> /\ Unchanged
-----------------------------------------------------------------------------
(* read_sdt: every page of the table is firmware memory, the length in its *)
(* header is sane and the sum of its bytes is 0.                           *)
read_sdt(address) ==
  IF address \in DOMAIN hw.tables THEN hw.tables[address] ELSE [flaw |-> "PhysicalReadFailed"]

sound(table) == table.flaw = "none"

(* discover_local_apic: RSDP, then XSDT *)
ReadRsdp ==
  /\ hwstage = "rsdp"
  /\ LET xsdt == read_sdt(hw.rsdp.xsdt)
         ok == /\ sound(hw.rsdp) /\ hw.rsdp.revision >= 2 /\ hw.rsdp.xsdt # 0
               /\ sound(xsdt) /\ xsdt.sig = "XSDT" /\ ~xsdt.ragged
     IN  /\ Goto(IF ok THEN "madt" ELSE "halt")
         /\ unread' = IF ok THEN xsdt.entries ELSE <<>>
  /\ UNCHANGED <<info, timer, redir>> /\ Unchanged

NoInfo == [error |-> "", ecam |-> Absent, address |-> 0, used_override |-> FALSE, ioapic |-> Absent,
           irqs |-> [i \in IsaIrqs |-> i], seen |-> {}]

(* One subtable of the MADT; the first error ends the parse.  An address   *)
(* of 0 stands for one that is null or not page-aligned.                   *)
madt_entry(acc, e) ==
  IF acc.error # "" THEN acc
  ELSE IF e.malformed THEN [acc EXCEPT !.error = "MalformedMadtEntry"]
  ELSE CASE e.type = "lapic_override" ->
              IF acc.used_override THEN [acc EXCEPT !.error = "DuplicateLocalApicOverride"]
              ELSE [acc EXCEPT !.address = e.address, !.used_override = TRUE]
         [] e.type = "ioapic" ->
              IF e.address = 0 THEN [acc EXCEPT !.error = "InvalidIoApicAddress"]
              ELSE IF acc.ioapic # Absent THEN [acc EXCEPT !.error = "DuplicateIoApic"]
              ELSE [acc EXCEPT !.ioapic = [address |-> e.address, gsi_base |-> e.gsi_base]]
         [] e.type = "source_override" ->
              IF e.irq \notin IsaIrqs \/ e.irq \in acc.seen
              THEN [acc EXCEPT !.error = "DuplicateInterruptSourceOverride"]
              ELSE [acc EXCEPT !.irqs[e.irq] = e.gsi, !.seen = @ \cup {e.irq}]
         [] OTHER -> acc

parse_madt(t) ==
  LET acc == FoldLeft(madt_entry, [NoInfo EXCEPT !.address = t.address], t.entries)
  IN  IF acc.error = "" /\ acc.address = 0 THEN [acc EXCEPT !.error = "InvalidLocalApicAddress"] ELSE acc

(* Tables are read in the order of the XSDT up to the first MADT, so that  *)
(* a damaged table before it ends the discovery.                           *)
ReadTable ==
  /\ hwstage = "madt"
  /\ IF unread = <<>> THEN Goto("halt") /\ UNCHANGED <<unread, info>>
     ELSE LET t == read_sdt(Head(unread))
          IN  IF ~sound(t) THEN Goto("halt") /\ UNCHANGED <<unread, info>>
              ELSE IF t.sig # "APIC" THEN Goto("madt") /\ unread' = Tail(unread) /\ UNCHANGED info
              ELSE /\ info' = parse_madt(t) /\ unread' = <<>>
                   /\ Goto(IF info'.error = "" THEN "lapic" ELSE "halt")
  /\ UNCHANGED <<timer, redir>> /\ Unchanged
-----------------------------------------------------------------------------
cpu_ok(cpu) == cpu.lapic /\ cpu.pat /\ cpu.bsp /\ ~cpu.x2apic

(* apic::initialize: the processor agrees with the MADT; the timer the     *)
(* firmware may have left running is masked, and so are the PICs.          *)
InitLocalApic ==
  /\ hwstage = "lapic"
  /\ LET ok == cpu_ok(hw.cpu) /\ hw.cpu.base = info.address
     IN  IF ok THEN Goto("ioapic") /\ timer' = "masked" ELSE Goto("halt") /\ UNCHANGED timer
  /\ UNCHANGED <<unread, info, redir>> /\ Unchanged

MaxEntry == hw.ioapic.max_entry

gsi_to_redirection(gsi) ==
  IF gsi < info.ioapic.gsi_base \/ gsi > info.ioapic.gsi_base + MaxEntry THEN Absent
  ELSE gsi - info.ioapic.gsi_base

isa_irq_to_gsi(irq) == IF gsi_to_redirection(info.irqs[irq]) = Absent THEN Absent ELSE info.irqs[irq]

(* Mutant of masked_entries: the loop over 0..max_entry stops one early. *)
masked_entries_exclusive(entries) ==
  [e \in DOMAIN entries |-> IF e < MaxEntry THEN [entries[e] EXCEPT !.masked = TRUE] ELSE entries[e]]

masked_entries(entries) == [e \in DOMAIN entries |-> [entries[e] EXCEPT !.masked = TRUE]]

InitIoApic ==
  /\ hwstage = "ioapic"
  /\ IF info.ioapic = Absent \/ MaxEntry = 0 THEN Goto("halt") /\ UNCHANGED redir
     ELSE Goto(IF hw.pci THEN "pci" ELSE "timer") /\ redir' = masked_entries(redir)
  /\ UNCHANGED <<unread, info, timer>> /\ Unchanged

(* discover_mcfg walks the tables again, for the driver profile: the first *)
(* MCFG must have segments, all of them well-formed.                       *)
discover_mcfg ==
  LET order == read_sdt(hw.rsdp.xsdt).entries
      stops == {i \in DOMAIN order : ~sound(read_sdt(order[i])) \/ read_sdt(order[i]).sig = "MCFG"}
      first == CHOOSE i \in stops : \A j \in stops : i <= j
      t == read_sdt(order[first])
  IN  IF stops = {} \/ ~sound(t) \/ t.ragged THEN <<>>
      ELSE IF \E i \in DOMAIN t.entries : t.entries[i].base = 0 \/ t.entries[i].first > t.entries[i].last
      THEN <<>> ELSE t.entries

DiscoverPci ==
  /\ hwstage = "pci"
  /\ \E segments \in {discover_mcfg} :
       IF segments = <<>> THEN Goto("halt") /\ UNCHANGED info
       ELSE /\ Goto("timer")
            /\ info' = [info EXCEPT !.ecam = [base |-> segments[1].base,
                                            buses |-> segments[1].last - segments[1].first + 1]]
  /\ UNCHANGED <<unread, timer, redir>> /\ Unchanged

(* calibrate_timer against the PIT, then start_preemption_timer; the       *)
(* processor takes interrupts once init has been entered.                  *)
StartTimer ==
  /\ hwstage = "timer"
  /\ IF hw.cpu.ticks_sane THEN Goto("up") /\ timer' = "periodic" ELSE Goto("halt") /\ UNCHANGED timer
  /\ UNCHANGED <<unread, info, redir>> /\ Unchanged
-----------------------------------------------------------------------------
entry_of(irq) == IF isa_irq_to_gsi(irq) = Absent THEN Absent ELSE gsi_to_redirection(isa_irq_to_gsi(irq))

(* ioapic_set_redirection, ioapic_mask_irq and ioapic_unmask_irq do        *)
(* nothing, without an error, on a line that has no redirection entry.     *)
ioapic_set_redirection(irq, m) ==
  IF entry_of(irq) = Absent THEN redir ELSE [redir EXCEPT ![entry_of(irq)] = [vector |-> irq, masked |-> m]]

ioapic_mask(irq, m) == IF entry_of(irq) = Absent THEN redir ELSE [redir EXCEPT ![entry_of(irq)].masked = m]

Serving == hwstage = "up" /\ UNCHANGED <<hw, hwstage, unread, info, timer>>

(* interrupts::allocate: one lease per line; its vector is its number. *)
Lease(irq) ==
  /\ Serving /\ leased < MaxLeases /\ ~slots[irq].active
  /\ slots' = [slots EXCEPT ![irq].active = TRUE]
  /\ redir' = ioapic_set_redirection(irq, TRUE) /\ leased' = leased + 1

(* InterruptControl by the holder of the lease; the handler masks too. *)
UnmaskLine(irq) == Serving /\ slots[irq].active /\ redir' = ioapic_mask(irq, FALSE) /\ UNCHANGED <<slots, leased>>
MaskLine(irq) == Serving /\ slots[irq].active /\ redir' = ioapic_mask(irq, TRUE) /\ UNCHANGED <<slots, leased>>

(* A vector arrives: the handler masks the line the vector stands for. *)
TakeVector(e) ==
  /\ Serving /\ ~redir[e].masked /\ slots[redir[e].vector].active
  /\ redir' = ioapic_mask(redir[e].vector, TRUE) /\ UNCHANGED <<slots, leased>>

(* The last handle goes: the line is masked before its slot is released. *)
Release(irq) ==
  /\ Serving /\ slots[irq].active
  /\ redir' = ioapic_mask(irq, TRUE)
  /\ slots' = [slots EXCEPT ![irq] = [active |-> FALSE, generation |-> @.generation + 1]]
  /\ UNCHANGED leased

HwInit ==
  /\ hw \in Machines /\ hwstage = "handoff" /\ unread = <<>> /\ info = NoInfo
  /\ timer = "firmware" /\ redir = hw.ioapic.entries
  /\ slots = [i \in IsaIrqs |-> [active |-> FALSE, generation |-> 1]] /\ leased = 0

HwNext ==
  \/ CaptureHandoff \/ DiscoverAcpi \/ ReadRsdp \/ ReadTable \/ InitLocalApic \/ InitIoApic \/ DiscoverPci \/ StartTimer
  \/ \E irq \in IsaIrqs : Lease(irq) \/ UnmaskLine(irq) \/ MaskLine(irq) \/ Release(irq)
  \/ \E e \in DOMAIN redir : TakeVector(e)

HwSpec == HwInit /\ [][HwNext]_hwvars
-----------------------------------------------------------------------------
(* What the firmware says of a line, told without reading it in order *)
Madts == {t \in {hw.tables[a] : a \in DOMAIN hw.tables} : sound(t) /\ t.sig = "APIC"}
routed(t, irq) ==
  LET overrides == {e \in ToSet(t.entries) : e.type = "source_override" /\ e.irq = irq}
  IN  IF overrides = {} THEN {irq} ELSE {e.gsi : e \in overrides}

(* Two lines in use that the firmware wires to one input race for its entry. *)
Used == {i \in IsaIrqs : slots[i].active \/ slots[i].generation > 1}
Apart == \A i, j \in Used : i # j /\ entry_of(i) # Absent => entry_of(i) # entry_of(j)

(* Once the system is up, whatever the firmware left running, an interrupt *)
(* comes from a source the kernel owns: the timer it started, or a line    *)
(* whose holder unmasked it, wired to that entry by a sound MADT with one  *)
(* IOAPIC, and with the vector of that holder's live lease (as long as the *)
(* firmware wires no two lines in use to one input).                       *)
OwnedInterrupts ==
  hwstage = "up" =>
    /\ timer = "periodic" /\ cpu_ok(hw.cpu) /\ hw.cpu.base = info.address
    /\ \E t \in Madts :
         /\ \A irq \in IsaIrqs : routed(t, irq) = {info.irqs[irq]}
         /\ {e.gsi_base : e \in {e \in ToSet(t.entries) : e.type = "ioapic"}} = {info.ioapic.gsi_base}
    /\ hw.pci => info.ecam.buses > 0
    /\ Apart => \A e \in DOMAIN redir :
                  ~redir[e].masked => /\ slots[redir[e].vector].active
                                      /\ info.irqs[redir[e].vector] = info.ioapic.gsi_base + e
=============================================================================
