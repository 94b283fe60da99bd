----------------------------- MODULE MCPlatform ----------------------------
(***************************************************************************)
(* Machines to boot on: one that works, and variations of one part of it   *)
(* at a time.  Addresses are small numbers: the RSDP at 1, the XSDT at 10, *)
(* the MADT at 11, another table at 12, the local APIC at 60 or 61.        *)
(***************************************************************************)
EXTENDS Platform, TLC

MCLoader(revision, rsdp) == [revision |-> revision, rsdp |-> rsdp, responses |-> Required, four_levels |-> TRUE,
                             framebuffer |-> Absent]
MCScreen(bpp, pitch, address) == [bpp |-> bpp, width |-> 1, pitch |-> pitch, address |-> address]

(* The RSDP as a physical or as a virtual address; missing or odd answers *)
MCLoaders ==
  {MCLoader(3, 1), MCLoader(4, 101), MCLoader(4, 1), MCLoader(3, 0), MCLoader(Absent, 1), MCLoader(3, Absent),
   [MCLoader(3, 1) EXCEPT !.responses = @ \ {"hhdm"}], [MCLoader(3, 1) EXCEPT !.four_levels = FALSE]}
  \cup {[MCLoader(3, 1) EXCEPT !.framebuffer = f] :
          f \in {MCScreen(32, 4, 150), MCScreen(24, 4, 150), MCScreen(32, 3, 150), MCScreen(32, 4, 50)}}

MCEntry(type, address) == [type |-> type, malformed |-> FALSE, address |-> address, gsi_base |-> 0, irq |-> 0, gsi |-> 0]
MCOverride(irq, gsi) == [MCEntry("source_override", 0) EXCEPT !.irq = irq, !.gsi = gsi]
MCIoApic(address, base) == [MCEntry("ioapic", address) EXCEPT !.gsi_base = base]
MCLapic(address) == MCEntry("lapic_override", address)
MCTable(sig, entries) == [sig |-> sig, flaw |-> "none", ragged |-> FALSE, entries |-> entries, address |-> 60]

(* Identity lines; IRQ 0 moved onto IRQ 2's input, as PCs do; inputs out   *)
(* of range; lines swapped; an IOAPIC whose inputs start at 1; repeated,   *)
(* missing and malformed entries; moved local APICs.                       *)
MCMadts == {MCTable("APIC", e) : e \in
  {<<MCIoApic(70, 0)>>, <<MCIoApic(70, 1), MCOverride(0, 2)>>,
   <<MCOverride(0, 2), MCEntry("other", 0), MCIoApic(70, 0), MCLapic(61)>>, <<MCIoApic(70, 0), MCOverride(0, 9)>>,
   <<MCIoApic(70, 0), MCOverride(0, 1), MCOverride(1, 0)>>, <<MCIoApic(70, 0), MCOverride(0, 1), MCOverride(0, 2)>>,
   <<MCIoApic(70, 0), MCOverride(7, 2)>>, <<MCIoApic(70, 0), MCIoApic(71, 4)>>, <<>>, <<MCIoApic(0, 0)>>,
   <<MCLapic(61), MCLapic(60), MCIoApic(70, 0)>>, <<MCLapic(0), MCIoApic(70, 0)>>,
   <<[MCEntry("other", 0) EXCEPT !.malformed = TRUE]>>}}
MCMadt == MCTable("APIC", <<MCIoApic(70, 0), MCOverride(0, 2)>>)

MCSegment(first, last) == [base |-> 80, first |-> first, last |-> last]
MCMcfgs == {[MCTable("MCFG", e) EXCEPT !.ragged = r] : r \in BOOLEAN, e \in {<<MCSegment(0, 1)>>, <<MCSegment(2, 1)>>, <<>>}}
MCMcfg == MCTable("MCFG", <<MCSegment(0, 1)>>)

MCTables(order, madt, other) == 10 :> MCTable("XSDT", order) @@ 11 :> madt @@ 12 :> other
MCRsdp(flaw, revision, xsdt) == [at |-> 1, flaw |-> flaw, revision |-> revision, xsdt |-> xsdt]
MCCpu == [lapic |-> TRUE, pat |-> TRUE, bsp |-> TRUE, x2apic |-> FALSE, base |-> 60, ticks_sane |-> TRUE]
MCInputs(n) == [max_entry |-> n, entries |-> [e \in 0..n |-> [vector |-> 0, masked |-> e = 0]]]

MCMachine == [loader |-> MCLoader(3, 1), rsdp |-> MCRsdp("none", 2, 10), tables |-> MCTables(<<12, 11>>, MCMadt, MCMcfg),
              cpu |-> MCCpu, ioapic |-> MCInputs(2), pci |-> FALSE]

MCMachines ==
  {[MCMachine EXCEPT !.loader = l] : l \in MCLoaders}
  \cup {[MCMachine EXCEPT !.rsdp = r] : r \in {MCRsdp("InvalidChecksum", 2, 10), MCRsdp("none", 1, 10),
                                               MCRsdp("none", 2, 0), MCRsdp("none", 2, 11), MCRsdp("none", 2, 99)}}
  \cup {[MCMachine EXCEPT !.tables = MCTables(<<12, 11>>, t, MCMcfg), !.cpu.base = b] : t \in MCMadts, b \in {60, 61}}
  \cup {[MCMachine EXCEPT !.tables = MCTables(order, MCMadt, c), !.pci = TRUE] :
          order \in {<<12, 11>>, <<11, 12>>, <<11>>, <<12>>, <<11, 0, 12>>},
          c \in MCMcfgs \cup {[MCMcfg EXCEPT !.flaw = "InvalidChecksum"]}}
  \cup {[MCMachine EXCEPT !.cpu = c] : c \in {[MCCpu EXCEPT !.lapic = FALSE], [MCCpu EXCEPT !.x2apic = TRUE],
                                              [MCCpu EXCEPT !.ticks_sane = FALSE]}}
  \cup {[MCMachine EXCEPT !.ioapic = MCInputs(0)], [MCMachine EXCEPT !.tables[10].ragged = TRUE]}
=============================================================================
