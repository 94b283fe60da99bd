---------------------------- MODULE PciDiscovery ---------------------------
(***************************************************************************)
(* The two scans of PCI configuration space: the kernel's search for its   *)
(* entropy device (arch/pci.rs) and the passive scan of the bus server     *)
(* (pci_bus_server/src/lib.rs), each a function at a time, in the order of *)
(* buses, devices and functions.  A device here is a bus and a device      *)
(* number.                                                                 *)
(***************************************************************************)
EXTENDS Naturals, Sequences, FiniteSets

CONSTANTS Buses,          \* configuration spaces to scan: <<device, function>> -> function
          LastDevice, LastFunction,
          FirstCap, LastCap,      \* offsets a capability may have: 0x40..0xFC
          MaxCaps,        \* 32: entries of a capability list that are followed
          LineLimit       \* 16 legacy lines

ASSUME PciAssumption == {LastDevice, LastFunction, FirstCap, LastCap, MaxCaps, LineLimit} \subseteq Nat

VARIABLES pci,        \* the configuration space
          kat,        \* the function discover_virtio_rng looks at next
          kresult,    \* what it returned: [status, at, regions]
          mastering,  \* functions it allowed to act as bus masters
          sat,        \* the function scan_segment looks at next
          devices     \* what scan_segment found: sequence of [at, caps]

pcivars == <<pci, kat, kresult, mastering, sat, devices>>

VirtioKinds == {"common", "notify", "isr"}
Searching == [status |-> "searching", at |-> <<0, 0>>, regions |-> <<>>]
Scanned(at) == at[1] > LastDevice

present(f) == f.vendor # "none"

advance(at, last) == IF last \/ at[2] = LastFunction THEN <<at[1] + 1, 0>> ELSE <<at[1], at[2] + 1>>

(* Mutant of last_function: a device is taken to have one function. *)
last_function_first(at, f) == at[2] = 0

(* Without function 0, and in a device that has only that one, the others  *)
(* are not looked at.                                                      *)
last_function(at, f) == at[2] = 0 /\ (~present(f) \/ ~f.multi)

(* A 64-bit register takes the next one along. *)
windows(f) ==
  LET own[k \in DOMAIN f.bars] == k = 1 \/ ~(own[k - 1] /\ f.bars[k - 1].kind = "mem64")
  IN  {k \in DOMAIN f.bars : own[k] /\ f.bars[k].kind \in {"mem32", "mem64"}}

in_range(offset) == offset \in FirstCap..LastCap

(* The offsets the kernel reads: none of them twice *)
followed(f) ==
  LET walk[n \in 1..MaxCaps] ==
        LET before == IF n = 1 THEN <<>> ELSE walk[n - 1]
            next == IF n = 1 THEN f.first ELSE f.caps[before[n - 1]].next
        IN  IF n > Len(before) + 1 \/ ~in_range(next) \/ \E i \in DOMAIN before : before[i] = next
            THEN before ELSE Append(before, next)
  IN  walk[MaxCaps]

(* The list the bus server records stops only at itself and at the bound. *)
recorded(f) ==
  LET walk[n \in 1..MaxCaps] ==
        LET before == IF n = 1 THEN <<>> ELSE walk[n - 1]
            next == IF n = 1 THEN f.first ELSE f.caps[before[n - 1]].next
        IN  IF n > Len(before) + 1 \/ ~in_range(next) \/ (n > 1 /\ before[n - 1] = next)
            THEN before ELSE Append(before, next)
  IN  walk[MaxCaps]

fits(f, c) == c.bar \in windows(f) /\ c.length # 0 /\ c.offset + c.length <= f.bars[c.bar].size

virtio_caps(f) == SelectSeq(followed(f), LAMBDA a : f.caps[a].type \in VirtioKinds)

(* The last capability of a kind counts; each must lie in its register.    *)
region_of(f, kind) ==
  LET of_kind == SelectSeq(virtio_caps(f), LAMBDA a : f.caps[a].type = kind)
  IN  f.caps[of_kind[Len(of_kind)]]

virtio_info(f) ==
  CASE f.line = 0 \/ f.line >= LineLimit -> [status |-> "InvalidInterruptLine", regions |-> <<>>]
    [] \E k \in windows(f) : f.bars[k].base = 0 \/ f.bars[k].size = 0 -> [status |-> "InvalidBar", regions |-> <<>>]
    [] \E i \in DOMAIN virtio_caps(f) : ~fits(f, f.caps[virtio_caps(f)[i]]) ->
         [status |-> "InvalidCapability", regions |-> <<>>]
    [] \E kind \in VirtioKinds : \A i \in DOMAIN virtio_caps(f) : f.caps[virtio_caps(f)[i]].type # kind ->
         [status |-> "MissingVirtioCapability", regions |-> <<>>]
    [] OTHER -> [status |-> "found", regions |-> [kind \in VirtioKinds |-> region_of(f, kind)]]
-----------------------------------------------------------------------------
(* One turn of discover_virtio_rng's loops.  The device is enabled before  *)
(* anything else of it is looked at.                                       *)
KernelProbe ==
  /\ kresult.status = "searching"
  /\ IF Scanned(kat)
     THEN kresult' = [kresult EXCEPT !.status = "NoDevice"] /\ UNCHANGED <<kat, mastering>>
     ELSE LET f == pci[kat]
          IN  IF f.vendor # "rng"
              THEN kat' = advance(kat, last_function(kat, f)) /\ UNCHANGED <<kresult, mastering>>
              ELSE /\ kresult' = [status |-> virtio_info(f).status, at |-> kat, regions |-> virtio_info(f).regions]
                   /\ mastering' = mastering \cup {kat} /\ UNCHANGED kat
  /\ UNCHANGED <<pci, sat, devices>>

(* One turn of scan_segment's *)
ServerProbe ==
  /\ ~Scanned(sat)
  /\ LET f == pci[sat]
     IN  /\ devices' = IF present(f) THEN Append(devices, [at |-> sat, caps |-> recorded(f)]) ELSE devices
         /\ sat' = advance(sat, last_function(sat, f))
  /\ UNCHANGED <<pci, kat, kresult, mastering>>

PciInit ==
  /\ pci \in Buses /\ kat = <<0, 0>> /\ kresult = Searching /\ mastering = {}
  /\ sat = <<0, 0>> /\ devices = <<>>

PciNext == KernelProbe \/ ServerProbe

PciSpec == PciInit /\ [][PciNext]_pcivars
-----------------------------------------------------------------------------
(* A function that exists: a device has its function 0, and another one    *)
(* only if that one says so.                                               *)
exists(at) == present(pci[at]) /\ (at[2] = 0 \/ (present(pci[<<at[1], 0>>]) /\ pci[<<at[1], 0>>].multi))
earlier(a, b) == a[1] < b[1] \/ (a[1] = b[1] /\ a[2] < b[2])
rngs == {at \in DOMAIN pci : exists(at) /\ pci[at].vendor = "rng"}

(* The two scans agree with the bus and with each other: the kernel ends   *)
(* on the first entropy device there is, or says that there is none, lets  *)
(* no other function master the bus, and takes only windows that lie in a  *)
(* register of that device; the server lists every function once and in    *)
(* order, with the capabilities the kernel would follow, and more only of  *)
(* a list that loops.                                                      *)
ScansAgree ==
  /\ kresult.status = "NoDevice" => rngs = {}
  /\ kresult.status \notin {"searching", "NoDevice"} =>
       kresult.at \in rngs /\ \A at \in rngs : at = kresult.at \/ earlier(kresult.at, at)
  /\ mastering \subseteq {kresult.at} \cap rngs
  /\ kresult.status = "found" => \A kind \in VirtioKinds : fits(pci[kresult.at], kresult.regions[kind])
  /\ Scanned(sat) => {devices[i].at : i \in DOMAIN devices} = {at \in DOMAIN pci : exists(at)}
  /\ \A i \in DOMAIN devices :
       LET f == pci[devices[i].at]
           seen == devices[i].caps
       IN  /\ i > 1 => earlier(devices[i - 1].at, devices[i].at)
           /\ SubSeq(seen, 1, Len(followed(f))) = followed(f)
           /\ Len(seen) > Len(followed(f)) => Len(seen) = MaxCaps
=============================================================================
