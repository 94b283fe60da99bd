---------------------------- MODULE MCComponents ---------------------------
(***************************************************************************)
(* Small instances of the components that share no state, checked side by  *)
(* side: every behaviour exercises one of them while the others rest in    *)
(* their initial state, so the state spaces add up instead of multiplying. *)
(***************************************************************************)
EXTENDS FrameAllocators, PageTables, Storage, UserHeap, WaitSets, DriverSupervisor, InitServices,
        KernelLifecycle, MCPlatform, MCPci, Tcp, PacketRing, SlabCache

CONSTANTS t1, t2, t3, Parts

VARIABLE part

(* The services and the process lifecycle both run on the IPC core. *)
kvars == <<allvars, proc>>

mcvars == <<part, fvars, pvars, svars, hvars, wvars, dvars, kvars,
            hwvars, tcpvars, rvars, slabvars, pcivars>>

(* Memory maps of the boot loader: overlapping, adjacent, unaligned, empty *)
MCRegion == [start : {0, 3, 4, 10}, len : {2, 5, 8}, type : {0, 1}]
MCRegionMaps ==
  {<<a, b>> : a, b \in MCRegion}
    \cup {<<[start |-> 0, len |-> 0, type |-> 0]>>}
    \cup {<<[start |-> 12, len |-> 4, type |-> 0], [start |-> 6, len |-> 4, type |-> 0], c>> : c \in MCRegion}

MCUserPages == {<<0, 0, 0>>, <<0, 1, 0>>}

MCLayouts == {[size |-> 1, align |-> 1], [size |-> 1, align |-> 2],
              [size |-> 3, align |-> 2], [size |-> 6, align |-> 1]}

MCSources == {"endpoint", "notification", "timer"}
MCCookie == [o \in MCSources |-> o]

MCDrivers == {"disk", "odd"}
MCMaxRestarts == [d \in MCDrivers |-> IF d = "disk" THEN 2 ELSE 1]
MCImage == [d \in MCDrivers |-> IF d = "disk" THEN <<"plain", "empty">> ELSE <<"wx", "overflowing">>]

(* The modules limine.conf names, with archives that hold file 1 well, late, *)
(* or out of bounds; a damaged image; a damaged or missing program; too many *)
Module(k, a) == [kind |-> k, archive |-> a]
File(i, o, s) == [id |-> i, offset |-> o, size |-> s, content |-> "text"]
MCImages == {Module("archive", a) : a \in {<<File(1, 1, 1)>>, <<File(2, 1, 1), File(1, 2, 1), File(1, 9, 9)>>,
                                           <<File(1, 6, 3)>>}} \cup {Module("junk", <<>>)}
MCPrograms(script) == <<Module("init_elf", <<>>), Module("ramfs_elf", <<>>), Module(script, <<>>)>>
MCModuleLists ==
  {Append(MCPrograms("script_elf"), i) : i \in MCImages}
    \cup {Append(MCPrograms("junk"), i) : i \in MCImages}
    \cup {MCPrograms("script_elf"), [i \in 1..6 |-> Module("junk", <<>>)]}

(* In the lifecycle part t1 polls its children, as init's supervisor loop  *)
(* does; they use every IPC operation and may exit, fault or close.  The   *)
(* services take from this what their own steps use.                       *)
MCProgram ==
  [t \in {t1, t2, t3} |->
     IF t = t1 THEN {"Start", "Terminate", "Reap", "Yield"}
     ELSE {"Call", "Receive", "Reply", "Exit", "Fault", "Close"} \cup (IF t = t2 THEN {"Wait"} ELSE {})]
MCSupervisor == [t \in {t1, t2, t3} |-> IF t = t1 THEN None ELSE t1]
MCHolds == [t \in {t1, t2, t3} |-> Endpoints]

(* Two sessions of one server port with two peers *)
MCSessions == <<<<80, [ip |-> "a", port |-> 1]>>, <<80, [ip |-> "b", port |-> 2]>>>>

MCInit ==
  /\ part \in Parts
  /\ modules \in IF part = "services" THEN ModuleLists ELSE {MCPrograms("script_elf")}
  /\ hw \in IF part = "platform" THEN Machines ELSE {MCMachine}
  /\ pci \in IF part = "pci" THEN Buses ELSE {MCBus(MCRng, MCPlain, MCRng, MCPlain)}
  /\ FrInit /\ PInit /\ SInit /\ HInit /\ WInit /\ DInit /\ IInit /\ LInit
  /\ HwInit /\ TcpInit /\ RingInit /\ SlabInit /\ PciInit
  /\ part # "waitsets" => wsched.cur = t1

MCNext ==
  \/ part = "frames" /\ FrNext
     /\ UNCHANGED <<part, pvars, svars, hvars, wvars, dvars, kvars, hwvars, tcpvars, rvars, slabvars, pcivars>>
  \/ part = "pages" /\ PNext
     /\ UNCHANGED <<part, fvars, svars, hvars, wvars, dvars, kvars, hwvars, tcpvars, rvars, slabvars, pcivars>>
  \/ part = "storage" /\ SNext
     /\ UNCHANGED <<part, fvars, pvars, hvars, wvars, dvars, kvars, hwvars, tcpvars, rvars, slabvars, pcivars>>
  \/ part = "heap" /\ HNext
     /\ UNCHANGED <<part, fvars, pvars, svars, wvars, dvars, kvars, hwvars, tcpvars, rvars, slabvars, pcivars>>
  \/ part = "waitsets" /\ WNext
     /\ UNCHANGED <<part, fvars, pvars, svars, hvars, dvars, kvars, hwvars, tcpvars, rvars, slabvars, pcivars>>
  \/ part = "drivers" /\ DNext
     /\ UNCHANGED <<part, fvars, pvars, svars, hvars, wvars, kvars, hwvars, tcpvars, rvars, slabvars, pcivars>>
  \/ part = "services" /\ INext
     /\ UNCHANGED <<part, proc, fvars, pvars, svars, hvars, wvars, dvars, hwvars, tcpvars, rvars, slabvars, pcivars>>
  \/ part = "lifecycle" /\ LNext
     /\ UNCHANGED <<part, ivars, fvars, pvars, svars, hvars, wvars, dvars, hwvars, tcpvars, rvars, slabvars, pcivars>>
  \/ part = "platform" /\ HwNext
     /\ UNCHANGED <<part, fvars, pvars, svars, hvars, wvars, dvars, kvars, tcpvars, rvars, slabvars, pcivars>>
  \/ part = "tcp" /\ TcpNext
     /\ UNCHANGED <<part, fvars, pvars, svars, hvars, wvars, dvars, kvars, hwvars, rvars, slabvars, pcivars>>
  \/ part = "ring" /\ RingNext
     /\ UNCHANGED <<part, fvars, pvars, svars, hvars, wvars, dvars, kvars, hwvars, tcpvars, slabvars, pcivars>>
  \/ part = "slab" /\ SlabNext
     /\ UNCHANGED <<part, fvars, pvars, svars, hvars, wvars, dvars, kvars, hwvars, tcpvars, rvars, pcivars>>
  \/ part = "pci" /\ PciNext
     /\ UNCHANGED <<part, fvars, pvars, svars, hvars, wvars, dvars, kvars, hwvars, tcpvars, rvars, slabvars>>

MCSpec == MCInit /\ [][MCNext]_mcvars
=============================================================================
