------------------------------- MODULE MCPci -------------------------------
(***************************************************************************)
(* Configuration spaces of two devices with two functions.  Capabilities   *)
(* lie at offsets 1 to 4.                                                  *)
(***************************************************************************)
EXTENDS PciDiscovery

MCBar(kind, size) == [kind |-> kind, base |-> 1, size |-> size]
MCCap(type, next, bar, offset) == [type |-> type, next |-> next, bar |-> bar, offset |-> offset, length |-> 1]

MCPlain == [vendor |-> "other", multi |-> FALSE, line |-> 0, bars |-> <<>>, first |-> 0, caps |-> <<>>]
MCList == <<MCCap("common", 2, 1, 0), MCCap("other", 3, 9, 9), MCCap("notify", 4, 1, 1), MCCap("isr", 0, 3, 0)>>
MCRng == [MCPlain EXCEPT !.vendor = "rng", !.line = 3, !.first = 1, !.caps = MCList,
                         !.bars = <<MCBar("mem64", 2), MCBar("mem32", 0), MCBar("mem32", 1)>>]

(* Good devices, also with a list that loops; devices with each defect *)
MCRngs == {MCRng, [MCRng EXCEPT !.caps[4].next = 3], [MCRng EXCEPT !.caps[4].next = 4], [MCRng EXCEPT !.line = 0],
           [MCRng EXCEPT !.line = 16], [MCRng EXCEPT !.bars[1].kind = "mem32"], [MCRng EXCEPT !.bars[1].kind = "io"],
           [MCRng EXCEPT !.caps[3].offset = 2], [MCRng EXCEPT !.caps[1].next = 7], [MCRng EXCEPT !.first = 0]}
MCOthers == {MCPlain, [MCPlain EXCEPT !.vendor = "none"], [MCPlain EXCEPT !.multi = TRUE],
             [MCPlain EXCEPT !.multi = TRUE, !.first = 2, !.caps = [MCList EXCEPT ![3].next = 2]]}

MCBus(a, b, c, d) == [at \in (0..1) \X (0..1) |->
                        CASE at = <<0, 0>> -> a [] at = <<0, 1>> -> b [] at = <<1, 0>> -> c [] OTHER -> d]
MCBuses == {MCBus(a, b, c, d) : a \in MCOthers \cup {MCRng, [MCRng EXCEPT !.multi = TRUE, !.line = 0]},
                                b \in MCOthers \cup MCRngs, c \in {[MCPlain EXCEPT !.multi = TRUE], MCRng}, d \in {MCPlain, MCRng}}
=============================================================================
