------------------------------ MODULE MCDevices ------------------------------
(***************************************************************************)
(* The cartridge bus and the VDP's scanline engine.  They share no state,  *)
(* so each behaviour runs one of them: `device`.  The raster has 7 lines   *)
(* of 4 cycles, with the three display heights well inside it.             *)
(***************************************************************************)
EXTENDS MCCartridgeBus, VdpTiming

VARIABLE device

DevicesInit ==
    /\ device \in {"bus", "vdp"}
    /\ Init /\ VdpInit
    /\ device = "vdp" => model = "SMS"

DevicesNext ==
    /\ UNCHANGED device
    /\ \/ device = "bus" /\ Next /\ UNCHANGED vdpVars
       \/ device = "vdp" /\ VdpNext /\ UNCHANGED vars

DevicesSpec == DevicesInit /\ [][DevicesNext]_<<device, vars, vdpVars>>

AllModes == {<<FALSE, FALSE>>, <<TRUE, FALSE>>, <<TRUE, TRUE>>}

=============================================================================
