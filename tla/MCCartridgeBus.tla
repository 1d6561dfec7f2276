--------------------------- MODULE MCCartridgeBus ---------------------------
(* Values for the constants of CartridgeBus.                               *)
EXTENDS CartridgeBus

\* ROM sizes on both sides of the 48 KiB default-mapper boundary, one with an
\* odd number of 8 KiB units (half a 16 KiB bank), and BIOS images below and
\* above the 32 KiB where the overlay reaches the cartridge-RAM window.
MCImages == {"none", "rom24k", "rom64k", "bios16k", "bios40k"}
MCUnits == [image \in MCImages |->
              CASE image = "none" -> 0     [] image = "rom24k" -> 3
                [] image = "rom64k" -> 8   [] image = "bios16k" -> 2
                [] image = "bios40k" -> 5]
MCRamCells == {\hC000, \hC400, \hDFFF, \hE400, \hFFFF}

SomeRequests == {"Auto", "CMapper", "K8KMapper"}
AutoOnly == {"Auto"}
AllVersions == Version
LockVersions == {"current", "v4to7"}

\* One write of each kind: every register of every family, both halves of the
\* cartridge-RAM window, plain ROM addresses and work RAM on both mirrors.
FamilyWrites ==
    {<<0, 1>>, <<\h4000, \h81>>, <<\hA000, 1>>, <<2, 3>>,
     <<\h9000, 5>>, <<\hE400, 2>>, <<\hFFFC, \h0C>>, <<\hFFFF, 3>>}

SegaWrites ==
    {<<\hFFFC, 0>>, <<\hFFFC, \h0C>>, <<\hFFFD, 1>>, <<\h8000, 5>>, <<\hB000, 7>>}

\* Nothing, cartridge off, work RAM off, BIOS off.
AllControls == {0, \h40, \h10, \h08}
SomeControls == {\h40, \h08}

=============================================================================
