--------------------------- MODULE CartridgeHeader ---------------------------
(***************************************************************************)
(* The "TMR SEGA" header of a cartridge image: how it is found and checked *)
(* (analyze_cartridge_header, src/src/runtime/cartridge.cpp) and how the   *)
(* recompiler's --rebuild-header and --generate-header write it            *)
(* (rebuild_cartridge_header), into a copy of an image that goes on being  *)
(* edited.                                                                 *)
(*                                                                         *)
(* Data abstraction.  An image is a sequence of blocks of 8 KiB, each the  *)
(* sum of its bytes and the 16 bytes at its end where a header may be.     *)
(* Product code and version are left out; a region is known or not.        *)
(***************************************************************************)
EXTENDS Integers, Sequences, FiniteSetsExt, Functions

CONSTANTS
    ImageSizes,     \* in blocks, representable in a header or not
    BodySums,       \* what the bytes of a block outside its header add up to
    Checksums       \* how many checksums there are

ASSUME HeaderAssumption == ImageSizes \subseteq Nat

HeaderBlocks == <<1, 2, 4, 6>>          \* kHeaderOffsets
Representable == {1, 2, 4, 6, 8, 16}    \* the smaller size codes
NoCode == 0

VARIABLES
    image,          \* a sequence of [body, header]
    subject         \* the block whose header the last command wrote, or Nowhere

headerVars == <<image, subject>>

Nowhere == 0
PlainHeader == [magic |-> FALSE, region |-> FALSE, code |-> NoCode, checksum |-> 0]

-----------------------------------------------------------------------------

\* The sum of the bytes of a header's slot.
HeaderSum(header) ==
    (IF header.magic THEN 1 ELSE 0) + (IF header.region THEN 1 ELSE 0)
    + header.code + header.checksum

\* checksum_range()
checksum_range(rom, size, block) ==
    SumFunction([b \in 1 .. size |->
        rom[b].body + (IF b = block THEN 0 ELSE HeaderSum(rom[b].header))]) % Checksums

Found(rom) == {i \in DOMAIN HeaderBlocks :
                  HeaderBlocks[i] <= Len(rom) /\ rom[HeaderBlocks[i]].header.magic}

\* The first place that holds the magic, in the order they are tried.
OffsetOf(rom) == IF Found(rom) = {} THEN Nowhere ELSE HeaderBlocks[Min(Found(rom))]

declared_size_fits_rom(rom, block) ==
    rom[block].header.code # NoCode /\ rom[block].header.code <= Len(rom)

checksum_matches(rom, block) ==
    /\ declared_size_fits_rom(rom, block)
    /\ rom[block].header.checksum = checksum_range(rom, rom[block].header.code, block)

cartridge_standard_header_offset(size) ==
    CASE size \in {1, 2, 6} -> size
      [] size >= 4 /\ size # 6 -> 4
      [] OTHER -> Nowhere

WithChecksum_OldSize(old, rom, block) ==
    LET found == OffsetOf(old)
        size == IF found # Nowhere /\ declared_size_fits_rom(old, found)
                THEN old[found].header.code ELSE Len(old)
    IN  [rom EXCEPT ![block].header.checksum = checksum_range(rom, size, block)]

\* The size summed is the one the header now found declares; `old` is the image
\* before the header was written.
WithChecksum(old, rom, block) ==
    [rom EXCEPT ![block].header.checksum =
        checksum_range(rom, rom[OffsetOf(rom)].header.code, block)]

\* calculate_cartridge_checksum() refuses a header its range does not hold.
Summable(rom, block) ==
    LET code == rom[OffsetOf(rom)].header.code
    IN  code # NoCode /\ code <= Len(rom) /\ block <= code

HeaderInit ==
    /\ \E size \in ImageSizes :
          image \in [1 .. size -> [body : BodySums, header : {PlainHeader}]]
    /\ subject = Nowhere

\* An editor or an assembler changes the image, its headers included.
EditImage ==
    /\ \/ \E block \in DOMAIN image, body \in BodySums : image' = [image EXCEPT ![block].body = body]
       \/ \E block \in DOMAIN image \cap Range(HeaderBlocks), magic \in BOOLEAN, code \in {NoCode, 1, 4} :
             image' = [image EXCEPT ![block].header =
                          [magic |-> magic, region |-> TRUE, code |-> code, checksum |-> 0]]
    /\ subject' = Nowhere

\* An image that cannot be given a header is left as it was: no file is written.
Refused == UNCHANGED image /\ subject' = Nowhere

\* rebuild_cartridge_header(), preserving the header there is.
RebuildHeader ==
    LET block == OffsetOf(image)
    IN  IF block # Nowhere /\ Summable(image, block)
        THEN image' = WithChecksum(image, image, block) /\ subject' = block
        ELSE Refused

\* With a new header at the standard place.
GenerateHeader(region) ==
    LET block == cartridge_standard_header_offset(Len(image))
        written == [image EXCEPT ![block].header =
                       [magic |-> TRUE, region |-> region, code |-> Len(image), checksum |-> @.checksum]]
    IN  IF block # Nowhere /\ region /\ Len(image) \in Representable /\ Summable(written, block)
        THEN image' = WithChecksum(image, written, block) /\ subject' = block
        ELSE Refused

HeaderNext ==
    \/ EditImage \/ RebuildHeader
    \/ \E region \in BOOLEAN : GenerateHeader(region)

HeaderSpec == HeaderInit /\ [][HeaderNext]_headerVars

-----------------------------------------------------------------------------
(* Properties *)

\* The header a command wrote verifies: analysis of the new image finds it, the
\* size it declares fits and its checksum is that of the image, whatever the
\* image held before and wherever its other headers are.  The one exception is
\* a header generated behind an older one, which analysis finds first.
WrittenHeaderVerifies ==
    subject # Nowhere /\ OffsetOf(image) = subject =>
        checksum_matches(image, subject)

=============================================================================
