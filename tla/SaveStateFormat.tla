---------------------------- MODULE SaveStateFormat -------------------------
(***************************************************************************)
(* The save-state file of src/src/runtime/save_state.cpp: write_state()    *)
(* writes format 15, read_image() reads formats 1 to 15, and load_state    *)
(* touches the console only when the whole file has been read.             *)
(*                                                                         *)
(* A file is its version and its sequence of items.  An item is a run of   *)
(* fields that are always written, and read, one after another, so the     *)
(* order of items is the order of fields wherever the version matters.  An *)
(* item keeps the stamp of the moment it was saved.  A file cut short is a *)
(* prefix: the host writes it in place, and a crash leaves what was        *)
(* written.                                                                *)
(***************************************************************************)
EXTENDS Integers, SequencesExt

CONSTANT MaxStamp                   \* bound on the moments told apart

\* Stamps of values that no present moment has.
Default == -1
Derived == -2                       \* computed from other fields of the file
Garbage == -3                       \* bytes of another item
Old     == -4                       \* saved by an earlier release

kVersion == 15
Versions == 1 .. kVersion

VARIABLES
    console,                        \* item |-> stamp
    clock,                          \* the stamp of the present moment
    file,                           \* [version, items] or NoFile
    intact,                         \* the file is whole
    answer                          \* of the last load

formatVars == <<console, clock, file, intact, answer>>

NoFile == [version |-> 0, items |-> <<>>]

-----------------------------------------------------------------------------
(* The writer *)

write_metadata == <<"model", "rom_hash", "bios_hash", "profile_fingerprint">>
write_cpu == <<"cpu", "cpu.q, memptr">>

write_state ==
    write_metadata \o write_cpu \o
    <<"memory .. smapper_slots", "mapper .. k8k_slots", "auto_mapper_locked",
      "vram, cram, registers", "framebuffer, 192 lines", "framebuffer, 48 lines",
      "bg_priority .. first_line", "line_irq_pending", "vdp.timing", "video_mode",
      "read_buffer", "psg", "ym2413", "ym2612", "joypads",
      "game_gear_cram, game_gear, stereo", "ym2413 core", "scroll latches">>

Metadata == {write_metadata[i] : i \in DOMAIN write_metadata}
Fields   == {write_state[i] : i \in DOMAIN write_state} \ Metadata

\* When each later item joined the format, as the documentation and the tests'
\* construction of old files have it (docs/ARCHITECTURE.md:41,52,58,
\* tests/z80_smoke.cpp:4013-4084).  Formats 2 to 6 are described nowhere else
\* than in read_image().
Since(item) ==
    CASE item = "scroll latches" -> 15
      [] item = "ym2413 core" -> 14
      [] item = "game_gear_cram, game_gear, stereo" -> 13
      [] item = "cpu.q, memptr" -> 12
      [] item = "ym2612" -> 11
      [] item = "framebuffer, 48 lines" -> 10
      [] item \in {"bios_hash", "profile_fingerprint"} -> 9
      [] item = "auto_mapper_locked" -> 8
      [] item = "read_buffer" -> 7
      [] item = "video_mode" -> 6
      [] item = "vdp.timing" -> 5
      [] item = "mapper .. k8k_slots" -> 4
      [] item = "line_irq_pending" -> 3
      [] item \in {"model", "rom_hash"} -> 2
      [] OTHER -> 1

\* A file of an earlier version.
LegacyItems(version) == SelectSeq(write_state, LAMBDA item : Since(item) <= version)

Stamped(items, stamp) == [i \in DOMAIN items |-> [item |-> items[i], stamp |-> stamp]]

-----------------------------------------------------------------------------
(* The reader *)

When(condition, items) == IF condition THEN items ELSE <<>>

read_metadata(version) ==
    <<"model", "rom_hash">> \o When(version >= 9, <<"bios_hash", "profile_fingerprint">>)

read_cpu_OneLate(version) == <<"cpu">> \o When(version > 12, <<"cpu.q, memptr">>)
read_cpu(version) == <<"cpu">> \o When(version >= 12, <<"cpu.q, memptr">>)

read_image(version) ==
    When(version >= 2, read_metadata(version))
    \o read_cpu(version)
    \o <<"memory .. smapper_slots">>
    \o When(version >= 4,
            <<"mapper .. k8k_slots">> \o When(version >= 8, <<"auto_mapper_locked">>))
    \o <<"vram, cram, registers", "framebuffer, 192 lines">>
    \o When(version >= 10, <<"framebuffer, 48 lines">>)
    \o <<"bg_priority .. first_line">>
    \o When(version >= 3, <<"line_irq_pending">>)
    \o When(version >= 5, <<"vdp.timing">>)
    \o When(version >= 6, <<"video_mode">>)
    \o When(version >= 7, <<"read_buffer">>)
    \o <<"psg", "ym2413">>
    \o When(version >= 11, <<"ym2612">>)
    \o <<"joypads">>
    \o When(version >= 13, <<"game_gear_cram, game_gear, stereo">>)
    \o When(version >= 14, <<"ym2413 core">>)
    \o When(version >= 15, <<"scroll latches">>)

\* require() and finish(): the file holds what the version calls for, neither
\* less nor more.
Complete_TailOptional(items, layout) == Len(items) <= Len(layout)
Complete(items, layout) == Len(items) = Len(layout)

\* What the reader puts in a field: the bytes found where it expects them, or
\* the value it derives or leaves at its default.
ReadField(field, f) ==
    LET layout == read_image(f.version)
        at     == {i \in DOMAIN layout : layout[i] = field}
    IN  IF at # {}
        THEN LET i == CHOOSE i \in at : TRUE
             IN  IF i \in DOMAIN f.items /\ f.items[i].item = field THEN f.items[i].stamp ELSE Garbage
        ELSE IF field = "auto_mapper_locked" /\ f.version >= 4 THEN Derived
        ELSE IF field = "scroll latches"
             THEN f.items[CHOOSE i \in DOMAIN f.items : f.items[i].item = "vram, cram, registers"].stamp
        ELSE Default

-----------------------------------------------------------------------------

FormatInit ==
    /\ console = [field \in Fields |-> 0]
    /\ clock = 0
    /\ file = NoFile /\ intact = FALSE
    /\ answer = "none"

\* The machine runs: every field may change.
RunMachine ==
    /\ clock < MaxStamp
    /\ clock' = clock + 1
    /\ console' = [field \in Fields |-> clock']
    /\ UNCHANGED <<file, intact, answer>>

SaveItems ==
    [i \in DOMAIN write_state |->
        [item |-> write_state[i],
         stamp |-> IF write_state[i] \in Metadata THEN 0 ELSE console[write_state[i]]]]

\* save_console_state() and write_binary_file(), which a crash can cut short.
save_console_state(written) ==
    /\ file' = [version |-> kVersion, items |-> SubSeq(SaveItems, 1, written)]
    /\ intact' = (written = Len(write_state))
    /\ UNCHANGED <<console, clock, answer>>

\* A file written by an earlier release, whole or cut short.
OldFile(version, dropped) ==
    /\ LET items == Stamped(LegacyItems(version), Old)
       IN  /\ dropped < Len(items)
           /\ file' = [version |-> version, items |-> SubSeq(items, 1, Len(items) - dropped)]
    /\ intact' = (dropped = 0)
    /\ UNCHANGED <<console, clock, answer>>

load_console_state ==
    /\ file # NoFile
    /\ LET accepted == Complete(file.items, read_image(file.version))
       IN  /\ console' = IF accepted
                         THEN [field \in Fields |-> ReadField(field, file)]
                         ELSE console
           /\ answer' = IF accepted THEN "loaded" ELSE "refused"
    /\ UNCHANGED <<clock, file, intact>>

FormatNext ==
    \/ RunMachine
    \/ \E written \in 0 .. Len(write_state) : save_console_state(written)
    \/ \E version \in Versions, dropped \in 0 .. 1 : OldFile(version, dropped)
    \/ load_console_state

FormatSpec == FormatInit /\ [][FormatNext]_formatVars

-----------------------------------------------------------------------------
(* Properties *)

\* Every format still loads, exactly: each field that was in the format comes
\* back with the value that was saved and each later one with its default, so
\* no item of one version is read as another's, and no layout of the reader is
\* one item longer or shorter than the file it is for.
EveryFormatLoads ==
    /\ answer' = "loaded"
    /\ \A field \in Fields :
          LET saved == {i \in DOMAIN file.items : file.items[i].item = field}
          IN  IF saved # {}
              THEN \A i \in saved : console'[field] = file.items[i].stamp
              ELSE console'[field] \in
                       IF field = "auto_mapper_locked" \/ field = "scroll latches"
                       THEN {Default, Derived, console'["vram, cram, registers"]}
                       ELSE {Default}

\* A file that a crash cut short anywhere is refused, and a refused file leaves
\* the whole console as it was: no load is ever half done.
TornFileRefused == answer' = "refused" /\ UNCHANGED console

\* Loading is all or nothing, and a whole file of any format loads.
LoadIsExact ==
    [][load_console_state => IF intact THEN EveryFormatLoads ELSE TornFileRefused]_formatVars

=============================================================================
