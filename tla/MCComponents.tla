---------------------------- MODULE MCComponents ----------------------------
(***************************************************************************)
(* Components that share no state, in one run: `part` is the one whose     *)
(* steps the behaviour takes.  Interleaving them would only multiply their *)
(* states, so the others stay in one of their initial states.              *)
(***************************************************************************)
EXTENDS VdpPorts, VdpSprites, SoundClocks, SaveStateFormat, GameProfiles, GameLists,
        FmSound, CartridgeHeader, HeadlessRun, CommandLine, Z80Alu, Z80Blocks

VARIABLE part

\* Everything but the part's own state.
DrawingVars == <<portVars, spriteVars>>
AudibleVars == <<soundVars, fmVars>>
FileVars == <<formatVars, profileVars, listVars, headerVars>>
ToolVars == <<headlessVars, commandVars>>
CpuCoreVars == <<aluVars, blockVars>>

Init ==
    /\ part \in {"ports", "sprites", "psg", "fm", "opll", "opn2", "format", "profiles", "lists",
                 "header", "headless", "command", "alu", "blocks"}
    /\ PortsInit
    /\ SpritesInit
    /\ part # "sprites" =>
          ~tms /\ ~tall /\ \A i \in 1 .. SpriteCount : table[i] = [row |-> 0, column |-> 0]
    /\ SoundInit /\ FormatInit
    /\ ProfilesInit /\ (part # "profiles" => running = "a")
    /\ ListsInit
    /\ FmInit /\ (part \notin {"opll", "opn2"} => mode = "accurate" /\ ~enable_fm)
    /\ IF part = "header" THEN HeaderInit ELSE image = <<>> /\ subject = Nowhere
    /\ HeadlessInit /\ (part # "headless" => script = <<>>)
    /\ CommandInit
    /\ IF part = "alu" THEN AluInit
       ELSE /\ routine = [decimal |-> TRUE, subtract |-> TRUE] /\ lhs = <<0, 0>> /\ rhs = <<0, 0>>
            /\ carry_in = 0 /\ a = 0 /\ f = {} /\ hl = 0 /\ hl_flags = {}
            /\ left = 2 /\ loop_step = "word" /\ result = <<>>
    /\ IF part = "blocks" THEN BlocksInit
       ELSE /\ kind = "LD" /\ step = 1 /\ ram = <<>> /\ pointer = 0 /\ de = 0 /\ count = 0
            /\ accumulator = 0 /\ zero = FALSE /\ parity = FALSE /\ pc = 0 /\ return_pc = 0
            /\ saved = <<FALSE, FALSE>> /\ sent = <<>> /\ received = 0 /\ cycles = 0
            /\ interrupts = 0 /\ start = <<>>

Next ==
    /\ UNCHANGED part
    /\ \/ /\ \/ part = "ports" /\ PortsNext /\ UNCHANGED spriteVars
             \/ part = "sprites" /\ SpritesNext /\ UNCHANGED portVars
          /\ UNCHANGED <<AudibleVars, FileVars, ToolVars, CpuCoreVars>>
       \/ /\ \/ part = "psg" /\ PsgNext /\ UNCHANGED fmVars
             \/ part = "fm" /\ FmNext /\ UNCHANGED fmVars
             \/ part = "opll" /\ (OpllNext \/ FmCommands) /\ UNCHANGED soundVars
             \/ part = "opn2" /\ (Opn2Next \/ FmCommands) /\ UNCHANGED soundVars
          /\ UNCHANGED <<DrawingVars, FileVars, ToolVars, CpuCoreVars>>
       \/ /\ \/ part = "format" /\ FormatNext /\ UNCHANGED <<profileVars, listVars, headerVars>>
             \/ part = "profiles" /\ ProfilesNext /\ UNCHANGED <<formatVars, listVars, headerVars>>
             \/ part = "lists" /\ ListsNext /\ UNCHANGED <<formatVars, profileVars, headerVars>>
             \/ part = "header" /\ HeaderNext /\ UNCHANGED <<formatVars, profileVars, listVars>>
          /\ UNCHANGED <<DrawingVars, AudibleVars, ToolVars, CpuCoreVars>>
       \/ /\ \/ part = "headless" /\ HeadlessNext /\ UNCHANGED commandVars
             \/ part = "command" /\ CommandNext /\ UNCHANGED headlessVars
          /\ UNCHANGED <<DrawingVars, AudibleVars, FileVars, CpuCoreVars>>
       \/ /\ \/ part = "alu" /\ AluNext /\ UNCHANGED blockVars
             \/ part = "blocks" /\ BlocksNext /\ UNCHANGED aluVars
          /\ UNCHANGED <<DrawingVars, AudibleVars, FileVars, ToolVars>>

Spec ==
    Init /\ [][Next]_<<part, DrawingVars, AudibleVars, FileVars, ToolVars, CpuCoreVars>>

\* Profiles as a user may write them: settings of an enhanced mode under
\* another mode, in both orders, and settings that need no mode.
Written ==
    {<<<<"disable_sprite_limit", TRUE>>, <<"mode", "hybrid">>>>,
     <<<<"mode", "accurate">>, <<"viewport_height", 224>>>>}

\* "a." is another way to write "a", and "c" holds a copy of its image.
GamePaths == {"a", "a.", "b", "c", "d"}
Normal == [path \in GamePaths |-> IF path = "a." THEN "a" ELSE path]
ImageHash == [path \in GamePaths |-> IF path = "c" THEN "a" ELSE Normal[path]]

\* Scripts with a comment, with frames that do not advance, with a line that is
\* no event, and with an event after the last frame.
Event(frame, input) == [kind |-> "event", frame |-> frame, input |-> input]
InputScripts ==
    {<<>>, <<[kind |-> "comment"], Event(0, "up"), Event(2, "down")>>,
     <<Event(1, "up"), Event(1, "down")>>, <<Event(1, "up"), [kind |-> "error"]>>,
     <<Event(1, "up"), Event(5, "none")>>}

\* Files with a way to run, a model, an image, an enhancement or a key twice.
ConfigFiles ==
    {<<<<"mapper", "a">>, <<"mode", "smoke">>, <<"model", "gamegear">>>>,
     <<<<"disable_sprite_limit", TRUE>>, <<"input", "other">>, <<"video_standard", "b">>>>,
     <<<<"mapper", "a">>, <<"mapper", "b">>>>, <<<<"disable_sprite_limit", FALSE>>>>}
\* Profiles with a mode that goes with their switch, or that was written after it.
Switched(chosen, on) == [mode |-> chosen, disable_sprite_limit |-> on]
MatchedProfiles ==
    {<<>>, [mapper |-> "b", enhancements |-> Switched("hybrid", TRUE)], [model |-> "sms"],
     [enhancements |-> Switched("accurate", FALSE)]}

\* Cells that all differ, and cells a search finds more than once.
BlockMemories == {[cell \in 0 .. 3 |-> cell], [cell \in 0 .. 3 |-> cell % 2]}

=============================================================================
