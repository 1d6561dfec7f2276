----------------------------- MODULE HostSession ----------------------------
(***************************************************************************)
(* The game session of the graphical Windows host                          *)
(* (src/src/host/win32_host.cpp): load_game_session() and the commands     *)
(* that call it, the .sav and quick-state files a game keeps between runs, *)
(* its stored profile, and save-state loading.                             *)
(*                                                                         *)
(* The host is single-threaded: a command runs to its end or throws, and a *)
(* thrown command is reported in a message box while the session goes on.  *)
(* What can interleave is commands, frames and process lifetimes, over     *)
(* files that outlive them.                                                *)
(*                                                                         *)
(* Data abstraction.  A game is named by its ROM hash.  Cartridge RAM is   *)
(* the game it belongs to and what it holds, or that it was cut short.  A  *)
(* profile, like the command line, settles a configuration, represented by *)
(* the video standard; its fingerprint identifies all of it.               *)
(***************************************************************************)
EXTENDS Naturals

CONSTANTS
    Games, Bioses, Standards,
    NoGame, NoBios, NoProfile, Absent,
    Progress, Fresh, Cut    \* what cartridge RAM holds

Contents(game) == {game} \X (Progress \cup {Cut})
Blank(game) == <<game, Fresh>>
Torn(game) == <<game, Cut>>

ASSUME SessionAssumption ==
    /\ NoGame \notin Games /\ NoBios \notin Bioses
    /\ NoProfile \notin Standards
    /\ Fresh \in Progress
    /\ \A g \in Games : Absent \notin Contents(g)

VARIABLES
    process,                \* "closed" or "open": the program is running
    session_options,        \* [bios, config]: session_options
    game,                   \* rom_hash of the session, NoGame if has_rom is false
    host,                   \* [sram, bios, config, standard]: what `host` holds
    state_metadata,         \* [rom, bios, profile]
    sav, quick,             \* files, per game
    profiles                \* the profile database file, per game

files   == <<sav, quick, profiles>>
session == <<game, host, state_metadata>>
sessionVars == <<process, session_options, session, files>>

NoOptions == [bios |-> NoBios, config |-> NoProfile]
NoHost == [sram |-> Absent, bios |-> NoBios, config |-> NoProfile, standard |-> Absent]
NoMetadata == [rom |-> NoGame, bios |-> NoBios, profile |-> NoProfile]

SessionInit ==
    /\ process = "closed"
    /\ session_options = NoOptions
    /\ game = NoGame /\ host = NoHost /\ state_metadata = NoMetadata
    /\ sav = [g \in Games |-> Absent]
    /\ quick = [g \in Games |-> Absent]
    /\ profiles = [g \in Games |-> NoProfile]

-----------------------------------------------------------------------------

\* run_empty_frontend(): the command line settles the options.
Launch(config) ==
    /\ process = "closed"
    /\ process' = "open"
    /\ session_options' = [bios |-> NoBios, config |-> config]
    /\ UNCHANGED <<session, files>>

save_active_sram_OnlyNewFiles ==
    IF game = NoGame
    THEN UNCHANGED sav
    ELSE \E written \in {host.sram, Torn(game)} :
           sav' = [sav EXCEPT ![game] = IF @ = Absent THEN written ELSE @]

\* write_binary_file() empties the file and does not check that the bytes got
\* there: a full disk leaves a short file.
save_active_sram ==
    IF game = NoGame
    THEN UNCHANGED sav
    ELSE \E written \in {host.sram, Torn(game)} : sav' = [sav EXCEPT ![game] = written]

\* The cartridge RAM of a fresh host, read from the game's file if it has one.
\* A short file is accepted.
load_cartridge_ram(new) == IF sav[new] = Absent THEN Blank(new) ELSE sav[new]

\* apply_profile_to_options(): a profile overrides the command line.
EffectiveConfig(profile) ==
    IF profile = NoProfile THEN session_options.config ELSE profile

MetadataFor_SelectedBios(new, bios, profile) ==
    [rom |-> new, bios |-> session_options.bios, profile |-> profile]
MetadataFor(new, bios, profile) == [rom |-> new, bios |-> bios, profile |-> profile]

\* load_game_session() to its end, with the options and profile given.  The
\* new host reads its file before the old host's RAM is written.
load_game_session(new, bios, profile) ==
    /\ save_active_sram
    /\ host' = [sram |-> load_cartridge_ram(new), bios |-> bios,
                config |-> EffectiveConfig(profile),
                standard |-> EffectiveConfig(profile)]
    /\ game' = new
    /\ state_metadata' = MetadataFor(new, bios, profile)
    /\ UNCHANGED <<process, quick>>

\* It throws: an unreadable ROM, BIOS, profile or .sav file, or a .sav that
\* cannot be opened for writing, all before the session is touched.
LoadThrows == UNCHANGED <<process, session, sav, quick>>

OpenRom(new) ==
    /\ process = "open"
    /\ \/ load_game_session(new, session_options.bios, profiles[new])
       \/ LoadThrows
    /\ UNCHANGED <<session_options, profiles>>

\* select_session_bios() and clear_session_bios(): the option changes first.
SetSessionBios(bios) ==
    /\ process = "open"
    /\ session_options' = [session_options EXCEPT !.bios = bios]
    /\ IF game = NoGame THEN LoadThrows
       ELSE \/ load_game_session(game, bios, profiles[game])
            \/ LoadThrows
    /\ UNCHANGED profiles

\* store_game_profile(): the profile file is written, then the game reloaded.
StoreProfile(profile) ==
    /\ process = "open" /\ game # NoGame
    /\ profiles' = [profiles EXCEPT ![game] = profile]
    /\ \/ load_game_session(game, session_options.bios, profile)
       \/ LoadThrows
    /\ UNCHANGED session_options

RemoveProfile ==
    /\ process = "open" /\ game # NoGame
    /\ profiles[game] # NoProfile
    /\ profiles' = [profiles EXCEPT ![game] = NoProfile]
    /\ \/ load_game_session(game, session_options.bios, NoProfile)
       \/ LoadThrows
    /\ UNCHANGED session_options

-----------------------------------------------------------------------------
(* The running game and its states *)

\* A frame, in which the game may write its cartridge RAM.
RunFrame ==
    /\ process = "open" /\ game # NoGame
    /\ \E progress \in Progress : host' = [host EXCEPT !.sram = <<game, progress>>]
    /\ UNCHANGED <<process, session_options, game, state_metadata, files>>

\* A file that cannot be written leaves no state behind that loads.
QuickSave ==
    /\ process = "open" /\ game # NoGame
    /\ quick' \in {[quick EXCEPT ![game] = file] :
                     file \in {[metadata |-> state_metadata, sram |-> host.sram,
                                standard |-> host.standard], Absent}}
    /\ UNCHANGED <<process, session_options, session, sav, profiles>>

Compatible_AnyRom(metadata) ==
    metadata.bios = state_metadata.bios /\ metadata.profile = state_metadata.profile
\* validate_save_state_metadata()
Compatible(metadata) == metadata = state_metadata

\* F9, or a state file the user picks: cartridge RAM and the VDP's timing come
\* back with the rest of the console state.
LoadState(file) ==
    /\ process = "open" /\ game # NoGame
    /\ quick[file] # Absent
    /\ Compatible(quick[file].metadata)
    /\ host' = [host EXCEPT !.sram = quick[file].sram, !.standard = quick[file].standard]
    /\ UNCHANGED <<process, session_options, game, state_metadata, files>>

-----------------------------------------------------------------------------
(* The process ends *)

Gone ==
    /\ process' = "closed"
    /\ game' = NoGame /\ host' = NoHost /\ state_metadata' = NoMetadata
    /\ session_options' = NoOptions
    /\ UNCHANGED <<quick, profiles>>

\* The window is closed: the message loop ends and the RAM is saved.
Quit ==
    /\ process = "open"
    /\ save_active_sram
    /\ Gone

\* The process dies, perhaps while it writes the RAM; what was not in a file
\* is lost.
Crash ==
    /\ process = "open"
    /\ Gone
    /\ \/ UNCHANGED sav
       \/ game # NoGame /\ sav' = [sav EXCEPT ![game] = Torn(game)]

SessionNext ==
    \/ \E config \in Standards : Launch(config) \/ StoreProfile(config)
    \/ \E new \in Games : OpenRom(new)
    \/ \E bios \in Bioses \cup {NoBios} : SetSessionBios(bios)
    \/ RemoveProfile
    \/ RunFrame
    \/ QuickSave
    \/ \E file \in Games : LoadState(file)
    \/ Quit \/ Crash

SessionSpec == SessionInit /\ [][SessionNext]_sessionVars

-----------------------------------------------------------------------------
(* Properties *)

Store == INSTANCE SramStore WITH
    playing <- game,
    ram <- host.sram,
    kept <- [g \in Games |-> load_cartridge_ram(g)]

\* Cartridge RAM is kept for its game, and for it alone: whatever is opened,
\* reloaded, restored, saved or lost, in whatever order and across processes,
\* a game's session resumes what its last one left and never holds another's,
\* and a write that fails spoils the file of the game that was running only.
RamKept == Store!StoreSpec

\* A state is only loaded into the environment it was saved in: same ROM, same
\* BIOS in the host (not the one selected for the next game), same profile.
StateMatchesSession ==
    game # NoGame =>
        /\ state_metadata.rom = game
        /\ state_metadata.bios = host.bios
        /\ state_metadata.profile # NoProfile => state_metadata.profile = host.config

\* The VDP keeps the line and frame counts the host's configuration gives it.
TimingIsConfigured == game # NoGame => host.standard = host.config

\* Reloading the game that is running (another BIOS, a profile change, the
\* same ROM again) keeps its progress.
ReloadKeepsSram ==
    [][game # NoGame /\ game' = game /\ state_metadata' # state_metadata
         => host'.sram = host.sram]_sessionVars

=============================================================================
