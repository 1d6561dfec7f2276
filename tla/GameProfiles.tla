----------------------------- MODULE GameProfiles ---------------------------
(***************************************************************************)
(* The per-game profile file: GameProfileDatabase::parse, find_by_hash,    *)
(* game_profile_fingerprint and serialize_game_profiles                    *)
(* (src/src/runtime/game_profile.cpp) and the commands of the window that  *)
(* store and remove the profile of the running game                        *)
(* (src/src/host/win32_host.cpp).                                          *)
(*                                                                         *)
(* A file is a sequence of profiles and a profile a sequence of lines      *)
(* <<key, value>>.  The settings are the enhancements, whose keys act on   *)
(* one another, and the video standard, which stands for the settings that *)
(* do not: model, mapper, audio latency and audio rate.                    *)
(***************************************************************************)
EXTENDS Naturals, SequencesExt

CONSTANTS
    Hashes,                         \* the games
    HandWritten,                    \* texts a user may write for a game
    Switches                        \* enhancements the menu can switch

Modes == {"accurate", "hybrid", "enhanced"}

VARIABLES
    profiles_file,                  \* the text: a sequence of profiles' lines
    running,                        \* the running game's hash
    enhancements,                   \* Console::enhancements_
    standard,                       \* HostRuntimeConfig's video standard
    fingerprint,                    \* state_metadata.profile_fingerprint
    last_command                    \* history: the last step was a "store",
                                    \* a "remove" or "other"

profileVars == <<profiles_file, running, enhancements, standard, fingerprint, last_command>>

DefaultEnhancements ==
    [mode |-> "accurate", disable_sprite_limit |-> FALSE, reduce_flicker |-> FALSE,
     viewport_height |-> 0, enable_fm |-> FALSE, enable_ym2612 |-> FALSE]

Blank ==
    [hash |-> "", has_enhancements |-> FALSE, enhancements |-> DefaultEnhancements,
     has_video_standard |-> FALSE, video_standard |-> "ntsc"]

-----------------------------------------------------------------------------
(* Parsing and writing *)

\* Setting any of these keys to a value that needs it selects enhanced mode.
SelectsEnhanced_AnyHeight(key, value) ==
    \/ key \in {"disable_sprite_limit", "reduce_flicker", "enable_ym2612"} /\ value
    \/ key = "viewport_height"

SelectsEnhanced(key, value) ==
    \/ key \in {"disable_sprite_limit", "reduce_flicker", "enable_ym2612"} /\ value
    \/ key = "viewport_height" /\ value > 192

ApplyLine(profile, entry) ==
    LET key   == entry[1]
        value == entry[2]
    IN  IF key = "hash" THEN [profile EXCEPT !.hash = value]
        ELSE IF key = "video_standard"
        THEN [profile EXCEPT !.video_standard = value, !.has_video_standard = TRUE]
        ELSE [profile EXCEPT
                !.has_enhancements = TRUE,
                !.enhancements =
                    [@ EXCEPT ![key] = value,
                              !.mode = IF key = "mode" THEN value
                                       ELSE IF SelectsEnhanced(key, value) THEN "enhanced"
                                       ELSE @]]

parse_profile(lines) == FoldLeft(ApplyLine, Blank, lines)
parse(text) == [i \in DOMAIN text |-> parse_profile(text[i])]

serialize_profile(profile) ==
    <<<<"hash", profile.hash>>>>
    \o (IF profile.has_enhancements
        THEN <<<<"mode", profile.enhancements.mode>>,
               <<"disable_sprite_limit", profile.enhancements.disable_sprite_limit>>,
               <<"reduce_flicker", profile.enhancements.reduce_flicker>>,
               <<"viewport_height", profile.enhancements.viewport_height>>,
               <<"enable_fm", profile.enhancements.enable_fm>>,
               <<"enable_ym2612", profile.enhancements.enable_ym2612>>>>
        ELSE <<>>)
    \o (IF profile.has_video_standard
        THEN <<<<"video_standard", profile.video_standard>>>>
        ELSE <<>>)

serialize_game_profiles(profiles) ==
    [i \in DOMAIN profiles |-> serialize_profile(profiles[i])]

\* The first profile with the hash, or none.
find_by_hash(profiles, hash) == SelectSeq(profiles, LAMBDA p : p.hash = hash)

\* The fingerprint is a function of the whole profile but its name; none is <<>>.
game_profile_fingerprint(found) == IF found = <<>> THEN <<>> ELSE <<Head(found)>>

-----------------------------------------------------------------------------
(* Sessions *)

normalize_enhancements(config) ==
    IF config.mode = "accurate"
    THEN [config EXCEPT !.disable_sprite_limit = FALSE, !.reduce_flicker = FALSE,
                        !.viewport_height = 0, !.enable_ym2612 = FALSE]
    ELSE config

StartSession_FromDefaults(text, hash) ==
    LET found == find_by_hash(parse(text), hash)
    IN  /\ running' = hash
        /\ fingerprint' = game_profile_fingerprint(found)
        /\ enhancements' =
             normalize_enhancements(
                 IF found # <<>> THEN Head(found).enhancements ELSE DefaultEnhancements)
        /\ standard' = IF found # <<>> /\ Head(found).has_video_standard
                       THEN Head(found).video_standard ELSE "ntsc"

\* load_game_session(): what the profile does not set starts from the
\* enhancements of the session before, whatever its game, and from the standard
\* the window was started with.
StartSession(text, hash) ==
    LET found == find_by_hash(parse(text), hash)
    IN  /\ running' = hash
        /\ fingerprint' = game_profile_fingerprint(found)
        /\ enhancements' =
             normalize_enhancements(
                 IF found # <<>> /\ Head(found).has_enhancements
                 THEN Head(found).enhancements ELSE enhancements)
        /\ standard' = IF found # <<>> /\ Head(found).has_video_standard
                       THEN Head(found).video_standard ELSE "ntsc"

ProfilesInit ==
    /\ profiles_file = <<>>
    /\ running \in Hashes
    /\ enhancements = DefaultEnhancements
    /\ standard = "ntsc"
    /\ fingerprint = <<>>
    /\ last_command = "other"

\* The user edits the file: the game's profile, in the text it is given here.
EditFile(hash, lines) ==
    /\ profiles_file' = Append(SelectSeq(profiles_file, LAMBDA p : parse_profile(p).hash # hash),
                               <<<<"hash", hash>>>> \o lines)
    /\ last_command' = "other"
    /\ UNCHANGED <<running, enhancements, standard, fingerprint>>

OpenGame(hash) ==
    /\ StartSession(profiles_file, hash)
    /\ last_command' = "other"
    /\ UNCHANGED profiles_file

set_runtime_mode(mode) ==
    /\ enhancements' = normalize_enhancements([enhancements EXCEPT !.mode = mode])
    /\ last_command' = "other"
    /\ UNCHANGED <<profiles_file, running, standard, fingerprint>>

set_enhancement(flag, enabled) ==
    /\ enhancements' =
         normalize_enhancements(
             [enhancements EXCEPT ![flag] = enabled,
                                  !.mode = IF enabled /\ @ = "accurate" THEN "enhanced" ELSE @])
    /\ last_command' = "other"
    /\ UNCHANGED <<profiles_file, running, standard, fingerprint>>

current_game_profile ==
    [hash |-> running, has_enhancements |-> TRUE, enhancements |-> enhancements,
     has_video_standard |-> TRUE, video_standard |-> standard]

OtherProfiles_FirstOnly(profiles, hash) ==
    IF profiles # <<>> /\ Head(profiles).hash = hash THEN Tail(profiles) ELSE <<>>

\* What the erase of a stored or removed profile leaves.
OtherProfiles(profiles, hash) == SelectSeq(profiles, LAMBDA p : p.hash # hash)

store_game_profile(chosen) ==
    LET kept   == OtherProfiles(parse(profiles_file), running)
        stored == [current_game_profile EXCEPT !.video_standard = chosen]
    IN  /\ profiles_file' = serialize_game_profiles(Append(kept, stored))
        /\ last_command' = "store"
        /\ StartSession(profiles_file', running)

remove_game_profile ==
    LET profiles == parse(profiles_file)
        kept     == OtherProfiles(profiles, running)
    IN  /\ kept # profiles
        /\ profiles_file' = serialize_game_profiles(kept)
        /\ last_command' = "remove"
        /\ StartSession(profiles_file', running)

Standards == {"ntsc", "pal"}

ProfilesNext ==
    \/ \E hash \in Hashes : OpenGame(hash) \/ \E lines \in HandWritten : EditFile(hash, lines)
    \/ \E mode \in {"accurate", "enhanced"} : set_runtime_mode(mode)
    \/ \E flag \in Switches, enabled \in BOOLEAN : set_enhancement(flag, enabled)
    \/ \E chosen \in Standards : store_game_profile(chosen)
    \/ remove_game_profile

ProfilesSpec == ProfilesInit /\ [][ProfilesNext]_profileVars

-----------------------------------------------------------------------------
(* Properties *)

\* A setting that only enhanced mode has, in a configuration of another mode:
\* reading such a profile back selects enhanced mode.
Promoted(config) ==
    /\ config.mode # "enhanced"
    /\ \/ config.disable_sprite_limit \/ config.reduce_flicker \/ config.enable_ym2612
       \/ config.viewport_height > 192

\* Storing the running game's profile or removing it, and reloading it, which
\* the commands do at once, keeps the enhancements that were running, in every
\* mode and with every switch, but for a store in hybrid mode with one on.
CommandsKeepEnhancements ==
    \/ last_command' = "other"
    \/ last_command' = "store" /\ Promoted(enhancements)
    \/ enhancements' = enhancements

\* Storing or removing one game's profile keeps every other game's: it means
\* what it meant, so that game's saved states still match its fingerprint.
\* Excepted are the profiles that reading back promotes.
OtherGamesKept ==
    last_command' \in {"store", "remove"} =>
        \A hash \in Hashes \ {running} :
            LET before == find_by_hash(parse(profiles_file), hash)
            IN  \/ before = <<>> \/ Promoted(Head(before).enhancements)
                \/ game_profile_fingerprint(find_by_hash(parse(profiles_file'), hash))
                     = game_profile_fingerprint(before)

\* Storing or removing one game's profile keeps the enhancements that are
\* running and the profiles of every other game, with the exceptions above.
EditsKeepProfiles == [][CommandsKeepEnhancements /\ OtherGamesKept]_profileVars

=============================================================================
