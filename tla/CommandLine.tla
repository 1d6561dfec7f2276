----------------------------- MODULE CommandLine -----------------------------
(***************************************************************************)
(* The command line of sgrecomp (src/src/tools/sgrecomp.cpp): arguments    *)
(* are taken in order, --config reads a file of defaults where it stands,  *)
(* then a profile matched by the hash of the image is laid over both and   *)
(* what is still unknown is inferred from the image.                       *)
(*                                                                         *)
(* Data abstraction.  Options that only hold a value are members of        *)
(* `Names`; the enhancements are the sprite limit, which stands for every  *)
(* one that asks for the enhanced mode, and the mode.  What a profile's    *)
(* text makes of the two is in GameProfiles; here a profile has them as    *)
(* they came out, of any mode.  Files to be written are left out.          *)
(***************************************************************************)
EXTENDS Naturals, Sequences

CONSTANTS
    Values,             \* of an option
    Configs,            \* configuration files: sequences of <<key, value>>
    Profiles,           \* what a matched profile may set
    MaxArguments        \* bound on the arguments

\* A file is a list of entries, and a switch in it is on or off.
ASSUME CommandAssumption ==
    \A config \in Configs :
        /\ config \in Seq({config[i] : i \in DOMAIN config})
        /\ \A i \in DOMAIN config :
              config[i][1] = "disable_sprite_limit" => config[i][2] \in BOOLEAN

Names == {"mapper", "video_standard"}
RunModes == {"disassemble", "smoke", "host"}
Models == {"sms", "gamegear"}
Unset == "default"
NoInput == "none"
NoHint == "no hint"

VARIABLES
    opts,               \* Options
    arguments,          \* those taken so far, with the files they named
    stage               \* "parse", "main", "failed", or what main() does

commandVars == <<opts, arguments, stage>>

DefaultOptions ==
    [settings |-> [name \in Names |-> Unset],
     run |-> {},                                \* run_smoke, run_host, disassemble_only
     input |-> NoInput, header |-> FALSE,
     model |-> "sms", model_explicit |-> FALSE,
     enhancements |-> [mode |-> "accurate", disable_sprite_limit |-> FALSE]]

-----------------------------------------------------------------------------

ConfigKeys == Names \cup {"mode", "model", "input", "disable_sprite_limit"}

\* The switch of an enhancement asks for the enhanced mode when it goes on, and
\* leaves the mode alone when it goes off.
Limited(enhancements, value) ==
    [mode |-> IF value THEN "enhanced" ELSE enhancements.mode, disable_sprite_limit |-> value]

\* A key of a configuration file.
Assigned(o, key, value) ==
    CASE key \in Names -> [o EXCEPT !.settings[key] = value]
      [] key = "mode" -> [o EXCEPT !.run = {value} \cap RunModes]
      [] key = "model" -> [o EXCEPT !.model = value, !.model_explicit = TRUE]
      [] key = "input" -> [o EXCEPT !.input = value]
      [] key = "disable_sprite_limit" -> [o EXCEPT !.enhancements = Limited(@, value)]

Readable(config) ==
    /\ \A i \in DOMAIN config : config[i][1] \in ConfigKeys
    /\ \A i, j \in DOMAIN config : config[i][1] = config[j][1] => i = j

\* apply_config_file(): the keys in their order.
apply_config_file_AsDefaults(o, config) ==
    [o EXCEPT !.settings = [name \in Names |->
        IF o.settings[name] = Unset /\ \E i \in DOMAIN config : config[i][1] = name
        THEN config[CHOOSE i \in DOMAIN config : config[i][1] = name][2]
        ELSE o.settings[name]]]

apply_config_file(o, config) ==
    LET After[n \in 0 .. Len(config)] ==
            IF n = 0 THEN o ELSE Assigned(After[n - 1], config[n][1], config[n][2])
    IN  After[Len(config)]

CommandInit ==
    /\ opts = DefaultOptions /\ arguments = <<>> /\ stage = "parse"

\* One argument of parse_args(); `said` is what it said, for the history.
Argument(said, new) ==
    /\ stage = "parse" /\ Len(arguments) < MaxArguments
    /\ opts' = new /\ arguments' = Append(arguments, said)
    /\ UNCHANGED stage

Fails == stage = "parse" /\ stage' = "failed" /\ UNCHANGED <<opts, arguments>>

ConfigArgument ==
    \E config \in Configs :
        IF Readable(config)
        THEN Argument(<<"config", config>>, apply_config_file(opts, config))
        ELSE Fails

OptionArgument ==
    \/ \E name \in Names, value \in Values :
          Argument(<<name, value>>, [opts EXCEPT !.settings[name] = value])
    \/ \E model \in Models :
          Argument(<<"model", model>>, [opts EXCEPT !.model = model, !.model_explicit = TRUE])

\* --run-smoke, --run-host, --disasm and --disable-sprite-limit only switch on.
FlagArgument ==
    \/ \E mode \in RunModes : Argument(<<"mode", mode>>, [opts EXCEPT !.run = @ \cup {mode}])
    \/ Argument(<<"disable_sprite_limit", TRUE>>,
                [opts EXCEPT !.enhancements = Limited(@, TRUE)])

HeaderArgument ==
    IF opts.header THEN Fails ELSE Argument(<<"header", TRUE>>, [opts EXCEPT !.header = TRUE])

\* A bare argument is the image, unless one is named already.
ImageArgument ==
    IF opts.input = NoInput
    THEN Argument(<<"input", "rom">>, [opts EXCEPT !.input = "rom"])
    ELSE Fails

EndOfArguments ==
    /\ stage = "parse"
    /\ stage' = IF opts.input = NoInput THEN "failed" ELSE "main"
    /\ UNCHANGED <<opts, arguments>>

\* apply_game_profile(): the enhancements of a profile come whole, with the
\* mode its text ended on.
apply_game_profile_UnlessSet(profile) ==
    [opts EXCEPT !.settings = [name \in Names |->
        IF name \in DOMAIN profile /\ @[name] = Unset THEN profile[name] ELSE @[name]]]

apply_game_profile(profile) ==
    [opts EXCEPT
        !.settings = [name \in Names |-> IF name \in DOMAIN profile THEN profile[name] ELSE @[name]],
        !.model = IF "model" \in DOMAIN profile THEN profile.model ELSE @,
        !.model_explicit = @ \/ "model" \in DOMAIN profile,
        !.enhancements = IF "enhancements" \in DOMAIN profile THEN profile.enhancements ELSE @]

\* main(): a header is written before profiles are looked at; otherwise one
\* of the four things is done, the first that is asked for.
Dispatch(o) ==
    IF o.header THEN "header"
    ELSE IF "disassemble" \in o.run THEN "disassemble"
    ELSE IF "smoke" \in o.run THEN "smoke"
    ELSE IF "host" \in o.run THEN "host" ELSE "generate"

Main(profile, hint) ==
    /\ stage = "main"
    /\ LET profiled == IF opts.header THEN opts ELSE apply_game_profile(profile)
       IN  opts' = IF opts.header \/ profiled.model_explicit \/ hint = NoHint
                   THEN profiled ELSE [profiled EXCEPT !.model = hint]
    /\ stage' = Dispatch(opts)
    /\ arguments' = Append(arguments, <<"profile", profile, hint>>)

CommandNext ==
    \/ ConfigArgument \/ OptionArgument \/ FlagArgument \/ HeaderArgument
    \/ ImageArgument \/ EndOfArguments
    \/ \E profile \in Profiles, hint \in Models \cup {NoHint} : Main(profile, hint)

CommandSpec == CommandInit /\ [][CommandNext]_commandVars

-----------------------------------------------------------------------------
(* Properties *)

Done == stage \in {"disassemble", "smoke", "host", "generate"}
Laid == arguments[Len(arguments)]

\* What argument i says of a name: its own value, or its file's.
Says(i, name) ==
    IF arguments[i][1] = "config"
    THEN {arguments[i][2][j][2] : j \in {k \in DOMAIN arguments[i][2] : arguments[i][2][k][1] = name}}
    ELSE IF arguments[i][1] = name THEN {arguments[i][2]} ELSE {}

Mentions(name) == {i \in 1 .. Len(arguments) - 1 : Says(i, name) # {}}

LatestWord(name, default) ==
    IF Mentions(name) = {} THEN default
    ELSE CHOOSE value \in
             Says(CHOOSE i \in Mentions(name) : \A j \in Mentions(name) : j <= i, name) : TRUE

\* Everything the arguments said of a name.
Ever(name) == UNION {Says(i, name) : i \in 1 .. Len(arguments) - 1}

\* Whatever the order of flags and files, a command runs under the settings of
\* the matched profile, then those said last, then what the image suggests,
\* then the defaults.  The enhancements are the profile's, mode and all, or
\* those said last, in the enhanced mode if one was ever switched on, be it
\* off again since.
SettingsInOrder ==
    Done =>
        /\ \A name \in Names :
              opts.settings[name] = IF name \in DOMAIN Laid[2] THEN Laid[2][name]
                                    ELSE LatestWord(name, Unset)
        /\ opts.model = IF "model" \in DOMAIN Laid[2] THEN Laid[2].model
                        ELSE LatestWord("model", IF Laid[3] = NoHint THEN "sms" ELSE Laid[3])
        /\ IF "enhancements" \in DOMAIN Laid[2] THEN opts.enhancements = Laid[2].enhancements
           ELSE /\ opts.enhancements.disable_sprite_limit = LatestWord("disable_sprite_limit", FALSE)
                /\ opts.enhancements.mode =
                      IF TRUE \in Ever("disable_sprite_limit") THEN "enhanced" ELSE "accurate"

\* README.md says that flags after --config override what the file says: if the
\* file chooses a way to run and one later flag another, the flag's is taken.
FlagsOverrideConfig ==
    \A i, j \in 1 .. Len(arguments) - 1 :
        Done /\ Mentions("mode") = {i, j} /\ i < j
        /\ arguments[i][1] = "config" /\ arguments[j][1] = "mode" =>
            stage = arguments[j][2]

=============================================================================
