-------------------------- MODULE HostSessionProofs --------------------------
(***************************************************************************)
(* HostSession implements SramStore for every set of games, BIOSes and     *)
(* configurations, and a state is loaded only into the environment it was  *)
(* saved in.                                                               *)
(*                                                                         *)
(* The argument: the RAM the host holds and every .sav file belong to the  *)
(* game they are held for, and so does the RAM in a quick state, whose     *)
(* metadata names that game.  The metadata check at load is what makes the *)
(* last fact enough: without it, the RAM of one game reaches another's     *)
(* host, and at the next save its file.                                    *)
(***************************************************************************)
EXTENDS HostSession, TLAPS

AnyContents == Games \X (Progress \cup {Cut})
BiosChoice == Bioses \cup {NoBios}
ConfigChoice == Standards \cup {NoProfile}
Metadata == [rom : Games \cup {NoGame}, bios : BiosChoice, profile : ConfigChoice]
QuickFile == [metadata : Metadata, sram : AnyContents, standard : ConfigChoice \cup {Absent}]

SessionTypeOK ==
    /\ process \in {"closed", "open"}
    /\ session_options \in [bios : BiosChoice, config : ConfigChoice]
    /\ game \in Games \cup {NoGame}
    /\ host \in [sram : AnyContents \cup {Absent}, bios : BiosChoice, config : ConfigChoice,
                 standard : ConfigChoice \cup {Absent}]
    /\ state_metadata \in Metadata
    /\ sav \in [Games -> AnyContents \cup {Absent}]
    /\ quick \in [Games -> QuickFile \cup {Absent}]
    /\ profiles \in [Games -> ConfigChoice]

\* What the host and the files hold belongs to the game it is held for.
SavOwned == \A g \in Games : sav[g] \in Contents(g) \cup {Absent}
QuickOwned ==
    \A g \in Games : quick[g] # Absent =>
        /\ quick[g].metadata.rom = g
        /\ quick[g].sram \in Contents(g)
HostOwned ==
    /\ game = NoGame => host = NoHost
    /\ game # NoGame => host.sram \in Contents(game)

SessionIInv ==
    /\ SessionTypeOK
    /\ SavOwned /\ QuickOwned /\ HostOwned
    /\ StateMatchesSession
    /\ process = "closed" => game = NoGame

-----------------------------------------------------------------------------
(* Writing and reading cartridge RAM *)

LEMMA OwnContents ==
    ASSUME NEW g \in Games
    PROVE  /\ Contents(g) \subseteq AnyContents /\ Absent \notin Contents(g)
           /\ Torn(g) \in Contents(g) /\ Blank(g) \in Contents(g)
BY SessionAssumption DEF SessionAssumption, Contents, AnyContents, Torn, Blank

(* What a new host reads is its own game's, whatever the file holds. *)
LEMMA ReadsOwn ==
    ASSUME SessionIInv, NEW g \in Games
    PROVE  load_cartridge_ram(g) \in Contents(g)
BY OwnContents DEF SessionIInv, SavOwned, load_cartridge_ram

LEMMA SaveKeepsOwned ==
    ASSUME SessionIInv, save_active_sram
    PROVE  /\ sav' \in [Games -> AnyContents \cup {Absent}]
           /\ \A g \in Games : sav'[g] \in Contents(g) \cup {Absent}
<1>1. CASE game = NoGame
  BY <1>1 DEF SessionIInv, SessionTypeOK, SavOwned, save_active_sram
<1>2. CASE game # NoGame
  <2>1. game \in Games
    BY <1>2 DEF SessionIInv, SessionTypeOK
  <2>2. PICK written \in {host.sram, Torn(game)} : sav' = [sav EXCEPT ![game] = written]
    BY <1>2 DEF save_active_sram
  <2>3. written \in Contents(game) /\ Contents(game) \subseteq AnyContents
    BY <1>2, <2>1, <2>2, OwnContents DEF SessionIInv, HostOwned
  <2> QED BY <2>1, <2>2, <2>3 DEF SessionIInv, SessionTypeOK, SavOwned
<1> QED BY <1>1, <1>2

-----------------------------------------------------------------------------
(* The invariant *)

LEMMA SessionStarts == SessionInit => SessionIInv
<1> SUFFICES ASSUME SessionInit
             PROVE  SessionIInv
  OBVIOUS
<1>1. SessionTypeOK
  BY DEF SessionInit, SessionTypeOK, NoOptions, NoHost, NoMetadata, Metadata, BiosChoice,
         ConfigChoice
<1>2. SavOwned /\ QuickOwned /\ HostOwned /\ StateMatchesSession /\ game = NoGame
  BY DEF SessionInit, SavOwned, QuickOwned, HostOwned, StateMatchesSession
<1> QED BY <1>1, <1>2 DEF SessionIInv

LEMMA LoadKeepsInv ==
    ASSUME SessionIInv, process = "open",
           NEW new \in Games, NEW bios \in BiosChoice, NEW profile \in ConfigChoice,
           load_game_session(new, bios, profile),
           session_options' \in [bios : BiosChoice, config : ConfigChoice],
           profiles' \in [Games -> ConfigChoice]
    PROVE  SessionIInv'
<1>1. load_cartridge_ram(new) \in Contents(new) /\ Contents(new) \subseteq AnyContents
  BY ReadsOwn, OwnContents
<1>2. /\ sav' \in [Games -> AnyContents \cup {Absent}]
      /\ \A g \in Games : sav'[g] \in Contents(g) \cup {Absent}
  BY SaveKeepsOwned DEF load_game_session
<1>3. EffectiveConfig(profile) \in ConfigChoice
      /\ (profile # NoProfile => EffectiveConfig(profile) = profile)
  BY DEF SessionIInv, SessionTypeOK, EffectiveConfig
<1>4. SessionTypeOK'
  BY <1>1, <1>2, <1>3
  DEF SessionIInv, SessionTypeOK, load_game_session, MetadataFor, Metadata
<1>5. HostOwned' /\ StateMatchesSession'
  BY <1>1, <1>3, SessionAssumption
  DEF SessionAssumption, HostOwned, StateMatchesSession, load_game_session, MetadataFor
<1>6. SavOwned' /\ QuickOwned'
  BY <1>2 DEF SessionIInv, SavOwned, QuickOwned, load_game_session
<1>7. process' = "open"
  BY DEF load_game_session
<1> QED BY <1>4, <1>5, <1>6, <1>7 DEF SessionIInv

LEMMA ThrowKeepsInv ==
    ASSUME SessionIInv, LoadThrows,
           session_options' \in [bios : BiosChoice, config : ConfigChoice],
           profiles' \in [Games -> ConfigChoice]
    PROVE  SessionIInv'
BY DEF SessionIInv, SessionTypeOK, SavOwned, QuickOwned, HostOwned, StateMatchesSession,
       LoadThrows, session

(* The four commands that load a session: a game, a BIOS, a profile stored or
   removed. *)
LEMMA CommandsKeepInv ==
    ASSUME SessionIInv,
           \/ \E new \in Games : OpenRom(new)
           \/ \E bios \in BiosChoice : SetSessionBios(bios)
           \/ \E config \in Standards : StoreProfile(config)
           \/ RemoveProfile
    PROVE  SessionIInv'
<1>0. /\ SessionTypeOK
      /\ session_options.bios \in BiosChoice
      /\ \A g \in Games : profiles[g] \in ConfigChoice
      /\ NoProfile \in ConfigChoice /\ Standards \subseteq ConfigChoice
      /\ game # NoGame => game \in Games
  BY DEF SessionIInv, SessionTypeOK, ConfigChoice
<1>1. ASSUME NEW new \in Games, OpenRom(new)
      PROVE  SessionIInv'
  <2>1. /\ process = "open"
        /\ session_options' \in [bios : BiosChoice, config : ConfigChoice]
        /\ profiles' \in [Games -> ConfigChoice]
        /\ load_game_session(new, session_options.bios, profiles[new]) \/ LoadThrows
    BY <1>0, <1>1 DEF OpenRom, SessionTypeOK
  <2> QED BY <1>0, <2>1, LoadKeepsInv, ThrowKeepsInv
<1>2. ASSUME NEW bios \in BiosChoice, SetSessionBios(bios)
      PROVE  SessionIInv'
  <2>1. /\ process = "open"
        /\ session_options' \in [bios : BiosChoice, config : ConfigChoice]
        /\ profiles' \in [Games -> ConfigChoice]
        /\ (game # NoGame /\ load_game_session(game, bios, profiles[game])) \/ LoadThrows
    BY <1>0, <1>2 DEF SetSessionBios, SessionTypeOK
  <2> QED BY <1>0, <2>1, LoadKeepsInv, ThrowKeepsInv
<1>3. ASSUME NEW config \in Standards, StoreProfile(config)
      PROVE  SessionIInv'
  <2>1. /\ process = "open" /\ game \in Games /\ config \in ConfigChoice
        /\ session_options' \in [bios : BiosChoice, config : ConfigChoice]
        /\ profiles' \in [Games -> ConfigChoice]
        /\ load_game_session(game, session_options.bios, config) \/ LoadThrows
    BY <1>0, <1>3 DEF StoreProfile, SessionTypeOK
  <2> QED BY <1>0, <2>1, LoadKeepsInv, ThrowKeepsInv
<1>4. ASSUME RemoveProfile
      PROVE  SessionIInv'
  <2>1. /\ process = "open" /\ game \in Games
        /\ session_options' \in [bios : BiosChoice, config : ConfigChoice]
        /\ profiles' \in [Games -> ConfigChoice]
        /\ load_game_session(game, session_options.bios, NoProfile) \/ LoadThrows
    BY <1>0, <1>4 DEF RemoveProfile, SessionTypeOK
  <2> QED BY <1>0, <2>1, LoadKeepsInv, ThrowKeepsInv
<1> QED BY <1>1, <1>2, <1>3, <1>4

LEMMA PlayKeepsInv ==
    ASSUME SessionIInv,
           RunFrame \/ QuickSave \/ \E file \in Games : LoadState(file)
    PROVE  SessionIInv'
<1>0. SessionTypeOK /\ (game # NoGame => game \in Games)
  BY DEF SessionIInv, SessionTypeOK
<1>1. ASSUME RunFrame
      PROVE  SessionIInv'
  <2>1. PICK progress \in Progress : host' = [host EXCEPT !.sram = <<game, progress>>]
    BY <1>1 DEF RunFrame
  <2>2. <<game, progress>> \in Contents(game) /\ Contents(game) \subseteq AnyContents
    BY <1>0, <1>1, OwnContents DEF RunFrame, Contents
  <2>3. SessionTypeOK'
    BY <1>0, <1>1, <2>1, <2>2 DEF SessionTypeOK, RunFrame, files
  <2>4. HostOwned' /\ StateMatchesSession'
    BY <1>0, <1>1, <2>1, <2>2 DEF SessionIInv, SessionTypeOK, HostOwned, StateMatchesSession,
                                  RunFrame
  <2>5. SavOwned' /\ QuickOwned' /\ process' = "open"
    BY <1>1 DEF SessionIInv, SavOwned, QuickOwned, RunFrame, files
  <2> QED BY <2>3, <2>4, <2>5 DEF SessionIInv
<1>2. ASSUME QuickSave
      PROVE  SessionIInv'
  <2> DEFINE saved == [metadata |-> state_metadata, sram |-> host.sram,
                       standard |-> host.standard]
  <2>1. PICK file \in {saved, Absent} : quick' = [quick EXCEPT ![game] = file]
    BY <1>2 DEF QuickSave
  <2>2. game \in Games /\ state_metadata.rom = game /\ host.sram \in Contents(game)
        /\ Contents(game) \subseteq AnyContents
    BY <1>0, <1>2, OwnContents DEF QuickSave, SessionIInv, HostOwned, StateMatchesSession
  <2>3. saved \in QuickFile
    BY <1>0, <2>2 DEF SessionTypeOK, QuickFile
  <2>4. SessionTypeOK'
    BY <1>0, <1>2, <2>1, <2>2, <2>3 DEF SessionTypeOK, QuickSave, session
  <2>5. QuickOwned'
    <3>1. file # Absent => file.metadata.rom = game /\ file.sram \in Contents(game)
      BY <2>1, <2>2
    <3> HIDE DEF saved
    <3> QED BY <1>0, <2>1, <2>2, <3>1 DEF SessionIInv, SessionTypeOK, QuickOwned
  <2>6. SavOwned' /\ HostOwned' /\ StateMatchesSession' /\ process' = "open"
    BY <1>2 DEF SessionIInv, SavOwned, HostOwned, StateMatchesSession, QuickSave, session
  <2> QED BY <2>4, <2>5, <2>6 DEF SessionIInv
<1>3. ASSUME NEW file \in Games, LoadState(file)
      PROVE  SessionIInv'
  <2>1. /\ game \in Games /\ quick[file] \in QuickFile
        /\ quick[file].metadata.rom = file /\ quick[file].sram \in Contents(file)
        /\ Contents(file) \subseteq AnyContents
    BY <1>0, <1>3, OwnContents DEF LoadState, SessionIInv, SessionTypeOK, QuickOwned
  <2>2. file = game
    BY <1>3, <2>1 DEF LoadState, Compatible, SessionIInv, StateMatchesSession
  <2>3. SessionTypeOK'
    BY <1>0, <1>3, <2>1 DEF SessionTypeOK, LoadState, QuickFile, files
  <2>4. HostOwned' /\ StateMatchesSession'
    BY <1>0, <1>3, <2>1, <2>2 DEF SessionIInv, SessionTypeOK, HostOwned, StateMatchesSession,
                                  LoadState
  <2>5. SavOwned' /\ QuickOwned' /\ process' = "open"
    BY <1>3 DEF SessionIInv, SavOwned, QuickOwned, LoadState, files
  <2> QED BY <2>3, <2>4, <2>5 DEF SessionIInv
<1> QED BY <1>1, <1>2, <1>3

LEMMA EndsKeepInv ==
    ASSUME SessionIInv, Gone,
           sav' \in [Games -> AnyContents \cup {Absent}],
           \A g \in Games : sav'[g] \in Contents(g) \cup {Absent}
    PROVE  SessionIInv'
<1>1. SessionTypeOK'
  BY DEF SessionIInv, SessionTypeOK, Gone, NoOptions, NoHost, NoMetadata, Metadata, BiosChoice,
         ConfigChoice
<1>2. SavOwned' /\ QuickOwned' /\ HostOwned' /\ StateMatchesSession' /\ game' = NoGame
  BY DEF SessionIInv, SavOwned, QuickOwned, HostOwned, StateMatchesSession, Gone
<1> QED BY <1>1, <1>2 DEF SessionIInv

(* A crash leaves every file as it was, or the running game's torn. *)
LEMMA CrashKeepsOwned ==
    ASSUME SessionIInv, Crash
    PROVE  /\ sav' \in [Games -> AnyContents \cup {Absent}]
           /\ \A g \in Games : sav'[g] \in Contents(g) \cup {Absent}
<1>1. CASE UNCHANGED sav
  BY <1>1 DEF SessionIInv, SessionTypeOK, SavOwned
<1>2. CASE game # NoGame /\ sav' = [sav EXCEPT ![game] = Torn(game)]
  <2>1. game \in Games
    BY <1>2 DEF SessionIInv, SessionTypeOK
  <2> QED BY <1>2, <2>1, OwnContents DEF SessionIInv, SessionTypeOK, SavOwned
<1> QED BY <1>1, <1>2 DEF Crash

LEMMA SessionSteps == SessionIInv /\ [SessionNext]_sessionVars => SessionIInv'
<1> SUFFICES ASSUME SessionIInv, [SessionNext]_sessionVars
             PROVE  SessionIInv'
  OBVIOUS
<1>1. ASSUME NEW config \in Standards, Launch(config)
      PROVE  SessionIInv'
  BY <1>1 DEF Launch, SessionIInv, SessionTypeOK, SavOwned, QuickOwned, HostOwned,
              StateMatchesSession, session, files, BiosChoice, ConfigChoice
<1>2. CASE \/ \E new \in Games : OpenRom(new)
           \/ \E bios \in BiosChoice : SetSessionBios(bios)
           \/ \E config \in Standards : StoreProfile(config)
           \/ RemoveProfile
  BY <1>2, CommandsKeepInv
<1>3. CASE RunFrame \/ QuickSave \/ \E file \in Games : LoadState(file)
  BY <1>3, PlayKeepsInv
<1>4. CASE Quit
  BY <1>4, SaveKeepsOwned, EndsKeepInv DEF Quit
<1>5. CASE Crash
  BY <1>5, CrashKeepsOwned, EndsKeepInv DEF Crash
<1>6. CASE UNCHANGED sessionVars
  BY <1>6 DEF SessionIInv, SessionTypeOK, SavOwned, QuickOwned, HostOwned,
              StateMatchesSession, sessionVars, session, files
<1> QED BY <1>1, <1>2, <1>3, <1>4, <1>5, <1>6 DEF SessionNext, BiosChoice

LEMMA SessionInvariant == SessionSpec => []SessionIInv
BY SessionStarts, SessionSteps, PTL DEF SessionSpec

(* The environment a state is matched against, at a load, is the one the host
   runs in: not the BIOS selected for the next session, and not a profile the
   host was not built with. *)
THEOREM StateMatchesSessionAlways == SessionSpec => []StateMatchesSession
<1>1. SessionIInv => StateMatchesSession
  BY DEF SessionIInv
<1> QED BY <1>1, SessionInvariant, PTL

-----------------------------------------------------------------------------
(* The refinement *)

Kept == [g \in Games |-> load_cartridge_ram(g)]

LEMMA SaveIsOutgoing ==
    ASSUME SessionIInv, save_active_sram
    PROVE  Store!Outgoing
<1>1. CASE game = NoGame
  BY <1>1 DEF save_active_sram, Store!Outgoing, load_cartridge_ram
<1>2. CASE game # NoGame
  <2>1. game \in Games
    BY <1>2 DEF SessionIInv, SessionTypeOK
  <2>2. PICK written \in {host.sram, Torn(game)} : sav' = [sav EXCEPT ![game] = written]
    BY <1>2 DEF save_active_sram
  <2>3. written # Absent
    BY <1>2, <2>1, <2>2, OwnContents DEF SessionIInv, HostOwned
  <2>4. Kept' = [Kept EXCEPT ![game] = written]
    BY <2>1, <2>2, <2>3 DEF SessionIInv, SessionTypeOK, Kept, load_cartridge_ram
  <2> QED BY <1>2, <2>2, <2>4 DEF Store!Outgoing, Kept
<1> QED BY <1>1, <1>2

LEMMA LoadIsStart ==
    ASSUME SessionIInv, NEW new \in Games, NEW bios, NEW profile,
           load_game_session(new, bios, profile)
    PROVE  Store!Start(new)
<1>1. Store!Outgoing
  BY SaveIsOutgoing DEF load_game_session
<1>2. game' = new /\ host'.sram = Kept[new]
  BY DEF load_game_session, Kept
<1> QED BY <1>1, <1>2 DEF Store!Start, Kept

LEMMA KeptUnchanged == UNCHANGED sav => UNCHANGED Kept
BY DEF Kept, load_cartridge_ram

LEMMA ThrowStutters == LoadThrows => UNCHANGED Store!storeVars
BY KeptUnchanged DEF LoadThrows, session, Store!storeVars, Kept

(* Every game finds its own RAM again: any load, reload, restore, save, exit
   or crash is a step of the store, or changes nothing the store sees. *)
THEOREM StoreImplemented == SessionSpec => RamKept
<1>1. SessionInit => Store!StoreInit
  BY DEF SessionInit, Store!StoreInit, load_cartridge_ram
<1>2. SessionIInv /\ SessionIInv' /\ [SessionNext]_sessionVars
        => [Store!StoreNext]_(Store!storeVars)
  <2> SUFFICES ASSUME SessionIInv, SessionIInv', [SessionNext]_sessionVars
               PROVE  Store!StoreNext \/ UNCHANGED Store!storeVars
    OBVIOUS
  <2>0. game # NoGame => game \in Games
    BY DEF SessionIInv, SessionTypeOK
  <2>1. ASSUME NEW config \in Standards, Launch(config)
        PROVE  Store!StoreNext \/ UNCHANGED Store!storeVars
    BY <2>1, KeptUnchanged DEF Launch, session, files, Store!storeVars, Kept
  <2>2. CASE \/ \E new \in Games : OpenRom(new)
             \/ \E bios \in BiosChoice : SetSessionBios(bios)
             \/ \E config \in Standards : StoreProfile(config)
             \/ RemoveProfile
    <3>1. \/ \E new \in Games : \E bios, profile : load_game_session(new, bios, profile)
          \/ LoadThrows
      BY <2>0, <2>2 DEF OpenRom, SetSessionBios, StoreProfile, RemoveProfile
    <3> QED BY <3>1, LoadIsStart, ThrowStutters DEF Store!StoreNext
  <2>3. CASE RunFrame \/ \E file \in Games : LoadState(file)
    <3>1. game # NoGame /\ UNCHANGED <<game, Kept>>
      BY <2>3, KeptUnchanged DEF RunFrame, LoadState, files
    <3>2. host'.sram \in Contents(game)
      BY <3>1 DEF SessionIInv, HostOwned
    <3> QED BY <3>1, <3>2 DEF Store!StoreNext, Store!Play, Kept
  <2>4. CASE QuickSave
    BY <2>4, KeptUnchanged DEF QuickSave, session, Store!storeVars, Kept
  <2>5. CASE game = NoGame /\ (Quit \/ Crash)
    <3>1. UNCHANGED <<game, host, sav>>
      BY <2>5 DEF Quit, Crash, Gone, save_active_sram, SessionIInv, HostOwned
    <3> QED BY <3>1, KeptUnchanged DEF Store!storeVars, Kept
  <2>6. CASE game # NoGame /\ Quit
    BY <2>6, SaveIsOutgoing DEF Quit, Gone, Store!StoreNext, Store!Close
  <2>7. CASE game # NoGame /\ Crash
    <3>1. CASE UNCHANGED sav
      BY <2>7, <3>1, KeptUnchanged DEF Crash, Gone, Store!StoreNext, Store!Die, Kept
    <3>2. CASE sav' = [sav EXCEPT ![game] = Torn(game)]
      <4>1. Kept' = [Kept EXCEPT ![game] = Torn(game)]
        <5>1. game \in Games /\ Torn(game) # Absent
          BY <2>0, <2>7, OwnContents
        <5> QED BY <3>2, <5>1 DEF SessionIInv, SessionTypeOK, Kept, load_cartridge_ram
      <4> QED BY <2>7, <4>1 DEF Crash, Gone, Store!StoreNext, Store!Die, Kept
    <3> QED BY <2>7, <3>1, <3>2 DEF Crash
  <2>8. CASE UNCHANGED sessionVars
    BY <2>8, KeptUnchanged DEF sessionVars, session, files, Store!storeVars, Kept
  <2> QED BY <2>1, <2>2, <2>3, <2>4, <2>5, <2>6, <2>7, <2>8 DEF SessionNext, BiosChoice
<1> QED BY <1>1, <1>2, SessionInvariant, PTL DEF SessionSpec, RamKept, Store!StoreSpec

=============================================================================
