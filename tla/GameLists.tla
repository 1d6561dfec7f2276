------------------------------ MODULE GameLists -----------------------------
(***************************************************************************)
(* The recent-games list (src/src/runtime/recent_games.cpp) and the game   *)
(* library with its aliases (src/src/runtime/game_library.cpp), as the     *)
(* window keeps them: loaded and saved back at start, touched and saved    *)
(* whenever a game is loaded (src/src/host/win32_host.cpp).  A window      *)
(* started from a terminal with a game reads neither list, and writes both *)
(* over at its first File > Open.                                          *)
(*                                                                         *)
(* Game files come and go behind the program's back.  A path has one       *)
(* normal form, and two paths may hold the same image.                     *)
(***************************************************************************)
EXTENDS Naturals, SequencesExt

CONSTANTS
    Paths,                          \* how games may be named
    NormalPath,                     \* path |-> its lexically normal form
    HashOf,                         \* normal path |-> hash of the image there
    Aliases, NoAlias,
    MaxEntries                      \* entries a list may have

ASSUME ListsAssumption ==
    /\ NormalPath \in [Paths -> Paths]
    /\ \A path \in Paths : NormalPath[NormalPath[path]] = NormalPath[path]
    /\ NoAlias \notin Aliases
    /\ MaxEntries \in Nat \ {0}

Normals == {NormalPath[path] : path \in Paths}

VARIABLES
    existing,                       \* the normal paths with a file
    open,                           \* the window is open
    recent_games, game_library,     \* AppState
    recent_file, library_file,
    current                         \* current_rom_path, or None

listVars == <<existing, open, recent_games, game_library, recent_file,
              library_file, current>>

None == "none"

is_regular_file(path) == NormalPath[path] \in existing
FirstN(list, n) == SubSeq(list, 1, IF Len(list) < n THEN Len(list) ELSE n)

-----------------------------------------------------------------------------
(* Recent games *)

same_path(left, right) == NormalPath[left] = NormalPath[right]

\* One path after another, unless the same one is there.
AddUnlessPresent(list, path) ==
    IF \E i \in DOMAIN list : same_path(list[i], path) THEN list ELSE Append(list, path)

load_recent_games(file) ==
    FirstN(FoldLeft(AddUnlessPresent, <<>>, SelectSeq(file, is_regular_file)), MaxEntries)

save_recent_games(games) ==
    [i \in DOMAIN FirstN(SelectSeq(games, is_regular_file), MaxEntries) |->
        NormalPath[SelectSeq(games, is_regular_file)[i]]]

touch_recent_game_AsNamed(games, game) ==
    FirstN(<<game>> \o SelectSeq(games, LAMBDA g : g # game /\ is_regular_file(g)), MaxEntries)

touch_recent_game(games, game) ==
    LET others == SelectSeq(games, LAMBDA g : ~same_path(g, game) /\ is_regular_file(g))
        list   == FoldLeft(AddUnlessPresent, <<game>>, others)
    IN  FirstN([i \in DOMAIN list |-> NormalPath[list[i]]], MaxEntries)

-----------------------------------------------------------------------------
(* The library *)

EntryPresent(entry) == is_regular_file(entry.path)

AddUnlessKnown(list, entry) ==
    IF \E i \in DOMAIN list : list[i].hash = entry.hash THEN list ELSE Append(list, entry)

load_game_library(file) ==
    FirstN(FoldLeft(AddUnlessKnown, <<>>, SelectSeq(file, EntryPresent)), MaxEntries)

save_game_library(entries) ==
    LET written == FirstN(SelectSeq(entries, EntryPresent), MaxEntries)
    IN  [i \in DOMAIN written |-> [written[i] EXCEPT !.path = NormalPath[@]]]

\* An entry offered without an alias takes over the one its hash had.
KeptAlias_None(entries, hash) == NoAlias
KeptAlias(entries, hash) ==
    IF \E i \in DOMAIN entries : entries[i].hash = hash
    THEN entries[CHOOSE i \in DOMAIN entries :
                    /\ entries[i].hash = hash
                    /\ \A j \in 1 .. i - 1 : entries[j].hash # hash].alias
    ELSE NoAlias

touch_game_library_Front(entries, path, hash) ==
    <<[path |-> path, hash |-> hash, alias |-> KeptAlias(entries, hash)]>>
      \o SelectSeq(FirstN(entries, MaxEntries - 1), LAMBDA e : e.hash # hash /\ EntryPresent(e))

touch_game_library(entries, path, hash) ==
    FirstN(<<[path |-> path, hash |-> hash, alias |-> KeptAlias(entries, hash)]>>
             \o SelectSeq(entries, LAMBDA e : e.hash # hash /\ EntryPresent(e)),
           MaxEntries)

set_game_library_alias(entries, hash, alias) ==
    LET i == CHOOSE i \in DOMAIN entries : entries[i].hash = hash
    IN  [entries EXCEPT ![i].alias = alias]

-----------------------------------------------------------------------------

ListsInit ==
    /\ existing = Normals
    /\ open = FALSE
    /\ recent_games = <<>> /\ game_library = <<>>
    /\ recent_file = <<>> /\ library_file = <<>>
    /\ current = None

HashesIn(entries) == {entries[i].hash : i \in DOMAIN entries}

\* run_empty_frontend(): both lists are loaded and written back.
Launch ==
    /\ ~open
    /\ open' = TRUE
    /\ recent_games' = load_recent_games(recent_file)
    /\ recent_file' = save_recent_games(recent_games')
    /\ game_library' = load_game_library(library_file)
    /\ library_file' = save_game_library(game_library')
    /\ UNCHANGED <<existing, current>>

\* run(): the window of a game named on the command line starts without lists,
\* and leaves the files alone.
LaunchWithGame(path) ==
    /\ ~open /\ is_regular_file(path)
    /\ open' = TRUE /\ current' = path
    /\ UNCHANGED <<existing, recent_games, game_library, recent_file, library_file>>

\* The end of load_game_session(), by a path the user chose or an entry of the
\* menus.
LoadGame(path) ==
    /\ open /\ is_regular_file(path)
    /\ game_library' = touch_game_library(game_library, path, HashOf[NormalPath[path]])
    /\ recent_games' = touch_recent_game(recent_games, path)
    /\ recent_file' = save_recent_games(recent_games')
    /\ library_file' = save_game_library(game_library')
    /\ current' = path
    /\ UNCHANGED <<existing, open>>

\* edit_current_game_alias(), clear_current_game_alias()
RenameGame(alias) ==
    /\ open /\ current # None
    /\ HashOf[NormalPath[current]] \in HashesIn(game_library)
    /\ game_library' = set_game_library_alias(game_library, HashOf[NormalPath[current]], alias)
    /\ library_file' = save_game_library(game_library')
    /\ UNCHANGED <<existing, open, recent_games, recent_file, current>>

Quit ==
    /\ open
    /\ open' = FALSE
    /\ recent_games' = <<>> /\ game_library' = <<>> /\ current' = None
    /\ UNCHANGED <<existing, recent_file, library_file>>

FileComesOrGoes(path) ==
    /\ existing' = IF path \in existing THEN existing \ {path} ELSE existing \cup {path}
    /\ UNCHANGED <<open, recent_games, game_library, recent_file, library_file, current>>

ListsNext ==
    \/ Launch \/ Quit
    \/ \E path \in Paths : LoadGame(path) \/ LaunchWithGame(path)
    \/ \E alias \in Aliases \cup {NoAlias} : RenameGame(alias)
    \/ \E path \in Normals : FileComesOrGoes(path)

ListsSpec == ListsInit /\ [][ListsNext]_listVars

-----------------------------------------------------------------------------
(* Properties *)

\* The window of a game started from a terminal, before it loads another.
Unlisted == open /\ current # None /\ recent_games = <<>>

\* The menu names a game once, however its path was written, and the running
\* game first; the library knows an image once, wherever its copies are; and
\* so do the files the next start reads.
GamesListedOnce ==
    /\ \A list \in {recent_games, recent_file} :
          /\ Len(list) <= MaxEntries
          /\ \A i, j \in DOMAIN list : same_path(list[i], list[j]) => i = j
    /\ open /\ current # None => Unlisted \/ same_path(Head(recent_games), current)
    /\ \A list \in {game_library, library_file} :
          /\ Len(list) <= MaxEntries
          /\ \A i, j \in DOMAIN list : list[i].hash = list[j].hash => i = j

\* What a list that becomes `new` still had a file for, it has again, unless
\* `new` is full; then it lost the oldest.
Keeps(old, new) ==
    \A i \in DOMAIN old :
        \/ old[i] \in Range(new)
        \/ Len(new) = MaxEntries /\ \A j \in i .. Len(old) : old[j] \notin Range(new)

RecentPaths(games) == [i \in DOMAIN games |-> NormalPath[games[i]]]
LibraryHashes(entries) == [i \in DOMAIN entries |-> entries[i].hash]

\* A game leaves the files only with its own file, or as the oldest of a full
\* list.
GamesStay ==
    /\ Keeps(RecentPaths(SelectSeq(recent_file, is_regular_file)), RecentPaths(recent_file'))
    /\ Keeps(LibraryHashes(SelectSeq(library_file, EntryPresent)), LibraryHashes(library_file'))

AliasIn(entries, hash) ==
    {entries[i].alias : i \in {i \in DOMAIN entries : entries[i].hash = hash}}

\* A name the user gave a game stays, on disk, until the user changes it:
\* through restarts, other games, and the same image opened from another place.
AliasSurvives ==
    \A hash \in HashesIn(library_file) \cap HashesIn(library_file') :
        AliasIn(library_file', hash) # AliasIn(library_file, hash) =>
            current # None /\ hash = HashOf[NormalPath[current]] /\ current' = current

\* The lists repeat nothing, and their files lose neither a game nor a name,
\* but in the window of a game started from a terminal, whose first File > Open
\* writes over what it never read.
ListsKept == []GamesListedOnce /\ [][Unlisted \/ (GamesStay /\ AliasSurvives)]_listVars

=============================================================================
