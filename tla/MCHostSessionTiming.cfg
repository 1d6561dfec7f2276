SPECIFICATION SessionSpec
CONSTANTS
    Games = {a}
    Bioses = {boot}
    Standards = {ntsc, pal}
    NoGame = NoGame
    NoBios = NoBios
    NoProfile = NoProfile
    Absent = Absent
    Progress = {0, 1}
    Fresh = 0
    Cut = 2
INVARIANT TimingIsConfigured
