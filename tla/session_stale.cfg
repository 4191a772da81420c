CONSTANTS
    Jobs = {j1, j2}
    short = short
    one = one
    two = two
    Audios <- MCAudios
    Files <- MCFiles
    NoAudio = NoAudio
    NoFile = NoFile
    Windows <- MCWindows
    MaxWindows = 1
    Apps <- MCDocumented
SPECIFICATION Spec
INVARIANT NoForeignText
CHECK_DEADLOCK FALSE
