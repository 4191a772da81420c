CONSTANTS
    Jobs = {j1, j2}
    short = short
    one = one
    two = two
    Audios <- MCAudios
    Files <- MCFiles
    NoAudio = NoAudio
    NoFile = NoFile
    Windows <- MCWindows
    MaxWindows = 1
    Apps <- MCApps
SPECIFICATION FairSpec
INVARIANTS TypeOK OwnText WavFilesTranscribed NoUseAfterFree
 
CHECK_DEADLOCK FALSE
