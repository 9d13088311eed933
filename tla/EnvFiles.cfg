SPECIFICATION HelpersSpec
CONSTANTS
    kWritableFileBufferSize = 2
    Sizes = {1, 3}
    MaxBytes = 6
    MaxFiles = 1
    MaxErrors = 2
    MaxSessions = 2
    kBufferSize = 2
INVARIANTS InOrder NothingLost PromisesKept NamedFilesExist StringWritten StringRead
