CONSTANTS
    Rows = 2
    Size = 2
    MaxDownloads = 3
SPECIFICATION Spec
INVARIANTS
    TypeOK
    NamedIsValidated
    PartIsInUse
    InstalledHasFile
    EachDownloadEndsOnce
PROPERTIES
    ModelsAreKept
    SelectionIsUsable
    RowsFollowTheDownload
