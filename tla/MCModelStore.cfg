SPECIFICATION FairSpec
CONSTANTS
    Versions = {"v1", "v2"}
    PrivateFiles <- MCPrivateFiles
    Models <- MCModels
    MaxScripts = 2
    MaxCrashes = 1
CHECK_DEADLOCK FALSE
INVARIANTS PlacesPinned ModelNeverLost ServesWhatIsPinned
PROPERTIES ScriptsEnd
