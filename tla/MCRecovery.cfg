SPECIFICATION FairSpec
CONSTANTS
    NoBundle = NoBundle
    Pins = {1234, 5678}
    MaxChanges = 3
    MaxFaults = 1
    MaxDeaths = 1
INVARIANTS
    PhraseRestores
    PinsAgree
PROPERTIES
    BackupNeverForgets
    UploadsCatchUp
CHECK_DEADLOCK FALSE
