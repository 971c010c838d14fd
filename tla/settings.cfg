SPECIFICATION Spec
CONSTANTS
    tv1 = tv1
    tv2 = tv2
    tv3 = tv3
    Displays <- AllDisplays
    WithMac <- AddressedDisplays
    Files <- AllFiles
    Methods = {2}
    MaxEdits = 3
    MaxPairings = 1
    MaxDeaths = 1
INVARIANTS KeyOfItsDisplay KeysKept AppliedIsLoaded
CONSTRAINT Lasting
CHECK_DEADLOCK FALSE
