SPECIFICATION LiveSpec
CONSTANTS
    Drives = {master, slave}
    NumLba = 2
    Addressable = 3
    Lbas = {1, 3}
    MaxSectors = 2
INVARIANTS OwnSectors Quiet
PROPERTIES CallReturns
