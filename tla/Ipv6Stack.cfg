SPECIFICATION StackSpec
CONSTANTS
    Entries = 2
    CounterSpace = 4
    OwnMac <- MCOwnMac
    AddressesOf <- MCAddressesOf
    SourcePort <- MCSourcePort
    Residue = {0, 255}
INVARIANTS
    StackTypeOK
    CacheIsCurrent
    AskerIsAnswered
    SentIsAccepted
    DamagedIsIgnored
