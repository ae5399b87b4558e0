\* A card of two blocks, of each kind, written and erased any number of times; one refusal,
\* and one reset, power failure or removal, each at any point.
SPECIFICATION FairSpec
CONSTANTS
    LastBlock = 1
    EraseUnits = {1, 2}
    Data = {1}
    MaxRefusals = 1
    MaxBoots = 1
INVARIANTS
    ReportsAreTrue
    DriverMatchesCard
PROPERTIES
    CallsReturn
