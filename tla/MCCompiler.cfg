SPECIFICATION FairSpec
CONSTANTS
    None = None
    Text = Text
    Unreadable = Unreadable
    Types <- MCTypes
    EntityOf <- MCEntityOf
    MaxFlows = 3
    PackIds <- MCPackIds
    Scenarios <- MCScenarios
    Disks <- MCDisks
INVARIANTS
    TypeOK
    PacksClosure
    RefsResolve
    FlowOrderKept
    StrictIsSound
PROPERTIES
    CompileEnds
