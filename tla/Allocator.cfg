CONSTANTS
    W = 4
    Unit = 2
    Pools <- MCPools
    MaxUsed = 4
SPECIFICATION Spec
INVARIANTS
    UsedAreDisjoint
    CountIsExact
    ChoiceIsExact
    StatsAreExact
