CONSTANTS
    MaxRevision = 3
    Good = {0, 1, 3}
    MaxFaults = 3

SPECIFICATION Spec

INVARIANTS
    DeployedIsTested
    SucceededIsInstalled

PROPERTIES
    OnlyForward
