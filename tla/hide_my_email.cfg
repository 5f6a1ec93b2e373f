CONSTANTS
    MaxRounds = 2
    ValidateAttempts = 2
    WriteAttempts = 2
    MaxAddresses = 4
    MaxCalls = 2
    MaxFaults = 3
SPECIFICATION Spec
INVARIANT TypeOK
PROPERTIES CallsAnswered CreationBounded
CHECK_DEADLOCK FALSE
