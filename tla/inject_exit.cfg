CONSTANTS
    MaxVersions = 2
    MaxCalls = 2
SPECIFICATION Spec
CHECK_DEADLOCK FALSE
INVARIANT SuccessIsLoaded
