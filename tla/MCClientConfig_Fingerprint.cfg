CONSTANTS
    EndpointArgs <- MCFingerprintEndpoints
    OptLists <- MCFingerprintLists
    Env <- MCEnv
SPECIFICATION Spec
INVARIANT FingerprintIdentifiesTuple
CHECK_DEADLOCK FALSE
