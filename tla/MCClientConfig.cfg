CONSTANTS
    EndpointArgs <- MCEndpointArgs
    OptLists <- MCOptLists
    Env <- MCEnv
SPECIFICATION Spec
INVARIANT ConfigMatchesSpec
INVARIANT EnvOrderIrrelevant
CHECK_DEADLOCK FALSE
