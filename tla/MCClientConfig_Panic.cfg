CONSTANTS
    EndpointArgs <- MCEndpointArgs
    OptLists <- MCOptLists
    Env <- MCEnv
SPECIFICATION Spec
INVARIANT NewClientNoPanic
CHECK_DEADLOCK FALSE
