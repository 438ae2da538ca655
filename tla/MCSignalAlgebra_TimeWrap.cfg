CONSTANTS
    W <- MCW
    Inputs <- MCInputs
    FilterLists <- MCFilterLists
    KeyFns <- MCKeyFns
SPECIFICATION Spec
INVARIANT TimeKeyIsWindowOfTimestamp
CHECK_DEADLOCK FALSE
