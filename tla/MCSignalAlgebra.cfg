CONSTANTS
    W <- MCW
    Inputs <- MCInputs
    FilterLists <- MCFilterLists
    KeyFns <- MCKeyFns
SPECIFICATION Spec
INVARIANT SplitIsPreorderOfLeaves
INVARIANT TotalCountsLeaves
INVARIANT FilterSelectsMatchingLeaves
INVARIANT PartitionGroupsByKey
CHECK_DEADLOCK FALSE
