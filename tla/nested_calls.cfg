SPECIFICATION FairSpec
CONSTANTS
    Nodes = {"a", "b", "c"}
    Calls = {"a1", "b1", "b2", "c1", "c2"}
    NoCall = NoCall
    At <- AtOf
    Parent <- ParentOf
    Rank <- RankOf
    MaxStreams = 1
    MaxCrashes = 2
INVARIANT TypeOK
PROPERTIES NestedCallsReturn BudgetRestored
CHECK_DEADLOCK FALSE
