SPECIFICATION Spec
CONSTANTS
    Docs <- MCDocs
    Nodes <- MCNodes
    MaxKids = 4
    MaxTops = 3
INVARIANTS
    FollowsTheRules
    NamesUnique
CHECK_DEADLOCK FALSE
