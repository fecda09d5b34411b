CONSTANTS
    c1 = c1
    c2 = c2
    w1 = w1
    w2 = w2
    Empty = Empty
    Clusters <- MCClusters
    WorkNames <- MCWorkNames
    ConditionLists <- MCConditionLists
    MaxHubChanges <- MCMaxHubChanges
SPECIFICATION Spec
INVARIANTS TypeOK OutputMatchesHub RequestsOnlyWhenValid
