SPECIFICATION Spec
CONSTANT Used <- MCUsed
INVARIANTS
    HeadIsMetadata
    RevisionFixesSchema
    StopsOnlyAtTheseRows
PROPERTY UpgradeKeepsRows
CHECK_DEADLOCK FALSE
