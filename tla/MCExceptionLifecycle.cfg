CONSTANTS
    Exception = {e1, e2}
    Approver = {alice, bob}
    None = none
    MaxDay = 2
SPECIFICATION Spec
SYMMETRY Symmetric
INVARIANTS
    TypeOK
    QueuesPartition
    SummaryAccounts
PROPERTIES
    ApprovalFrozen
    FollowsLifecycle
