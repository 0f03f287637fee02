SPECIFICATION Spec
CONSTANTS
    MaxRequest = 3
    Timeout = 5
    Cleanup = 1
    MinAge = 10
    Roles <- MCRoles
    Increments = {0, 2}
    MountTtl = 3
    MountMax = 5
    NoRole = NoRole
INVARIANTS TypeOK RollbackSparesRequests
PROPERTY RenewalAllowed
