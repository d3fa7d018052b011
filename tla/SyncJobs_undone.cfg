\* One request and one cancel.
SPECIFICATION SyncSpec
CONSTANTS
    Jobs = {j1}
    Accounts = {a1}
    Creators = {h1}
    Cancellers = {x1}
    NoJob = NoJob
    NoAccount = NoAccount
    MaxSyncFaults = 0
SYMMETRY Symmetry
CHECK_DEADLOCK FALSE
PROPERTY StatusFollowsDiagram
