\* One creation racing one deletion of its credential.
SPECIFICATION Spec
CONSTANTS
    Jobs = {j1, j2}
    Keys = {k1, k2}
    Payloads = {small}
    ValidPayloads = {small}
    Credentials = {c1}
    DemoCredentials = {}
    Creators = {h1, h2}
    Cancellers = {}
    Deleters = {d1}
    NoJob = NoJob
    NoKey = NoKey
    NoPayload = NoPayload
    NoCredential = NoCredential
    MaxFaults = 0
SYMMETRY Symmetry
CHECK_DEADLOCK FALSE
INVARIANT ActiveJobKeepsCredential
