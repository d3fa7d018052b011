\* One cancel racing the start of the task.
SPECIFICATION Spec
CONSTANTS
    Jobs = {j1, j2}
    Keys = {k1, k2}
    Payloads = {small}
    ValidPayloads = {small}
    Credentials = {c1}
    DemoCredentials = {}
    Creators = {h1, h2}
    Cancellers = {x1}
    Deleters = {}
    NoJob = NoJob
    NoKey = NoKey
    NoPayload = NoPayload
    NoCredential = NoCredential
    MaxFaults = 0
SYMMETRY Symmetry
CHECK_DEADLOCK FALSE
PROPERTY TerminalIsFinal
