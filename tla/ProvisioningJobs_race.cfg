\* Two creation requests over two keys, two cancels, one deletion of the
\* credential (a real or a demo one), one fault (a restart or an escaping
\* exception). Every thread serves one request, so it stops.
SPECIFICATION RaceSpec
CONSTANTS
    Jobs = {j1, j2}
    Keys = {k1, k2}
    Payloads = {small, malformed}
    ValidPayloads = {small}
    Credentials = {c1, c2}
    DemoCredentials = {c2}
    Creators = {h1, h2}
    Cancellers = {x1, x2}
    Deleters = {d1}
    NoJob = NoJob
    NoKey = NoKey
    NoPayload = NoPayload
    NoCredential = NoCredential
    MaxFaults = 1
SYMMETRY Symmetry
CHECK_DEADLOCK FALSE
INVARIANTS
    IInv
    OneApplyPerKey
    SettledOnce
    SuccessIsReal
    CancelledBeforeStartNeverRuns
    AcceptedCancelHonoured
    InitIsSerial
PROPERTY KeepsPromise
