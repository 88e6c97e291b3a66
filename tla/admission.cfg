SPECIFICATION Spec
CONSTANTS
    Calls = {call1, call2}
    CredentialIds = {k1}
    Secrets = {s1, s2}
    MaxLookups = 1
    MaxTime = 1
SYMMETRY Symmetry
INVARIANTS GateAddsUp AdmittedIsGenuine RefusedForCause
CHECK_DEADLOCK FALSE
