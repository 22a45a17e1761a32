SPECIFICATION Spec
CONSTANTS
    a = a
    b = b
    c = c
    r1 = r1
    r2 = r2
    r3 = r3
    r4 = r4
    r5 = r5
    Machine = {a, b, c}
    Request = {r1, r2, r3, r4, r5}
    Owner <- MCOwner
    MaxPending = 2
    MaxWaiters = 2
    MaxPrompts = 3
INVARIANTS
    DurableApprovals
    NoPromptForAllowed
    CapsHold
PROPERTIES
    KeepsPromise
    HeldIsAnswered
