CONSTANTS
    AppClass = {A}
    StringClass = StringClass
    ClassClass = ClassClass
    Field = {f}
    Unreported = {}
    KeepsHandles = FALSE
    Lit = {l}
    Reg = {r1, r2}
    AfterLoss = TRUE
    MaxSlots = 2
    MaxFree = 1
    MaxLock = 1
SPECIFICATION Spec
INVARIANTS
    HandlesNeverDangle
SYMMETRY RegSymmetry
CHECK_DEADLOCK FALSE
