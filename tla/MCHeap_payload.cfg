CONSTANTS
    AppClass = {A}
    StringClass = StringClass
    ClassClass = ClassClass
    Field = {f, p}
    Unreported = {p}
    KeepsHandles = TRUE
    Lit = {l}
    Reg = {r1, r2}
    AfterLoss = FALSE
    MaxSlots = 2
    MaxFree = 0
    MaxLock = 1
SPECIFICATION Spec
INVARIANTS
    KeptRefersToKept
SYMMETRY RegSymmetry
CHECK_DEADLOCK FALSE
