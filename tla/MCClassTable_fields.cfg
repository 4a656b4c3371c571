CONSTANTS
    A = A
    B = B
    I = I
    J = J
    m = m
    n = n
    x = x
    y = y
    Object = Object
    None = None
    Desc <- MCDesc
    Key = {m, n}
    Field = {x, y}
    Worlds <- HidingWorlds
    Offered <- MCOffered
    MaxHost = 1
SPECIFICATION Spec
INVARIANTS
    InheritsSuperOffsets
