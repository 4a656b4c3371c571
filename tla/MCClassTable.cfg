CONSTANTS
    A = A
    B = B
    I = I
    J = J
    m = m
    n = n
    x = x
    y = y
    Object = Object
    None = None
    Desc <- MCDesc
    Key = {m, n}
    Field = {x, y}
    Worlds <- PlainWorlds
    Offered <- MCOffered
    MaxHost = 2
SPECIFICATION Spec
INVARIANTS
    TypeOK
    SupersFirst
    LoadedOnce
    AssignableAsDeclared
    MethodsOfSupertypes
    LayoutSound
    HostApiCallable
PROPERTIES
    LoadFailsForCause
