CONSTANTS
    e1 = e1
    e2 = e2
    main = main
    helper = helper
    init = init
    nat = nat
    declared = declared
    abstract = abstract
    K = K
    None = None
    Exc <- MCExc
    Guest <- MCGuest
    NativeBacked <- MCNativeBacked
    Declared <- MCDeclared
    Abstract <- MCAbstract
    Class <- MCClass
    ClinitOf <- MCClinitOf
    Programs <- SkipPrograms
    DepthLimit = 2
    Budget = 8
    MaxCalls = 1
    MaxStack = 4
SPECIFICATION Spec
PROPERTIES
    NearestHandler
