CONSTANTS
    File = {f}
    Key = {k1, k2}
    Value = {v, w}
    Editor = {e}
    None = None
    Unreadable = Unreadable
    Unknown = Unknown
    MaxEdits = 2
    Encoded = {p, q, r}
    Absent = Absent
    Torn = Torn
SPECIFICATION AllSpec
INVARIANTS
    TypeOK
    AckedSettingsSurvive
    NeverTorn
PROPERTIES
    LastEditWins
    PutsAreMirrored
    Atomic
SYMMETRY Symmetry
