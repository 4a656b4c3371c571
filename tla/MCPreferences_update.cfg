CONSTANTS
    File = {f}
    Key = {k1, k2}
    Value = {v}
    Editor = {e}
    None = None
    Unreadable = Unreadable
    Unknown = Unknown
    MaxEdits = 1
    Encoded = {p}
    Absent = Absent
    Torn = Torn
SPECIFICATION AllSpec
PROPERTIES
    UpdatesOneSetting
SYMMETRY Symmetry
