SPECIFICATION Spec
CONSTANTS
    Users = {u1}
    Categories = {c1}
    Requests = {r1, r2}
    MaxShortcuts = 3
INVARIANTS
    ClashNeedsRace
    NothingDangles
PROPERTIES
    ImplementsMenu
SYMMETRY RequestSymmetry
