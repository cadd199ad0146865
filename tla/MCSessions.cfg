SPECIFICATION Spec
CONSTANTS
    Conns = {k1, k2}
    Chars = {c1}
    Stray = stray
    None = None
    Places = {home, away}
    Home = home
    sword = sword
    potion = potion
    Items = {sword, potion}
    Gear = {sword}
    Souls = {}
    StackMax <- MCStackMax
    Takeover = FALSE
    Reselect = FALSE
    MaxPurse = 2
    MaxItems = 2
    MaxCount = 2
SYMMETRY Symmetry
INVARIANTS WornIsOwned NothingUndone LogoutPlaceKept UidsUnique
PROPERTIES OnlyItsOwnSession
