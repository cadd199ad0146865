SPECIFICATION Spec
CONSTANTS
    Conns = {k1, k2}
    Chars = {c1}
    Stray = stray
    None = None
    Places = {home, away}
    Home = home
    sword = sword
    potion = potion
    Items = {sword, potion}
    Gear = {sword}
    Souls = {}
    StackMax <- MCStackMax
    Takeover = TRUE
    Reselect = FALSE
    MaxPurse = 0
    MaxItems = 2
    MaxCount = 1
SYMMETRY Symmetry
INVARIANTS UidsUnique
