SPECIFICATION FairSpec
CONSTANTS
    fields = fields
    cave = cave
    u1 = u1
    u2 = u2
    wolf = wolf
    boar = boar
    Maps = {fields, cave}
    Uids = {u1, u2}
    Templates = {wolf, boar}
    NoTmpl = NoTmpl
    PopsOf <- MCPopsOf
    MaxHp = 2
    SpawnDelay = 2
    AnimDelay = 1
    RebornTimes <- MCRebornTimes
    Ids = {i1, i2}
    Return = FALSE
    Reenter = FALSE
CHECK_DEADLOCK FALSE
INVARIANTS NoStacking RespawnsRight ClientSeesAll
PROPERTIES RespawnHappens TasksEnd
