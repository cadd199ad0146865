SPECIFICATION FairSpec
CONSTANTS
    Maps = {fields}
    Spots <- MCSpots
    Near <- MCNear
    MaxDrops = 2
    Uids = {1, 2, 3}
    MaxHp = 2
    MaxBlow = 1
    MAX_ATTACKERS = 1
    AGGRO_RADIUS = 220
    MONSTER_ATTACK_RANGE = 40
    MONSTER_MOVE_STEP = 70
    AOE_RADIUS = 60
    Born <- MCBorn
    Haunts <- MCSpots
    Caps = {1, 2}
    Droppers = {1, 2, 3}
    MaxMoves = 3
INVARIANTS ClientKnows VictimsRight EachDropOnce ShownIsThere
PROPERTIES CombatSpec StrikesLand ChaseArrives
