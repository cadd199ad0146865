SPECIFICATION RewardsSpec
CONSTANTS
    meet = meet
    hunt = hunt
    report = report
    NoTask = NoTask
    wolf = wolf
    boar = boar
    Tasks = {meet, hunt, report}
    First = meet
    Monsters = {wolf, boar}
    NextTask <- MCNextTask
    Target <- MCTarget
    Need <- MCNeed
    Awards <- MCAwards
    AnyTask = FALSE
    MaxFaults = 2
    LastLevel = 4
    next_lv_exp <- MCnext_lv_exp
    KillExp <- MCKillExp
    AwardExp <- MCAwardExp
    MaxEarned = 16
INVARIANTS RewardedOnce DoneWhenKilled ViewTrue ChainAdvancesUnlessFault LevelsShown ExpAccounted
