CONSTANTS
    Byte = 4
    BaseAttrs <- MCBaseAttrs
    POWER_WEIGHTS <- MCWeights
    Score <- MCScore
    ATTIRE_TYPES <- MCTypes
    ShowAttr <- MCShowAttr
    QualityAttr <- MCQualityAttr
    ATTIRE_BOARDS <- MCAttireBoards
    Spelling <- MCSpelling
    RANK_PAGE_SIZE = 2
    Me = 2
    Mine = 2
    Accounts = {1, 2}
    Names <- MCNames
    Stores <- MCStores
    Items = {2, 3}
    Equipment = {2}
    Souls = {3}
    Goods = {0, 2, 3, 15}
    Counts = {1, 16}
    Factories <- MCFactories
    PLAYERS_INFO <- MCPlayersInfo
    Tokens <- MCTokens
    Pads = {90, 43, 38}
    PosBag = 1
    PosEquip = 2
    PosWarsoul = 3
    AddType = 8
    CountType = 2
    PartCount = 2
    Bless = 9
    MaxBody = 95
    Busy = {1, 8}
    MaxChanges = 2
SPECIFICATION Spec
INVARIANTS ReplyRead BlobRead RankTrue NoneMissed
