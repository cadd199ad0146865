SPECIFICATION Spec
CONSTANTS
    potion = potion
    pass = pass
    gift = gift
    relic = relic
    diamond = diamond
    gold = gold
    honour = honour
    Goods = {potion, pass, gift, relic}
    Listed = {potion, pass, gift}
    Money = {diamond, gold}
    Unkept = {honour}
    Price <- MCPrice
    Limit <- MCLimit
    Funds <- MCFunds
    MaxCount = 2
    MaxHeld = 3
    MaxFaults = 2
INVARIANTS FairTrade BooksBalance
