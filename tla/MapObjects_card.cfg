SPECIFICATION Spec
CONSTANTS
    Floors = {3, 5}
    FirstFloor = 5
    StoneFloor = 3
    BossFloor = 5
    TransformFloors = {}
    Size = 5
    Placements <- WithCard
    key = key
    stone = stone
    None = None
    Items = {key, stone}
    Keys = {key}
    Stones = {stone}
    Swords = {}
    OneShot = {11, 12, 13, 51, 52, 53}
    Reusable = {128}
    NoLink = 255
    BossLink = 13
    TransformLink = 51
    SwordLink = 52
    KeeperLink = 53
    EffectCapacity = 2
    Required = 2
    StackCapacity = 1
    OpenLast = 0
    HoldFirst = 1
    CloseFirst = 1
    CloseEnd = 2
    SettleEnd = 1
    SwitchSteps = 2
    Cooldown = 1
    MaxSaves = 1
INVARIANTS FiredLinkIsGone EveryItemIsSomewhere
PROPERTIES WorldMovesForward
CHECK_DEADLOCK FALSE
