SPECIFICATION Spec
CONSTANTS
    Floors = {3, 5}
    FirstFloor = 5
    StoneFloor = 3
    BossFloor = 5
    TransformFloors = {}
    Size = 7
    Placements <- EveryKind
    key = key
    stone = stone
    None = None
    Items = {key, stone}
    Keys = {key}
    Stones = {stone}
    Swords = {}
    OneShot = {11, 12, 13, 51, 52, 53}
    Reusable = {128}
    NoLink = 255
    BossLink = 13
    TransformLink = 51
    SwordLink = 52
    KeeperLink = 53
    EffectCapacity = 3
    Required = 2
    StackCapacity = 1
    OpenLast = 0
    HoldFirst = 1
    CloseFirst = 1
    CloseEnd = 2
    SettleEnd = 1
    SwitchSteps = 2
    Cooldown = 1
    MaxSaves = 0
INVARIANTS DoorEdgesAgree NobodyShutIn LinkedEffectIsOwn PassageStaysOpen
CHECK_DEADLOCK FALSE
