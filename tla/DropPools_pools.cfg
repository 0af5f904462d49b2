SPECIFICATION Spec
CONSTANTS
    Pools = {"gold", "placement"}
    Capacity = 2
    Modulus = 3
    Byte = 2
    Floors = {1, 5}
    FirstFloor = 1
    SwordFloor = 5
    Cells = {7}
    SwordCell = 7
    Items = {sword}
    GoldCoin = coin
    Sword = sword
    Amounts = {2}
    MaxDrops = 3
    MaxSaved = 1
    None = None

INVARIANTS DropInv
PROPERTIES OldestOfVisitGivesWay
