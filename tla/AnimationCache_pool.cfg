SPECIFICATION FairSpec
CONSTANTS
    Records = {1, 2}
    Owners = {weapon, actor, effect}
    Weapon = weapon
    Assets = {weaponAsset, commonAsset, floorAsset}
    WeaponAsset = weaponAsset
    FloorAssets = {floorAsset}
    Models = {m1, m2, stone}
    StaticModels = {stone}
    Clips = {walk}
    Keyframes = {0, 1}
    Incoming = {0, 2}
    IndexModulus = 3
    Blocks = {b1, b2}
    None = None
INVARIANTS CacheInv ShownPoseIsOfAskedIndex
PROPERTIES BindEnds SweepTakesOnlyUndrawn
