SPECIFICATION Spec
CONSTANTS
    Capacity = 3
    Floors = {"low", "high"}
    FirstFloor = "low"
    GateFloor = "low"
    TransformFloor = "low"
    BossFloor = "high"
    Definitions = {"source", "result", "boss", "part"}
    Source = "source"
    Result = "result"
    Boss = "boss"
    Parts = {"part"}
    Summoned = {"part"}
    Placements <- TwoFloors
    GateSlot = 0
    Casters = {"part"}
    Pair = 1
    WithDeath = {"source", "boss", "part"}
    WithHit = {"part"}
    Movers = {"result"}
    Health <- OneHealth
    Step <- OneStep
    PhaseMax = 4
    DamageCutoff = 2
    DropPhase = 2
    CastPhase = 1
    PostDeathEnd = 1
    EffectCapacity = 2
    CountModulus = 1
    None = None
INVARIANTS SummonsOneAtATime OneDropPerLife DeadDoNotAct SlainStaySlain
CHECK_DEADLOCK FALSE
