----------------------------- MODULE MapObjects -----------------------------
(***************************************************************************)
(* The authored objects of a floor of GAME.EXE (map_object.c,              *)
(* map_object_pool.c): doors, containers, switches and what they release,  *)
(* sockets for the seal stones, fountains.  A slot of the pool is placed   *)
(* when its floor is loaded, changed by the player between two frames and  *)
(* by the sweep map_object_pool_update in each frame, and travels through  *)
(* the floor's record, a save and a load (map_events.c, map_load.c).       *)
(*                                                                         *)
(* The sweep visits one object per step: cursor is the object to visit, or *)
(* 0 between two sweeps, when everything else of the game happens.  A      *)
(* press of the action button or the use of an item reaches one object.    *)
(***************************************************************************)
EXTENDS Naturals, Sequences, FiniteSets

CONSTANTS
    Floors, FirstFloor, StoneFloor, BossFloor,
    Size,           \* KF_MAP_OBJECT_EFFECT_FIRST: the slots below the drops, 160
    Placements,     \* for each floor the list MIXA.DAT holds
    Items, Keys, Stones, Swords,
    OneShot,        \* link ids below KF_MAP_LINK_REUSABLE_FIRST that are no keys
    Reusable,       \* the link ids from there on
    NoLink,         \* KF_MAP_LINK_NONE
    BossLink, TransformLink, SwordLink, KeeperLink,
    TransformFloors, \* the floors whose doors open with the transformed weapon, 1 to 3
    EffectCapacity, \* KF_EFFECT_CAPACITY
    Required,       \* KF_MAP_FLOOR3_REQUIRED_REVEALS, 4
    StackCapacity,  \* KF_ITEM_STACK_CAPACITY, 99
    OpenLast, HoldFirst, CloseFirst, CloseEnd,   \* the ages of a door
    SettleEnd,      \* KF_MAP_OBJECT_REVEAL_SETTLE_END
    SwitchSteps,    \* frames a switch takes from one end to the other
    Cooldown,       \* frames between two shots of an emitter
    MaxSaves,       \* bound: saves since the session began
    None

Objects == 1 .. Size
Links == Keys \cup OneShot \cup Reusable
Kinds == {"door", "chest", "box", "grave", "fountain", "socket", "pickup",
          "savepoint", "emitter", "hazard", "switch"}
SelfStarting == {"grave", "fountain", "socket", "emitter", "hazard", "switch"}
WithEffect == {"hazard", "switch"}
Released == {"fountain", "emitter", "hazard"}
Unlisted == {"pickup", "savepoint"}

Placement == [kind : Kinds, item : Items \cup {None}, link : Links \cup {NoLink},
              items : Seq(Items \cup {None})]
Placed(f) == 1 .. Len(Placements[f])

ASSUME MapObjectAssumption ==
    /\ IsFiniteSet(Floors)
    /\ {FirstFloor, StoneFloor, BossFloor} \cup TransformFloors \subseteq Floors
    /\ BossFloor # StoneFloor /\ BossFloor \notin TransformFloors
    /\ Size \in Nat \ {0}
    /\ Placements \in [Floors -> Seq(Placement)]
    /\ \A f \in Floors : Len(Placements[f]) <= Size
    /\ Keys \cup Stones \cup Swords \subseteq Items
    /\ Keys \cap (OneShot \cup Reusable) = {} /\ OneShot \cap Reusable = {}
    /\ NoLink \notin Links /\ {BossLink, TransformLink, SwordLink, KeeperLink} \subseteq OneShot
    /\ Required \in Nat \ {0} /\ StackCapacity \in Nat \ {0}
    /\ OpenLast \in Nat /\ HoldFirst \in Nat /\ CloseFirst \in Nat /\ CloseEnd \in Nat
    /\ OpenLast < HoldFirst /\ HoldFirst <= CloseFirst /\ CloseFirst < CloseEnd
    /\ SettleEnd \in Nat \ {0} /\ SwitchSteps \in Nat \ {0}
    /\ Cooldown \in Nat /\ EffectCapacity \in Nat /\ MaxSaves \in Nat
    /\ None \notin Items \cup Kinds \cup Nat

\* What the placement data of the game must satisfy for the code to be right: the effects
\* of a floor fit, and a slot that is beyond the list of some floor never holds an object
\* whose action would run on there (map_object_pool_load resets only the identifier).
ASSUME PlacementAssumption ==
    \A f \in Floors :
        /\ Cardinality({o \in Placed(f) : Placements[f][o].kind \in WithEffect}) <= EffectCapacity
        /\ \A g \in Floors : \A o \in Placed(g) \ Placed(f) :
               Placements[g][o].kind \in {"chest", "box", "pickup", "savepoint"}

\* A floor's record: an identifier for every slot, and a block for what keeps one.
BlockType == [link : Links \cup {NoLink}, items : Seq(Items \cup {None}), effect : 0 .. EffectCapacity]
RecordType == [Objects -> [kind : Kinds \cup {None}, item : Items \cup {None}, block : {None} \cup BlockType]]
ASSUME RecordAssumption == None \notin RecordType \cup BlockType

VARIABLES
    object,     \* map_object_state.objects below the drops
    passable,   \* the doors whose edge of map_collision_grid is KF_MAP_CELL_FLOOR
    regions,    \* the copy regions applied to the grids since they were loaded
    effect,     \* effect_state.records
    standing,   \* the doorways an actor or the player stands in
    cursor,     \* the object map_object_pool_update visits next, 0 outside the sweep
    floor,      \* progress_state.current_floor
    record,     \* world_state.floors[..].records, None where the marker is 0
    script,     \* revealed_piece_count, weapon_transformed and boss_defeat
    stock,      \* item_stock of the player
    saved,      \* the game on the memory card, or None
    saves       \* bound

vars == <<object, passable, regions, effect, standing, cursor, floor, record,
          script, stock, saved, saves>>

EffectSlots == 1 .. EffectCapacity
Free == [owner |-> 0, phase |-> 0]
Passage == 0            \* copy regions of floor 3; those of a grave are named by its slot
Other == Size + 1       \* owner of an effect of an actor, a spell or an emitter

-----------------------------------------------------------------------------
\* Links.

TriggersOnlyIdle(x, link) ==
    IF x.link = link /\ x.action = None THEN [x EXCEPT !.link = NoLink] ELSE x
TriggerRestarts(x, link) ==
    IF x.action \in Released
      THEN IF x.link = link THEN [x EXCEPT !.link = NoLink] ELSE x
    ELSE IF x.kind = "door" /\ x.link = link /\ link \in Reusable
      THEN [x EXCEPT !.action = x.kind, !.timer = 0]
    ELSE x
Trigger(x, link) ==
    IF x.action \in Released
      THEN IF x.link = link THEN [x EXCEPT !.link = NoLink] ELSE x
    ELSE IF x.kind = "door" /\ x.link = link /\ link \in Reusable /\ x.action = None
      THEN [x EXCEPT !.action = x.kind, !.timer = 0]
    ELSE x
TriggerLink(objects, link) == [o \in Objects |-> Trigger(objects[o], link)]

ClearLink(objects, link) ==
    [o \in Objects |-> IF objects[o].kind \in {"door", "chest"} /\ objects[o].link = link
                         THEN [objects[o] EXCEPT !.link = NoLink] ELSE objects[o]]

-----------------------------------------------------------------------------
\* Loading a floor.

\* effect_pool_reset, then one effect_pool_construct per hazard and switch, in order.
EffectIndex(f, o) == Cardinality({q \in 1 .. o : Placements[f][q].kind \in WithEffect})
EffectsOf(f) ==
    [e \in EffectSlots |->
        IF \E o \in Placed(f) : Placements[f][o].kind \in WithEffect /\ EffectIndex(f, o) = e
          THEN [owner |-> CHOOSE o \in Placed(f) :
                   Placements[f][o].kind \in WithEffect /\ EffectIndex(f, o) = e,
                phase |-> 0]
          ELSE Free]

\* map_object_pool_load: slots beyond the list keep everything but the identifier.
PoolLoad(f, old) ==
    [o \in Objects |->
        IF o \in Placed(f)
          THEN LET p == Placements[f][o] IN
               [kind |-> p.kind, item |-> p.item, link |-> p.link, items |-> p.items,
                effect |-> IF p.kind \in WithEffect THEN EffectIndex(f, o) ELSE 0,
                action |-> IF p.kind \in SelfStarting THEN p.kind ELSE None,
                timer  |-> 0]
          ELSE [old[o] EXCEPT !.kind = None, !.item = None]]

StoredWithoutContainers ==
    [o \in Objects |->
        [kind |-> object[o].kind, item |-> object[o].item,
         block |-> IF object[o].kind \in Unlisted \cup {None, "box", "chest"} THEN None
                   ELSE [link |-> object[o].link, items |-> object[o].items,
                         effect |-> object[o].effect]]]
\* map_world_state_persist: every identifier, and the link block of what is neither a
\* pick-up nor a save point.
Stored ==
    [o \in Objects |->
        [kind |-> object[o].kind, item |-> object[o].item,
         block |-> IF object[o].kind = None \/ (object[o].kind \in Unlisted /\ object[o].action = None)
                     THEN None
                   ELSE [link |-> object[o].link, items |-> object[o].items,
                         effect |-> object[o].effect]]]
Persisted == [record EXCEPT ![floor] = Stored]

RestoresOnlyIdentifiers(objects, stored) ==
    IF stored = None THEN objects
    ELSE [o \in Objects |-> [objects[o] EXCEPT !.kind = stored[o].kind, !.item = stored[o].item]]
\* map_restore_floor_state: the record, where there is one.
Unstored(objects, stored) ==
    IF stored = None THEN objects
    ELSE [o \in Objects |->
            LET x == [objects[o] EXCEPT !.kind = stored[o].kind, !.item = stored[o].item]
            IN  IF stored[o].block = None THEN x
                ELSE [x EXCEPT !.link = stored[o].block.link, !.items = stored[o].block.items,
                               !.effect = stored[o].block.effect]]

\* The end of it: what happened on other floors and shows on this one.
Scripted(objects, f, marks, owned) ==
    LET swordOwned == \E s \in Swords : owned[s] > 0
        cleared == IF f \in TransformFloors /\ marks.transformed
                     THEN ClearLink(objects, TransformLink)
                   ELSE IF f = BossFloor /\ (marks.transformed \/ swordOwned)
                     THEN ClearLink(objects, SwordLink)
                   ELSE objects
    IN  IF f = BossFloor /\ marks.boss THEN TriggerLink(cleared, BossLink) ELSE cleared

LoadsWithoutRegions(f, old, records, marks, owned) ==
    /\ floor' = f
    /\ object' = Scripted(Unstored(PoolLoad(f, old), records[f]), f, marks, owned)
    /\ effect' = EffectsOf(f)
    /\ passable' = {} /\ regions' = {} /\ standing' = {}
\* map_load_floor, on fresh grids with every door's edge blocked.
LoadFloor(f, old, records, marks, owned) ==
    /\ floor' = f
    /\ object' = Scripted(Unstored(PoolLoad(f, old), records[f]), f, marks, owned)
    /\ effect' = EffectsOf(f)
    /\ passable' = {}
    /\ regions' = IF f = StoneFloor /\ marks.revealed = Required THEN {Passage} ELSE {}
    /\ standing' = {}

\* Of the items the player starts with none comes from the map.
NewScript == [revealed |-> 0, transformed |-> FALSE, boss |-> FALSE]
Nothing == [i \in Items |-> 0]
Cleared == [o \in Objects |-> [kind |-> None, item |-> None, link |-> NoLink, items |-> <<>>,
                               effect |-> 0, action |-> None, timer |-> 0]]

\* game_main_loop up to its first frame.
Init ==
    /\ floor = FirstFloor
    /\ object = PoolLoad(FirstFloor, Cleared)
    /\ effect = EffectsOf(FirstFloor)
    /\ passable = {} /\ regions = {} /\ standing = {}
    /\ cursor = 0
    /\ record = [f \in Floors |-> None]
    /\ script = NewScript
    /\ stock = Nothing
    /\ saved = None
    /\ saves = 0

-----------------------------------------------------------------------------
\* The action button (map_interaction_dispatch) and items (player_use_item).

Room(i) == StackCapacity - stock[i]
Chosen(items, chosen, i) == Cardinality({k \in chosen : items[k] = i})

\* Everything in a container is offered; the player declines or has no room for some.
TakeFrom(o) ==
    LET items == object[o].items IN
    \E chosen \in SUBSET {k \in DOMAIN items : items[k] # None} :
        /\ \A i \in Items : Chosen(items, chosen, i) <= Room(i)
        /\ stock' = [i \in Items |-> stock[i] + Chosen(items, chosen, i)]
        /\ object' = [object EXCEPT ![o].items =
                        [k \in DOMAIN items |-> IF k \in chosen THEN None ELSE items[k]]]

OpenDoor(o) ==
    /\ object[o].kind = "door" /\ object[o].link = NoLink /\ object[o].action = None
    /\ object' = [object EXCEPT ![o].action = "door", ![o].timer = 0]
    /\ UNCHANGED stock
\* The lid stays shut when the first place is empty, whatever the others hold.
OpenChest(o) ==
    /\ object[o].kind = "chest" /\ object[o].link = NoLink /\ object[o].items[1] # None
    /\ TakeFrom(o)
OpenBox(o) == object[o].kind = "box" /\ TakeFrom(o)
PickUp(o) ==
    /\ object[o].kind = "pickup" /\ Room(object[o].item) > 0
    /\ stock' = [stock EXCEPT ![object[o].item] = @ + 1]
    /\ object' = [object EXCEPT ![o].kind = None, ![o].item = None]
\* Whatever the switch is doing.
PullSwitch(o) ==
    /\ object[o].kind = "switch" /\ object[o].link # NoLink
    /\ object' = [object EXCEPT ![o].timer = 1]
    /\ UNCHANGED stock
Interact(o) ==
    /\ cursor = 0
    /\ OpenDoor(o) \/ OpenChest(o) \/ OpenBox(o) \/ PickUp(o) \/ PullSwitch(o)
    /\ UNCHANGED <<passable, regions, effect, standing, cursor, floor, record, script, saved, saves>>

\* A key opens what carries its number and is kept.
UseKey(k, o) ==
    /\ cursor = 0 /\ stock[k] > 0
    /\ object[o].kind \in {"door", "chest", "grave"} /\ object[o].link = k
    /\ object' = [object EXCEPT ![o].link = NoLink]
    /\ UNCHANGED <<passable, regions, effect, standing, cursor, floor, record, script,
                   stock, saved, saves>>
\* A stone fires the link of its place and all copies of it are gone.  Keys fall through
\* to this as well, and meet the pick-ups of their own kind.
UseOnItsLike(i, o) ==
    /\ cursor = 0 /\ stock[i] > 0 /\ i \in Stones \cup Keys
    /\ object[o].kind # None /\ object[o].item = i /\ object[o].link # NoLink
    /\ stock' = [stock EXCEPT ![i] = 0]
    /\ object' = [TriggerLink(object, object[o].link) EXCEPT ![o].link = NoLink]
    /\ UNCHANGED <<passable, regions, effect, standing, cursor, floor, record, script, saved, saves>>

\* The cutscene of floor 5 turns the sword; the defeat of the boss frees its fountains.
TransformWeapon ==
    /\ cursor = 0 /\ floor = BossFloor /\ ~script.transformed
    /\ script' = [script EXCEPT !.transformed = TRUE]
    /\ UNCHANGED <<object, passable, regions, effect, standing, cursor, floor, record,
                   stock, saved, saves>>
BossDies ==
    /\ cursor = 0 /\ floor = BossFloor
    /\ script' = [script EXCEPT !.boss = TRUE]
    /\ object' = TriggerLink(object, BossLink)
    /\ UNCHANGED <<passable, regions, effect, standing, cursor, floor, record, stock, saved, saves>>

\* The character of floor 3 who unlocks a door when spoken to.
KeeperUnlocks ==
    /\ cursor = 0 /\ floor = StoneFloor
    /\ object' = ClearLink(object, KeeperLink) /\ object' # object
    /\ UNCHANGED <<passable, regions, effect, standing, cursor, floor, record, script,
                   stock, saved, saves>>

\* Somebody walks through a doorway that the grid calls floor.
EnterDoorway(o) ==
    /\ cursor = 0 /\ o \in passable /\ standing' = standing \cup {o} /\ standing' # standing
    /\ UNCHANGED <<object, passable, regions, effect, cursor, floor, record, script, stock, saved, saves>>
LeaveDoorway(o) ==
    /\ cursor = 0 /\ o \in standing /\ standing' = standing \ {o}
    /\ UNCHANGED <<object, passable, regions, effect, cursor, floor, record, script, stock, saved, saves>>

\* An effect that belongs to no object of the map runs out.
OtherEffectEnds(e) ==
    /\ cursor = 0 /\ effect[e].owner = Other /\ effect' = [effect EXCEPT ![e] = Free]
    /\ UNCHANGED <<object, passable, regions, standing, cursor, floor, record, script, stock, saved, saves>>

-----------------------------------------------------------------------------
\* Between floors, sessions and the memory card.

ChangeFloor(f) ==
    /\ cursor = 0 /\ f # floor
    /\ record' = Persisted
    /\ LoadFloor(f, object, record', script, stock)
    /\ UNCHANGED <<cursor, script, stock, saved, saves>>

\* The save that follows may be declined or fail.
UseSavePoint(o) ==
    /\ cursor = 0 /\ object[o].kind = "savepoint"
    /\ record' = Persisted
    /\ \/ UNCHANGED <<saved, saves>>
       \/ /\ saves < MaxSaves /\ saves' = saves + 1
          /\ saved' = [floor |-> floor, record |-> Persisted, script |-> script, stock |-> stock]
    /\ UNCHANGED <<object, passable, regions, effect, standing, cursor, floor, script, stock>>

\* player_update after the menu reports KF_MENU_RESULT_GAME_LOADED.
LoadGame ==
    /\ cursor = 0 /\ saved # None
    /\ record' = saved.record /\ script' = saved.script /\ stock' = saved.stock
    /\ LoadFloor(saved.floor, object, record', script', stock')
    /\ UNCHANGED <<cursor, saved, saves>>

\* player_death_restart without a revival: game_state_initialize clears everything that a
\* save holds, the pool only loses what the first floor replaces.
NewGame(old) ==
    /\ cursor = 0
    /\ record' = [f \in Floors |-> None] /\ script' = NewScript /\ stock' = Nothing
    /\ LoadFloor(FirstFloor, old, record', script', stock')
    /\ UNCHANGED <<cursor, saved, saves>>
NewGameAfterDeath == NewGame(object)
\* The loader starts GAME.EXE anew; the card stays.
NewSession == NewGame(Cleared)

-----------------------------------------------------------------------------
\* map_object_pool_update, one object after the other.

\* What a visit changes; the sweep passes over everything else.
HasWork(x) ==
    \/ x.action = "door"
    \/ x.action = "emitter" /\ x.link # NoLink
    \/ x.action \in {"hazard", "grave"} /\ x.link = NoLink /\ x.timer = 0
    \/ x.action = "switch" /\ x.timer # 2 /\ (x.link = NoLink \/ x.timer # 0)
    \/ x.action = "socket" /\ x.link = NoLink /\ x.timer <= SettleEnd
NextVisit(o, objects) ==
    LET later == {q \in Objects : q > o /\ HasWork(objects[q])}
    IN  IF later = {} THEN 0 ELSE CHOOSE q \in later : \A p \in later : q <= p

BeginUpdate ==
    /\ cursor = 0 /\ cursor' = NextVisit(0, object) /\ cursor' # 0
    /\ UNCHANGED <<object, passable, regions, effect, standing, floor, record, script,
                   stock, saved, saves>>

ShutsOnAnybody(o, x) ==
    LET t == x.timer
    IN  /\ object' = [object EXCEPT ![o] =
              IF t >= CloseEnd THEN [x EXCEPT !.action = None, !.timer = 0]
              ELSE IF t = OpenLast THEN [x EXCEPT !.timer = HoldFirst]
              ELSE [x EXCEPT !.timer = t + 1]]
        /\ passable' = IF t = OpenLast THEN passable \cup {o}
                       ELSE IF t = CloseFirst THEN passable \ {o} ELSE passable
        /\ UNCHANGED <<regions, effect, script>>
\* A door opens, holds, and shuts unless someone stands in it; then it may open again.
DoorStep(o, x) ==
    LET t == x.timer
        shutting == t = CloseFirst /\ o \notin standing
    IN  /\ object' = [object EXCEPT ![o] =
              IF t = CloseFirst /\ o \in standing THEN x
              ELSE IF t >= CloseEnd THEN [x EXCEPT !.action = None, !.timer = 0]
              ELSE IF t = OpenLast THEN [x EXCEPT !.timer = HoldFirst]
              ELSE [x EXCEPT !.timer = t + 1]]
        /\ passable' = IF t = OpenLast THEN passable \cup {o}
                       ELSE IF shutting THEN passable \ {o} ELSE passable
        /\ UNCHANGED <<regions, effect, script>>
\* effect_pool_construct: the first free record, or none.
FreeEffects == {e \in EffectSlots : effect[e] = Free}
EmitterTakesTheFirst(o, x) ==
    /\ \/ /\ x.timer = 0
          /\ effect' = LET e == IF FreeEffects = {} THEN 1
                               ELSE CHOOSE e \in FreeEffects : \A d \in FreeEffects : e <= d
                       IN  [effect EXCEPT ![e] = [owner |-> Other, phase |-> 0]]
          /\ object' = [object EXCEPT ![o].timer = Cooldown]
       \/ x.timer > 0 /\ object' = [object EXCEPT ![o].timer = @ - 1] /\ UNCHANGED effect
    /\ UNCHANGED <<passable, regions, script>>
EmitterStep(o, x) ==
    /\ \/ /\ x.timer = 0      \* in range of the player
          /\ effect' = IF FreeEffects = {} THEN effect
                       ELSE LET first == CHOOSE e \in FreeEffects : \A d \in FreeEffects : e <= d
                            IN  [effect EXCEPT ![first] = [owner |-> Other, phase |-> 0]]
          /\ object' = [object EXCEPT ![o].timer = Cooldown]
       \/ x.timer = 0 /\ UNCHANGED <<object, effect>>
       \/ x.timer > 0 /\ object' = [object EXCEPT ![o].timer = @ - 1] /\ UNCHANGED effect
    /\ UNCHANGED <<passable, regions, script>>

HazardStep(o, x) ==
    /\ effect' = [effect EXCEPT ![x.effect].phase = SwitchSteps]
    /\ object' = [object EXCEPT ![o].timer = 1]
    /\ UNCHANGED <<passable, regions, script>>

\* 1: being pulled, 2: done for good, 3: swinging back.
SwitchStep(o, x) ==
    LET phase == effect[x.effect].phase
        Turn(p, t) == /\ effect' = [effect EXCEPT ![x.effect].phase = p]
                      /\ object' = [object EXCEPT ![o].timer = t]
    IN  /\ \/ x.link = NoLink /\ Turn(SwitchSteps, 2)
           \/ x.timer = 1 /\ x.link # NoLink /\ phase + 1 < SwitchSteps /\ Turn(phase + 1, 1)
           \/ /\ x.timer = 1 /\ x.link # NoLink /\ phase + 1 >= SwitchSteps
              /\ effect' = [effect EXCEPT ![x.effect].phase = SwitchSteps]
              /\ object' = [TriggerLink(object, x.link) EXCEPT ![o] =
                              IF x.link \in Reusable THEN [x EXCEPT !.timer = 3]
                                                    ELSE [x EXCEPT !.link = NoLink]]
           \/ x.timer = 3 /\ x.link # NoLink /\ phase > 1 /\ Turn(phase - 1, 3)
           \/ x.timer = 3 /\ x.link # NoLink /\ phase <= 1 /\ Turn(0, 0)
        /\ UNCHANGED <<passable, regions, script>>

GraveStep(o, x) ==
    /\ regions' = regions \cup {o} /\ object' = [object EXCEPT ![o].timer = 1]
    /\ UNCHANGED <<passable, effect, script>>

\* A stone rises and settles; on the floor of the seals it is then counted, up to the
\* number that opens the passage.
RevealStep(o, x) ==
    LET counted == x.timer = SettleEnd /\ floor = StoneFloor /\ script.revealed # Required
        opens == counted /\ script.revealed + 1 >= Required
    IN  /\ object' = [object EXCEPT ![o].timer = x.timer + 1]
        /\ script' = IF counted THEN [script EXCEPT !.revealed = @ + 1] ELSE script
        /\ regions' = IF opens THEN regions \cup {Passage} ELSE regions
        /\ UNCHANGED <<passable, effect>>

Update(o) ==
    /\ cursor = o /\ HasWork(object[o])
    /\ LET x == object[o] IN
       \/ x.action = "door" /\ DoorStep(o, x)
       \/ x.action = "emitter" /\ EmitterStep(o, x)
       \/ x.action = "hazard" /\ HazardStep(o, x)
       \/ x.action = "switch" /\ SwitchStep(o, x)
       \/ x.action = "grave" /\ GraveStep(o, x)
       \/ x.action = "socket" /\ RevealStep(o, x)
    /\ cursor' = NextVisit(o, object')
    /\ UNCHANGED <<standing, floor, record, stock, saved, saves>>

Next ==
    \/ \E o \in Objects : Interact(o)
    \/ \E o \in Objects, k \in Keys : UseKey(k, o)
    \/ \E o \in Objects, i \in Stones \cup Keys : UseOnItsLike(i, o)
    \/ TransformWeapon \/ BossDies \/ KeeperUnlocks
    \/ \E o \in Objects : EnterDoorway(o) \/ LeaveDoorway(o) \/ UseSavePoint(o)
    \/ \E e \in EffectSlots : OtherEffectEnds(e)
    \/ \E f \in Floors : ChangeFloor(f)
    \/ LoadGame \/ NewGameAfterDeath \/ NewSession
    \/ BeginUpdate
    \/ \E o \in Objects : Update(o)

Spec == Init /\ [][Next]_vars

-----------------------------------------------------------------------------
\* Properties.

\* What every variable holds.
ObjectType ==
    [kind : Kinds \cup {None}, item : Items \cup {None}, link : Links \cup {NoLink},
     items : Seq(Items \cup {None}), effect : 0 .. EffectCapacity,
     action : Kinds \cup {None}, timer : Nat]
ScriptType == [revealed : 0 .. Required, transformed : BOOLEAN, boss : BOOLEAN]
StockType == [Items -> 0 .. StackCapacity]
RecordsType == [Floors -> {None} \cup RecordType]
TypeOK ==
    /\ object \in [Objects -> ObjectType]
    /\ passable \subseteq Objects /\ standing \subseteq Objects
    /\ regions \subseteq Objects \cup {Passage}
    /\ effect \in [EffectSlots -> [owner : 0 .. Other, phase : 0 .. SwitchSteps]]
    /\ cursor \in 0 .. Size /\ floor \in Floors
    /\ record \in RecordsType /\ script \in ScriptType /\ stock \in StockType
    /\ saved \in {None} \cup [floor : Floors, record : RecordsType, script : ScriptType, stock : StockType]
    /\ saves \in 0 .. MaxSaves

\* The grid lets a walker through a door exactly while the door holds itself open
\* (map_object_mark_collision_edge from the sweep), whatever keys, switches and links
\* start it again and whatever floor it was loaded for.
DoorEdgesAgree ==
    \A o \in Objects :
        o \in passable <=> /\ object[o].kind = "door" /\ object[o].action = "door"
                           /\ object[o].timer \in HoldFirst .. CloseFirst
\* A door never shuts on whoever stands in it.
NobodyShutIn == standing \subseteq passable

\* The listed effect of a hazard or switch is its own: neither the floor's record nor an
\* effect made since writes another one there, so that a release reaches the right one.
LinkedEffectIsOwn ==
    \A o \in Objects : object[o].kind \in WithEffect =>
        object[o].effect # 0 /\ effect[object[o].effect].owner = o

\* Once the passage of the seals counts as open it is open, on every visit.
PassageStaysOpen ==
    floor = StoneFloor /\ script.revealed = Required => Passage \in regions

\* What a floor holds: the pool, or its record, or the placements.
ViewOf(x) == [kind |-> x.kind, item |-> x.item, link |-> x.link, items |-> x.items]
Recorded(f, stored) ==
    LET placed == PoolLoad(f, Cleared)
        restored == Unstored(placed, stored)
    IN  [o \in Objects |-> ViewOf(restored[o])]
View(f) == IF f = floor THEN [o \in Objects |-> ViewOf(object[o])] ELSE Recorded(f, record[f])

\* From one view of an object to a later one: it stays or is taken, its lock stays or
\* opens, its places stay or are emptied.  The link of a pick-up is not recorded.
Forward(old, new) ==
    \/ new.kind = None /\ old.kind \in {"pickup", None}
    \/ /\ new.kind = old.kind /\ new.item = old.item
       /\ old.kind \in Unlisted \/ new.link \in {old.link, NoLink}
       /\ DOMAIN new.items = DOMAIN old.items
       /\ \A k \in DOMAIN new.items : new.items[k] \in {old.items[k], None}
Restarts == NewGameAfterDeath \/ NewSession
AllForward(old, new) == \A o \in Objects : Forward(old[o], new[o])

\* Nothing that was opened, released or taken is ever locked, held back or lying there
\* again, on this floor or another, however often the floors are left, saved and loaded;
\* a loaded game is the saved one.
WorldMovesForward ==
    [][\/ \A f \in Floors : AllForward(View(f), View(f)')
       \/ LoadGame /\ \A f \in Floors : AllForward(Recorded(f, saved.record[f]), View(f)')
       \/ Restarts]_<<object, record, floor>>

\* A one-shot switch or socket that has fired has released everything that hangs on its
\* link: nothing of the floor waits for a link no one can fire any more.
FiredLinkIsGone ==
    \A f \in Floors :
        LET view == View(f) IN
        \A a, b \in Placed(f) :
            LET link == Placements[f][a].link
            IN  /\ Placements[f][a].kind \in {"switch", "socket"} /\ link \in OneShot
                /\ view[a].link = NoLink /\ view[b].kind \in Released
                => view[b].link # link

\* The places an item lies in on the floors: its own, 0, or one in a chest or box.
PlacesOf(i, x) ==
    {k \in {0} \cup DOMAIN x.items :
        IF k = 0 THEN x.kind = "pickup" /\ x.item = i
                 ELSE x.kind \in {"chest", "box"} /\ x.items[k] = i}
Lying(i, views) == UNION {{at} \X PlacesOf(i, views[at[1]][at[2]]) : at \in Floors \X Objects}
Views == [f \in Floors |-> View(f)]
RecordedViews(records) == [f \in Floors |-> Recorded(f, records[f])]
PlacedViews == RecordedViews([f \in Floors |-> None])

\* A stone or key has fired the link of an object of its kind; of what the records keep no
\* link of, nothing tells.
Spent(i, views) ==
    /\ i \in Stones \cup Keys
    /\ \E f \in Floors : \E o \in Placed(f) :
         LET p == Placements[f][o]
         IN  /\ p.item = i /\ p.link # NoLink
             /\ p.kind \in Unlisted \/ views[f][o].link = NoLink
Balanced(owned, views) ==
    \A i \in Items :
        LET placed == Cardinality(Lying(i, PlacedViews))
            copies == owned[i] + Cardinality(Lying(i, views))
        IN  copies <= placed /\ (copies < placed => Spent(i, views))

\* Every item of the placements is where it lay or with the player, once, through floors,
\* saves and loads; only a seal stone or key may be gone, and then a link that took it is.
EveryItemIsSomewhere == Balanced(stock, Views)

-----------------------------------------------------------------------------
\* Why they hold: what every step keeps of an object list of floor f.

KindOf(f, o) == IF o \in Placed(f) THEN Placements[f][o].kind ELSE None
ActionsOf(kind) == IF kind \in SelfStarting THEN {kind}
                   ELSE IF kind = "door" THEN {None, "door"} ELSE {None}
\* What can have become of one placement.
FromPlacement(f, o, x) ==
    /\ x.kind = KindOf(f, o) \/ (x.kind = None /\ KindOf(f, o) = "pickup")
    /\ x.action \in ActionsOf(KindOf(f, o))
    /\ o \in Placed(f) =>
         LET p == Placements[f][o]
         IN  /\ p.kind \in WithEffect => x.effect = EffectIndex(f, o)
             /\ x.link \in {p.link, NoLink}
             /\ p.kind \in Unlisted => x.items = p.items
             /\ x.kind # None => x.item = p.item
\* Whatever waited for a one-shot link that was fired has it no longer.
FiredAreGone(f, objects) ==
    \A a, b \in Placed(f) :
        LET link == Placements[f][a].link
        IN  /\ Placements[f][a].kind \in {"switch", "socket"} /\ link \in OneShot
            /\ objects[a].link = NoLink /\ objects[b].kind \in Released
            => objects[b].link # link
OfFloor(f, objects) == /\ \A o \in Objects : FromPlacement(f, o, objects[o])
                       /\ FiredAreGone(f, objects)
Restored(f, stored) == Unstored(PoolLoad(f, Cleared), stored)
AllOfFloors(records) == \A f \in Floors : OfFloor(f, Restored(f, records[f]))

\* The object list, the records and the saved game are made of the placements.
WorldIsPlaced ==
    /\ OfFloor(floor, object)
    /\ AllOfFloors(record)
    /\ saved # None => AllOfFloors(saved.record)
DoorTimers ==
    \A o \in Objects : object[o].action = "door" =>
        object[o].timer \in 0 .. OpenLast \cup HoldFirst .. CloseEnd
EffectsOwned ==
    \A o \in Placed(floor) : Placements[floor][o].kind \in WithEffect =>
        effect[EffectIndex(floor, o)].owner = o
ObjectInv == /\ TypeOK /\ WorldIsPlaced
             /\ DoorTimers /\ DoorEdgesAgree /\ NobodyShutIn
             /\ EffectsOwned /\ PassageStaysOpen
\* The saved game is as balanced as the running one.
ItemsInv == /\ ObjectInv /\ EveryItemIsSomewhere
            /\ saved # None => Balanced(saved.stock, RecordedViews(saved.record))

\* The passage opens for stones that were placed, Required of them.
PassageNeedsStones ==
    floor = StoneFloor /\ Passage \in regions =>
        Cardinality({o \in Placed(floor) : object[o].kind = "socket" /\ object[o].link = NoLink})
            >= Required
=============================================================================
