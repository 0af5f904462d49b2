--------------------------- MODULE AnimationCache ---------------------------
(***************************************************************************)
(* The animated-instance cache of GAME.EXE (animation_cache.c): a pool of  *)
(* records that keep the morphed vertices of an actor, effect, map event,  *)
(* HUD model or weapon from one frame to the next.  Every drawn object     *)
(* owns a pointer to its record, and every record a pointer back to that   *)
(* pointer, so that releasing a record can clear it.  The module composes  *)
(* the cache with what uses it: render_frame, which marks, binds and       *)
(* sweeps, and the steps of the game between frames that load assets,      *)
(* change the weapon or reset the heap.                                    *)
(***************************************************************************)
EXTENDS Naturals, FiniteSets

CONSTANTS
    Records,        \* pool indices, 1 .. KF_ANIMATION_CACHE_CAPACITY
    Owners,         \* the pointers render_bind_animated_instance is given
    Weapon,         \* player_state.weapon_animation_cache
    Assets,         \* registry indices
    WeaponAsset,    \* KF_ASSET_WEAPON
    FloorAssets,    \* the indices a floor or variant load sets anew
    Models,         \* what a registry index may hold
    StaticModels,   \* those without animation clips
    Clips,
    Keyframes,      \* positions a phase can select in a clip
    Incoming,       \* what register s5 may hold when the binder is entered
    IndexModulus,   \* of the counter that starts from it: 65536
    Blocks,         \* places of the system heap for one vertex array
    None

ASSUME CacheAssumption ==
    /\ Records \subseteq Nat /\ IsFiniteSet(Records) /\ Records # {}
    /\ Weapon \in Owners /\ WeaponAsset \in Assets
    /\ FloorAssets \subseteq Assets \ {WeaponAsset}
    /\ StaticModels \subseteq Models
    /\ IndexModulus \in Nat
    /\ Keyframes \subseteq 0 .. IndexModulus - 1 /\ Incoming \subseteq 0 .. IndexModulus - 1
    /\ Blocks # {}
    /\ None \notin Records \cup Owners \cup Assets \cup Models \cup Clips \cup Nat \cup Blocks

VARIABLES
    record,     \* game_graphics_runtime.animation_cache_records
    slot,       \* the pointers to records, by owner
    heap,       \* the allocated blocks of the system heap
    loaded,     \* the model each registry index holds
    armed,      \* equipped_weapon_id # KF_OBJECT_NONE
    swinging,   \* weapon_attack_phase # KF_WEAPON_ATTACK_INACTIVE
    pc,         \* where the game is in a frame
    drawn,      \* the owners bound in this frame
    call,       \* the bind waiting for its vertex array
    shown       \* of a bind that just ended: the pose asked for and the pose in the
                \* cache, with s5 as it is and as it was when that pose was morphed

vars == <<record, slot, heap, loaded, armed, swinging, pc, drawn, call, shown>>

\* keyframe_index, uninitialized: the position the phase selects, counted from s5.
Index(s5, k) == IF s5 + k < IndexModulus THEN s5 + k ELSE s5 + k - IndexModulus
Indices == 0 .. IndexModulus - 1
Poses   == [model : Models, clip : Clips, keyframe : Keyframes]
Record  == [state : {"free", "stale", "live"}, asset : Assets \cup {None},
            clip : Clips \cup {None}, keyframe : Indices \cup {None},
            owner : Owners \cup {None}, block : Blocks \cup {None},
            sized : Models \cup {None}, image : Poses \cup {None},
            morphed : Incoming \cup {None}]   \* s5 when the image was made
Views   == [asked : Poses, got : Poses \cup {None}, s5 : Incoming, morphed : Incoming \cup {None}]
Calls   == [owner : Owners, record : Records, pose : Poses, s5 : Incoming]

ASSUME NoneAssumption == None \notin Poses \cup Calls \cup Views

BlankRecord == [state |-> "free", asset |-> None, clip |-> None, keyframe |-> None,
                owner |-> None, block |-> None, sized |-> None, image |-> None,
                morphed |-> None]

\* game_main_loop before the first floor: animation_cache_reset on zeroed memory.
Init ==
    /\ record = [r \in Records |-> BlankRecord]
    /\ slot = [o \in Owners |-> None]
    /\ heap = {}
    /\ loaded \in [Assets -> Models]
    /\ armed = TRUE
    /\ swinging = FALSE
    /\ pc = "update"
    /\ drawn = {}
    /\ call = None
    /\ shown = None

-----------------------------------------------------------------------------
\* Operations on the pool.

Occupied == {r \in Records : record[r].state # "free"}

\* animation_cache_release for every record of a set: the arrays go, with what they held.
Released(r) == [r EXCEPT !.state = "free", !.block = None, !.sized = None, !.image = None,
                         !.morphed = None]
Freed(rs) == [r \in Records |-> IF r \in rs THEN Released(record[r]) ELSE record[r]]
ReleaseKeepsPointer(slots, rs) == slots
SlotsWithout(slots, rs) == [o \in Owners |->
    IF \E r \in rs : record[r].owner = o THEN None ELSE slots[o]]
ReleaseKeepsBlock(rs) == heap
HeapWithout(rs) == heap \ {record[r].block : r \in rs}

ReleaseAll == /\ record' = Freed(Occupied)
              /\ slot' = SlotsWithout(slot, Occupied)
              /\ heap' = HeapWithout(Occupied)

\* animation_cache_allocate: the first free record, whose cached clip is forgotten.
FreeRecords == Records \ Occupied
FirstFree == CHOOSE r \in FreeRecords : \A q \in FreeRecords : r <= q
AllocateKeepsClip(r) == r
Forgotten(r) == [r EXCEPT !.clip = None]

\* Lines 103-105 of the binder: the record is claimed but not yet occupied.
Claim(r, o, a) == [r EXCEPT !.asset = a, !.owner = o]

\* Lines 149-175: the morph is computed anew unless clip and keyframe are the cached ones.
ComparesOnlyClip(r, pose, index) == r.clip = pose.clip
IsCached(r, pose, index) == r.clip = pose.clip /\ r.keyframe = index
Morphed(r, pose, s5) ==
    LET index == Index(s5, pose.keyframe)
        kept == IsCached(r, pose, index)
    IN  [r EXCEPT !.state = "live", !.clip = pose.clip, !.keyframe = index,
                  !.image = IF kept THEN @ ELSE pose,
                  !.morphed = IF kept THEN @ ELSE s5]

\* The rest of the binder once the record has its array; base is the pool as claimed so far.
Present(base, r, pose, s5) ==
    LET bound == Morphed(base[r], pose, s5)
    IN  /\ record' = [base EXCEPT ![r] = bound]
        /\ shown' = [asked |-> pose, got |-> bound.image, s5 |-> s5, morphed |-> bound.morphed]
        /\ pc' = "draw"
        /\ call' = None

WaitForArray(base, o, r, pose, s5) ==
    /\ record' = base
    /\ pc' = "malloc"
    /\ call' = [owner |-> o, record |-> r, pose |-> pose, s5 |-> s5]
    /\ shown' = None

-----------------------------------------------------------------------------
\* render_frame.

\* animation_cache_mark_stale at the head of a frame.
BeginFrame ==
    /\ pc \in {"update", "cutscene"}
    /\ record' = [r \in Records |->
           IF r \in Occupied THEN [record[r] EXCEPT !.state = "stale"] ELSE record[r]]
    /\ pc' = "draw"
    /\ drawn' = {}
    /\ UNCHANGED <<slot, heap, loaded, armed, swinging, call, shown>>

\* HUD models and entities come first; render_weapon draws a weapon only in a swing.
MayBind(o, a) ==
    /\ pc = "draw"
    /\ o \notin drawn
    /\ Weapon \notin drawn
    /\ (o = Weapon) <=> (a = WeaponAsset)
    /\ o = Weapon => swinging

Asked(a, c, k) == [model |-> loaded[a], clip |-> c, keyframe |-> k]

\* render_bind_animated_instance with an asset that has no clips.
BindStatic(o, a) ==
    /\ MayBind(o, a)
    /\ loaded[a] \in StaticModels
    /\ drawn' = drawn \cup {o}
    /\ LET held == {slot[o]} \ {None}
       IN  /\ record' = Freed(held)
           /\ slot' = SlotsWithout(slot, held)
           /\ heap' = HeapWithout(held)
    /\ shown' = None
    /\ UNCHANGED <<loaded, armed, swinging, pc, call>>

\* An owner without a record when the pool is full: drawn without animation.
BindExhausted(o, a) ==
    /\ MayBind(o, a)
    /\ loaded[a] \notin StaticModels
    /\ slot[o] = None
    /\ FreeRecords = {}
    /\ drawn' = drawn \cup {o}
    /\ shown' = None
    /\ UNCHANGED <<record, slot, heap, loaded, armed, swinging, pc, call>>

BindNew(o, a, c, k, s5) ==
    /\ MayBind(o, a)
    /\ loaded[a] \notin StaticModels
    /\ slot[o] = None
    /\ FreeRecords # {}
    /\ drawn' = drawn \cup {o}
    /\ WaitForArray([record EXCEPT ![FirstFree] = Claim(Forgotten(@), o, a)],
                    o, FirstFree, Asked(a, c, k), s5)
    /\ UNCHANGED <<slot, heap, loaded, armed, swinging>>

BindOtherAsset(o, a, c, k, s5) ==
    /\ MayBind(o, a)
    /\ loaded[a] \notin StaticModels
    /\ slot[o] # None
    /\ record[slot[o]].asset # a
    /\ drawn' = drawn \cup {o}
    /\ WaitForArray([Freed({slot[o]}) EXCEPT ![slot[o]] = Claim(Forgotten(@), o, a)],
                    o, slot[o], Asked(a, c, k), s5)
    /\ slot' = SlotsWithout(slot, {slot[o]})
    /\ heap' = HeapWithout({slot[o]})
    /\ UNCHANGED <<loaded, armed, swinging>>

BindSameAsset(o, a, c, k, s5) ==
    /\ MayBind(o, a)
    /\ loaded[a] \notin StaticModels
    /\ slot[o] # None
    /\ record[slot[o]].asset = a
    /\ drawn' = drawn \cup {o}
    /\ Present(record, slot[o], Asked(a, c, k), s5)
    /\ UNCHANGED <<slot, heap, loaded, armed, swinging>>

\* memory_malloc_checked finds room for the vertex array; the owner gets its record.
ArrayAllocated ==
    /\ pc = "malloc"
    /\ \E b \in Blocks \ heap :
         /\ heap' = heap \cup {b}
         /\ Present([record EXCEPT ![call.record].block = b,
                                   ![call.record].sized = call.pose.model],
                    call.record, call.pose, call.s5)
    /\ slot' = [slot EXCEPT ![call.owner] = call.record]
    /\ UNCHANGED <<loaded, armed, swinging, drawn>>

\* A fragmented or full heap refuses it: everything is released and malloc tried again.
ArrayRefused ==
    /\ pc = "malloc"
    /\ heap # {}
    /\ ReleaseAll
    /\ UNCHANGED <<loaded, armed, swinging, pc, drawn, call, shown>>

\* After the last bind: present the frame, then animation_cache_release_stale.
EndFrame ==
    /\ pc = "draw"
    /\ swinging => Weapon \in drawn
    /\ LET unused == {r \in Records : record[r].state = "stale"}
       IN  /\ record' = Freed(unused)
           /\ slot' = SlotsWithout(slot, unused)
           /\ heap' = HeapWithout(unused)
    /\ pc' = "update"
    /\ shown' = None
    /\ UNCHANGED <<loaded, armed, swinging, drawn, call>>

-----------------------------------------------------------------------------
\* Between frames.

\* player_begin_weapon_attack and the end of the swing in player_update_weapon_attack.
BeginAttack ==
    /\ pc = "update"
    /\ armed /\ ~swinging
    /\ swinging' = TRUE
    /\ UNCHANGED <<record, slot, heap, loaded, armed, pc, drawn, call, shown>>

EndAttack ==
    /\ pc = "update"
    /\ swinging
    /\ swinging' = FALSE
    /\ UNCHANGED <<record, slot, heap, loaded, armed, pc, drawn, call, shown>>

\* player_equip_weapon: what becomes of the weapon's pointer and of the attack.
EquipPointer(slots) == [slots EXCEPT ![Weapon] = None]
EquipKeepsPhase(phase) == phase
EquipPhase(phase) == FALSE

\* map_floor5_weapon_transform_cutscene takes the weapon, in a swing or not, then
\* renders frames before the game goes on; KF_OBJECT_NONE reads no weapon asset.
TakeWeapon ==
    /\ pc = "update"
    /\ armed
    /\ slot' = EquipPointer(slot)
    /\ swinging' = EquipPhase(swinging)
    /\ armed' = FALSE
    /\ pc' = "cutscene"
    /\ UNCHANGED <<record, heap, loaded, drawn, call, shown>>

\* menu_enter_mode for a shop or an item found: the records are released, the heap
\* is formatted for the menu and formatted again when it ends.
EnterMenu ==
    /\ pc = "update"
    /\ record' = Freed(Occupied)
    /\ slot' = SlotsWithout(slot, Occupied)
    /\ heap' = {}
    /\ UNCHANGED <<loaded, armed, swinging, pc, drawn, call, shown>>

\* The root menu opens only between swings; in it the player equips a weapon, or
\* loads a game with its floor and weapon.
EquipInMenu(model) ==
    /\ pc = "update"
    /\ ~swinging
    /\ record' = Freed(Occupied)
    /\ slot' = EquipPointer(SlotsWithout(slot, Occupied))
    /\ heap' = {}
    /\ loaded' = [loaded EXCEPT ![WeaponAsset] = model]
    /\ armed' = TRUE
    /\ swinging' = EquipPhase(swinging)
    /\ UNCHANGED <<pc, drawn, call, shown>>

\* What is released before a floor or a floor-5 variant is loaded over its assets.
LoadReleasesNothing == {}
ReleasedForLoad == Occupied

OnFloor(models) == [a \in Assets |-> IF a \in FloorAssets THEN models[a] ELSE loaded[a]]

\* player_warp_change_floor, player_warp_same_floor, player_warp_to_floor_entry, and
\* player_death_restart when it revives the player on another floor.
LoadFloor(models) ==
    /\ pc = "update"
    /\ record' = Freed(ReleasedForLoad)
    /\ slot' = SlotsWithout(slot, ReleasedForLoad)
    /\ heap' = HeapWithout(ReleasedForLoad)
    /\ loaded' = OnFloor(models)
    /\ UNCHANGED <<armed, swinging, pc, drawn, call, shown>>

LoadGame(models, model) ==
    /\ pc = "update"
    /\ ~swinging
    /\ record' = Freed(Occupied)
    /\ slot' = EquipPointer(SlotsWithout(slot, Occupied))
    /\ heap' = {}
    /\ \/ armed' = TRUE /\ loaded' = [OnFloor(models) EXCEPT ![WeaponAsset] = model]
       \/ armed' = FALSE /\ loaded' = OnFloor(models)
    /\ swinging' = EquipPhase(swinging)
    /\ UNCHANGED <<pc, drawn, call, shown>>

\* player_death_restart without a revival: game_state_initialize equips the first
\* weapon before the release, so the weapon's record has lost its pointer by then.
RestartGame(models, model) ==
    /\ pc = "update"
    /\ record' = Freed(ReleasedForLoad)
    /\ slot' = SlotsWithout(EquipPointer(slot), ReleasedForLoad)
    /\ heap' = HeapWithout(ReleasedForLoad)
    /\ loaded' = [OnFloor(models) EXCEPT ![WeaponAsset] = model]
    /\ armed' = TRUE
    /\ swinging' = EquipPhase(swinging)
    /\ UNCHANGED <<pc, drawn, call, shown>>

Next ==
    \/ BeginFrame \/ EndFrame \/ ArrayAllocated \/ ArrayRefused
    \/ BeginAttack \/ EndAttack \/ TakeWeapon \/ EnterMenu
    \/ \E o \in Owners, a \in Assets :
         \/ BindStatic(o, a)
         \/ BindExhausted(o, a)
         \/ \E c \in Clips, k \in Keyframes, s5 \in Incoming :
              \/ BindNew(o, a, c, k, s5)
              \/ BindOtherAsset(o, a, c, k, s5)
              \/ BindSameAsset(o, a, c, k, s5)
    \/ \E model \in Models : EquipInMenu(model)
    \/ \E models \in [FloorAssets -> Models] :
         \/ LoadFloor(models)
         \/ \E model \in Models : LoadGame(models, model) \/ RestartGame(models, model)

Spec == Init /\ [][Next]_vars

\* The binder runs to its end: it is one call of one thread.
FairSpec == Spec /\ WF_vars(ArrayAllocated \/ ArrayRefused)

-----------------------------------------------------------------------------
\* Properties.

TypeOK ==
    /\ record \in [Records -> Record]
    /\ slot \in [Owners -> Records \cup {None}]
    /\ heap \subseteq Blocks
    /\ loaded \in [Assets -> Models]
    /\ armed \in BOOLEAN /\ swinging \in BOOLEAN
    /\ pc \in {"update", "cutscene", "draw", "malloc"}
    /\ drawn \subseteq Owners
    /\ call \in Calls \cup {None}
    /\ shown \in Views \cup {None}

\* A pointer to a record and the record's pointer back agree: the record is occupied,
\* belongs to that owner and has its vertex array (binder lines 103-113, release 224-233).
OwnersAgree == \A o \in Owners : slot[o] # None =>
    LET r == record[slot[o]] IN r.state # "free" /\ r.owner = o /\ r.block \in heap

\* The heap holds exactly the arrays of the occupied records, each its own: nothing is
\* leaked, freed twice or shared, also across menus that format the heap.
HeapAccounted ==
    /\ heap = {record[r].block : r \in Occupied}
    /\ \A r \in Records : (record[r].block = None) <=> r \notin Occupied
    /\ \A r, q \in Occupied : record[r].block = record[q].block => r = q

\* A record some owner points to was sized and morphed from the model its registry index
\* holds now, so no array is too short and no rest pose points into replaced assets:
\* loads release every record first, and equipping a weapon drops the weapon's pointer.
RecordsMatchLoadedAssets == \A o \in Owners : slot[o] # None =>
    LET r == record[slot[o]] IN
    /\ r.sized = loaded[r.asset]
    /\ r.image # None /\ r.image.model = loaded[r.asset]

\* Skipping the morph never shows another model or clip than the one asked for, and never
\* another keyframe while the register is what it was when the array was morphed.  Retail
\* reads it uninitialized (animation_cache.c:83): after another caller, the keyframe shown
\* may be off from the one asked for by exactly the difference of the two values.
ShownPoseIsOfAskedIndex == shown # None =>
    /\ shown.got # None
    /\ shown.got.model = shown.asked.model /\ shown.got.clip = shown.asked.clip
    /\ Index(shown.morphed, shown.got.keyframe) = Index(shown.s5, shown.asked.keyframe)
    /\ shown.morphed = shown.s5 => shown.got = shown.asked

\* The sweep that ends a frame takes the record of every owner that was not drawn and
\* of none that was: a record without its owner's pointer would clear the pointer to
\* the owner's new record when it is swept.
SweepTakesOnlyUndrawn == [][EndFrame => \A o \in Owners :
    slot'[o] = IF o \in drawn THEN slot[o] ELSE None]_vars

\* The allocation retry of the binder ends: once everything is released, the array fits.
BindEnds == (pc = "malloc") ~> (pc = "draw")
-----------------------------------------------------------------------------
\* The inductive invariant behind the safety properties.

\* Every occupied record is reached from its owner, except the weapon's after it was
\* taken: that one waits for the sweep, and the weapon is not drawn before.
OccupiedAreOwned == \A r \in Occupied :
    /\ record[r].owner \in Owners
    /\ \/ slot[record[r].owner] = r
       \/ /\ record[r].owner = Weapon /\ slot[Weapon] = None /\ ~swinging
          /\ pc = "cutscene" \/ (pc \in {"draw", "malloc"} /\ record[r].state = "stale")

\* During a frame the live records are those of the owners drawn so far.
LiveAreDrawn == pc \in {"draw", "malloc"} =>
    /\ \A o \in Owners : slot[o] # None => (record[slot[o]].state = "live" <=> o \in drawn)
    /\ Weapon \in drawn => swinging

\* The record a bind holds while it waits for its array: free, reserved by nothing but
\* the call, and sure to be morphed anew.
PendingIsFree == pc = "malloc" =>
    /\ call # None
    /\ call.record \notin Occupied
    /\ slot[call.owner] = None
    /\ call.owner \in drawn
    /\ LET r == record[call.record] IN
       /\ r.owner = call.owner /\ r.clip = None
       /\ r.asset # None /\ loaded[r.asset] = call.pose.model

\* What a reachable record says of its array is true, counted from the register at its morph.
RecordedPose == \A o \in Owners : slot[o] # None =>
    LET r == record[slot[o]] IN
    /\ r.asset # None /\ r.image # None
    /\ r.clip = r.image.clip
    /\ r.morphed # None /\ r.keyframe = Index(r.morphed, r.image.keyframe)

CacheInv == /\ TypeOK /\ HeapAccounted /\ OwnersAgree /\ OccupiedAreOwned /\ LiveAreDrawn
            /\ PendingIsFree /\ RecordsMatchLoadedAssets /\ RecordedPose
=============================================================================
