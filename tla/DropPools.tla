------------------------------ MODULE DropPools ------------------------------
(***************************************************************************)
(* The three pools of dropped objects of GAME.EXE (map_object.c): ten      *)
(* slots for gold, ten for what an actor's definition drops and ten for    *)
(* what its placement drops.  A spawner stamps the slot it takes with the  *)
(* pool's 16-bit sequence; when no slot is free the one with the greatest  *)
(* age gives way.  The module composes the pools with what carries drops   *)
(* across floors: persist and restore of a floor's record, saves, loads    *)
(* and restarts.  The history variables number the drops in the order they *)
(* were spawned and follow what became of each.                            *)
(***************************************************************************)
EXTENDS Integers, Sequences

CONSTANTS
    Pools,          \* the pools in use, a subset of AllPools
    Capacity,       \* KF_MAP_OBJECT_EFFECT_GROUP_CAPACITY, 10
    Modulus,        \* MAP_EFFECT_SPAWN_SEQUENCE_MODULUS, 2^16
    Byte,           \* 2^8
    Floors, FirstFloor, SwordFloor,
    Cells, SwordCell,
    Items, GoldCoin, Sword,
    Amounts,        \* what a gold drop may hold
    MaxDrops,       \* bound: drops spawned since the last new game
    MaxSaved,       \* bound: drops spawned before a save
    None

AllPools == {"gold", "definition", "placement"}

ASSUME DropAssumption ==
    /\ Pools \subseteq AllPools
    /\ Capacity \in Nat \ {0} /\ Modulus \in Nat \ {0} /\ Byte \in Nat \ {0}
    /\ FirstFloor \in Floors /\ SwordCell \in Cells
    /\ GoldCoin \notin Items /\ Sword \in Items
    /\ Amounts \subseteq 0 .. Byte * Byte - 1
    /\ MaxDrops \in Nat /\ MaxSaved \in Nat
    /\ None \notin Items \cup {GoldCoin} \cup Nat \cup Floors

VARIABLES
    pool,       \* objects 160 .. 189 of map_object_state
    sequence,   \* the three drop sequences of map_object_state
    floor,      \* progress_state.current_floor
    record,     \* the drops in world_state, by floor; None where the marker is 0
    saved,      \* what the memory card holds, or None
    drops,      \* history: every drop of this game, in the order spawned
    visit,      \* history: the drops stamped since the floor was loaded
    wrapped     \* history: the pools whose sequence passed zero in this session

vars == <<pool, sequence, floor, record, saved, drops, visit, wrapped>>

Slots   == 0 .. Capacity - 1
Ids     == Items \cup {GoldCoin}
Contents == [id : Ids, amount : Amounts \cup {0}, cell : Cells]
Live    == [id : Ids \cup {None}, amount : 0 .. Byte * Byte - 1, cell : Cells,
            sequence : 0 .. Modulus - 1, drop : Nat \cup {None}]
Stored  == [id : Ids \cup {None}, low : 0 .. Byte - 1, high : 0 .. Byte - 1, cell : Cells,
            drop : Nat \cup {None}]
Record  == [Pools -> [Slots -> Stored]]
Drop    == [pool : Pools, made : Contents, floor : Floors, fate : {"ground", "taken", "evicted", "stray"},
            paid : Contents \cup {None}]
Snapshot == [floor : Floors, record : [Floors -> Record \cup {None}], drops : Seq(Drop)]

ASSUME RecordAssumption == None \notin Record /\ None \notin Snapshot /\ None \notin Contents

\* memset of map_object_state and map_object_pool_clear at the start of a session.
Blank(cell) == [id |-> None, amount |-> 0, cell |-> cell, sequence |-> 0, drop |-> None]

\* game_main_loop up to its first frame: a session always begins with a new game.
Init ==
    /\ pool = [p \in Pools |-> [s \in Slots |-> Blank(SwordCell)]]
    /\ sequence = [p \in Pools |-> 0]
    /\ floor = FirstFloor
    /\ record = [f \in Floors |-> None]
    /\ saved = None
    /\ drops = <<>>
    /\ visit = {}
    /\ wrapped = {}

-----------------------------------------------------------------------------
\* map_object_effect_pool_acquire.

Free(p) == {s \in Slots : pool[p][s].id = None}
Age(p, s) == (sequence[p] - pool[p][s].sequence) % Modulus
Aged(p) == {s \in Slots : Age(p, s) > 0}
First(ss) == CHOOSE s \in ss : \A t \in ss : s <= t
Oldest(p) == First({s \in Aged(p) : \A t \in Slots : Age(p, t) <= Age(p, s)})
YoungestGivesWay(p) ==
    IF Free(p) # {} THEN First(Free(p))
    ELSE IF Aged(p) # {} THEN First({s \in Aged(p) : \A t \in Aged(p) : Age(p, t) >= Age(p, s)})
    ELSE None
Acquired(p) ==
    IF Free(p) # {} THEN First(Free(p))
    ELSE IF Aged(p) # {} THEN Oldest(p)
    ELSE None

-----------------------------------------------------------------------------
\* The spawners.

\* What becomes of the drops when slot s of pool p is given to a new one.
Displaced(p, s) ==
    [d \in 1 .. Len(drops) |->
        IF s # None /\ pool[p][s].drop = d THEN [drops[d] EXCEPT !.fate = "evicted"] ELSE drops[d]]
Minted(p, s, made) ==
    Append(Displaced(p, s), [pool |-> p, made |-> made, floor |-> floor, paid |-> None,
                             fate |-> IF s = None THEN "stray" ELSE "ground"])

NextStamp(stamp) == (stamp + 1) % Modulus
Filled(slot, made, stamp) ==
    [slot EXCEPT !.id = made.id, !.cell = made.cell, !.sequence = stamp, !.drop = Len(drops) + 1,
                 !.amount = made.amount]

\* map_object_spawn_gold_drop and map_object_spawn_drop.  When nothing can give way the
\* pointer is NULL and the object is written over whatever lies at address zero.
Spawn(p, made) ==
    /\ Len(drops) < MaxDrops
    /\ made.id \in (IF p = "gold" THEN {GoldCoin} ELSE Items \ {Sword})
    /\ (made.amount > 0) <=> (p = "gold")
    /\ LET s == Acquired(p)
       IN  /\ pool' = IF s = None THEN pool
                      ELSE [pool EXCEPT ![p][s] = Filled(pool[p][s], made, sequence[p])]
           /\ drops' = Minted(p, s, made)
           /\ visit' = visit \cup {Len(drops) + 1}
    /\ sequence' = [sequence EXCEPT ![p] = NextStamp(@)]
    /\ wrapped' = IF sequence'[p] = 0 THEN wrapped \cup {p} ELSE wrapped
    /\ UNCHANGED <<floor, record, saved>>

\* The cutscene of floor five lays the sword into a slot of the placement pool that keeps
\* the stamp it had; the sequence stands still.
LaySword ==
    /\ "placement" \in Pools
    /\ floor = SwordFloor
    /\ Len(drops) < MaxDrops
    /\ LET s == Acquired("placement")
           made == [id |-> Sword, amount |-> 0, cell |-> SwordCell]
       IN  /\ pool' = IF s = None THEN pool
                      ELSE [pool EXCEPT !["placement"][s] = Filled(@, made, @.sequence)]
           /\ drops' = Minted("placement", s, made)
    /\ UNCHANGED <<sequence, floor, record, saved, visit, wrapped>>

\* Interaction with a drop: gold is added up, an item counted once the menu accepts it.  The
\* slot keeps its stamp; its amount stays too, but nothing reads it until it is set again.
KeepsObject(slot) == slot
Emptied(slot) == [slot EXCEPT !.id = None, !.amount = 0, !.drop = None]
PaidOut(slot) == [id |-> slot.id, cell |-> slot.cell, amount |-> slot.amount]
PickUp(p, s) ==
    /\ pool[p][s].id # None
    /\ pool' = [pool EXCEPT ![p][s] = Emptied(@)]
    /\ drops' = [drops EXCEPT ![pool[p][s].drop] =
           [@ EXCEPT !.fate = "taken", !.paid = PaidOut(pool[p][s])]]
    /\ UNCHANGED <<sequence, floor, record, saved, visit, wrapped>>

-----------------------------------------------------------------------------
\* Floors and the memory card.

\* map_world_state_persist: identifiers and cells, and gold as two bytes.  Only the records of
\* the gold pool have these; the amount of an item is zero here and after a restore.
Stow(slot) == [id |-> slot.id, cell |-> slot.cell, drop |-> slot.drop,
               low |-> slot.amount % Byte, high |-> slot.amount \div Byte]
PersistForgetsFloor == record
Persisted == [record EXCEPT ![floor] = [p \in Pools |-> [s \in Slots |-> Stow(pool[p][s])]]]

\* map_object_pool_load empties the slots, map_restore_floor_state refills them.
LowByteOnly(live, stored) ==
    [live EXCEPT !.id = stored.id, !.cell = stored.cell, !.sequence = 0, !.drop = stored.drop,
                 !.amount = stored.low]
Unstow(live, stored) ==
    [live EXCEPT !.id = stored.id, !.cell = stored.cell, !.sequence = 0, !.drop = stored.drop,
                 !.amount = stored.low + Byte * stored.high]
LoadFloor(f, records) ==
    /\ floor' = f
    /\ pool' = [p \in Pools |-> [s \in Slots |->
           IF records[f] = None THEN Emptied(pool[p][s])
           ELSE Unstow(Emptied(pool[p][s]), records[f][p][s])]]
    /\ visit' = {}

\* player_warp_change_floor, and a revival away from the first floor: map_unload_floor, then
\* map_load_floor.
ChangeFloor(f) ==
    /\ f # floor
    /\ record' = Persisted
    /\ LoadFloor(f, record')
    /\ UNCHANGED <<sequence, saved, drops, wrapped>>

\* A save point persists, then asks; the save itself may be declined or fail.  A revival on
\* the first floor persists too and reloads nothing.
UseSavePoint ==
    /\ record' = Persisted
    /\ \/ UNCHANGED saved
       \/ /\ Len(drops) <= MaxSaved
          /\ saved' = [floor |-> floor, record |-> Persisted, drops |-> drops]
    /\ UNCHANGED <<pool, sequence, floor, drops, visit, wrapped>>

\* player_update after the menu reports KF_MENU_RESULT_GAME_LOADED.
LoadGame ==
    /\ saved # None
    /\ record' = saved.record
    /\ drops' = saved.drops
    /\ LoadFloor(saved.floor, saved.record)
    /\ UNCHANGED <<sequence, saved, wrapped>>

\* player_death_restart without a revival: the records are cleared, the sequences are not.
NewGameAfterDeath ==
    /\ record' = [f \in Floors |-> None]
    /\ drops' = <<>>
    /\ LoadFloor(FirstFloor, record')
    /\ UNCHANGED <<sequence, saved, wrapped>>

\* The session ends and the loader starts the game again; the card stays.
NewSession ==
    /\ record' = [f \in Floors |-> None]
    /\ drops' = <<>>
    /\ floor' = FirstFloor
    /\ pool' = [p \in Pools |-> [s \in Slots |-> Blank(SwordCell)]]
    /\ visit' = {}
    /\ sequence' = [p \in Pools |-> 0]
    /\ wrapped' = {}
    /\ UNCHANGED saved

Next ==
    \/ \E p \in Pools, made \in Contents : Spawn(p, made)
    \/ LaySword
    \/ \E p \in Pools, s \in Slots : PickUp(p, s)
    \/ \E f \in Floors : ChangeFloor(f)
    \/ UseSavePoint
    \/ LoadGame
    \/ NewGameAfterDeath
    \/ NewSession

Spec == Init /\ [][Next]_vars

-----------------------------------------------------------------------------
\* Properties.

\* Every slot, record and history entry has its type.
TypeOK ==
    /\ pool \in [Pools -> [Slots -> Live]]
    /\ sequence \in [Pools -> 0 .. Modulus - 1]
    /\ floor \in Floors
    /\ record \in [Floors -> Record \cup {None}]
    /\ saved \in Snapshot \cup {None}
    /\ drops \in Seq(Drop)
    /\ visit \subseteq Nat
    /\ wrapped \subseteq Pools

\* What lies where: in the slots of the floor the player is on, in the records of the others.
Places == Floors \X Pools \X Slots
Lying  == [id : Ids \cup {None}, amount : Nat, cell : Cells, drop : Nat \cup {None}]
InSlot(slot) == [id |-> slot.id, amount |-> slot.amount, cell |-> slot.cell, drop |-> slot.drop]
InRecord(stored) == [id |-> stored.id, amount |-> stored.low + Byte * stored.high,
                     cell |-> stored.cell, drop |-> stored.drop]
Nowhere == [id |-> None, amount |-> 0, cell |-> SwordCell, drop |-> None]
Recorded(records) ==
    [x \in Places |-> IF records[x[1]] = None THEN Nowhere
                      ELSE InRecord(records[x[1]][x[2]][x[3]])]
Ground == [x \in Places |-> IF x[1] = floor THEN InSlot(pool[x[2]][x[3]]) ELSE Recorded(record)[x]]

\* Each drop of a history that is on the ground lies in exactly one slot, of its own floor
\* and pool; one that was taken, displaced or written astray lies nowhere.
Once(history, ground) ==
    \A d \in 1 .. Len(history) :
        IF history[d].fate = "ground"
        THEN \E x \in Places : /\ x[1] = history[d].floor /\ x[2] = history[d].pool
                               /\ \A y \in Places : ground[y].drop = d <=> y = x
        ELSE \A y \in Places : ground[y].drop # d

Unchanged(history, ground) ==
    /\ \A x \in Places :
           ground[x].drop # None =>
               LET made == history[ground[x].drop].made
               IN  /\ ground[x].drop \in 1 .. Len(history)
                   /\ ground[x].id = made.id /\ ground[x].cell = made.cell
                   /\ ground[x].amount = made.amount
    /\ \A d \in 1 .. Len(history) :
           history[d].fate = "taken" => history[d].paid = history[d].made

\* No drop is lost or doubled by spawning, picking up, leaving a floor, saving, loading or
\* restarting.
DropsConserved == Once(drops, Ground)

\* What lies in a slot is what was dropped there, through the two bytes of the record and
\* every reload, and what the player is paid for a drop is what it held.
DropsKeepWorth == Unchanged(drops, Ground)

\* What makes both hold from step to step: an occupied slot holds a numbered drop, and what
\* the card holds is as sound as what the game holds.
Vacant(ground) == \A x \in Places : ground[x].id = None <=> ground[x].drop = None
Sound(history, ground) == Once(history, ground) /\ Unchanged(history, ground) /\ Vacant(ground)
DropInv == /\ Sound(drops, Ground)
           /\ saved # None => Sound(saved.drops, Recorded(saved.record))

\* What the stamps of a pool say until its sequence wraps: those of this visit are in the
\* order of the drops, restored drops have none, and the sequence is ahead of all.
Stamped(p) ==
    \A s \in Slots :
        LET x == pool[p][s]
        IN  /\ x.sequence <= sequence[p]
            /\ x.drop \in visit =>
                  /\ x.sequence < sequence[p]
                  /\ \A t \in Slots : pool[p][t].drop \in visit /\ x.drop < pool[p][t].drop =>
                                       x.sequence < pool[p][t].sequence
            /\ x.drop # None /\ x.drop \notin visit /\ x.id # Sword => x.sequence = 0
VisitInv == visit \subseteq 1 .. Len(drops) /\ \A p \in Pools \ wrapped : Stamped(p)

\* Drop d gives way in this step while drop e of its pool stays.
GivesWay(p, d, e) ==
    /\ LaySword \/ \E made \in Contents : Spawn(p, made)
    /\ \E s, t \in Slots : pool[p][s].drop = d /\ pool'[p][s].drop # d
                        /\ pool[p][t].drop = e /\ pool'[p][t].drop = e

\* Among the drops stamped since the floor was loaded the oldest gives way first, and only
\* the session's first stamp can be mistaken for that of a restored drop; both until the
\* sequence of the pool wraps.
OldestOfVisitGivesWay ==
    [][\A p \in Pools \ wrapped, d, e \in 1 .. Len(drops) :
          GivesWay(p, d, e) /\ d \in visit =>
              /\ e \in visit => d < e
              /\ e \notin visit /\ drops[e].made.id # Sword =>
                     \E s \in Slots : pool[p][s].drop = d /\ pool[p][s].sequence = 0]_vars

\* docs/map-objects.md: "allocation chooses a free slot or the oldest wrapping
\* sequence", so there is always a slot to choose.
EveryDropFindsASlot == \A d \in 1 .. Len(drops) : drops[d].fate # "stray"

=============================================================================
