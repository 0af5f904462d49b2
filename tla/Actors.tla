------------------------------- MODULE Actors -------------------------------
(***************************************************************************)
(* The pool of live actors of GAME.EXE (actor.c, actor_pool.c,             *)
(* actor_behavior.c), the summoning effects that add to it                 *)
(* (effect_dispatch.c) and what a floor's record keeps of it               *)
(* (map_events.c, map_load.c): lifecycles, deaths and their drops, the     *)
(* scripts of the gated actor and of the boss, and the count of occupants  *)
(* in the collision grid.                                                  *)
(*                                                                         *)
(* Distances, facing and dice are choices.  Every action but the ones a    *)
(* property needs is "other" (idling, walking, attacks that are not        *)
(* summons, KF_ACTOR_ACTION_NONE).  actor_initialize assigns every field   *)
(* that is read of an active actor, so the fields of the others rest.      *)
(* A visit is one slot's turn in actor_pool_update; visits, hits and       *)
(* effects come in any order, which includes the order of the frame.       *)
(***************************************************************************)
EXTENDS Integers, FiniteSets

CONSTANTS
    Capacity,           \* KF_ACTOR_CAPACITY, 128
    Floors, FirstFloor, GateFloor, TransformFloor, BossFloor,
    Definitions, Source, Result, Boss, Parts, \* KF_FLOOR4_TRANSFORM_..., KF_FLOOR5_BOSS_...
    Summoned,           \* the definitions a summon may create (0, 2 and 4)
    Placements,         \* by floor: slot state and definition of each placed actor
    GateSlot,           \* where actor_pool_find_at_tile finds the gated actor
    Casters, Pair,      \* who summons, and how many effects at once (1 or 2)
    WithDeath, WithHit, Movers, \* the definitions that have these animations
    Health, Step,       \* initial_health and action_animation_steps, by definition
    PhaseMax,           \* KF_ACTOR_ANIMATION_PHASE_MAX, 4095
    DamageCutoff,       \* ACTOR_DYING_DAMAGE_CUTOFF_PHASE, 1548
    DropPhase,          \* ACTOR_DEATH_DROP_PHASE, 2048
    CastPhase,          \* action_animation_phases of the summon
    PostDeathEnd,       \* KF_ACTOR_PROGRESS_POST_DEATH_END, 7
    EffectCapacity,     \* KF_EFFECT_CAPACITY, 48
    CountModulus,       \* KF_CELL_OCCUPANT_COUNT_MASK + 1, 32; 1 leaves the count out
    None

Slots   == 0 .. Capacity - 1
Effects == 1 .. EffectCapacity
SlotStates == {"dynamic", "persistent", "respawning", "homebound"}
Kept    == {"persistent", "homebound"}
Starting == 0
Running == 1
Locked  == 240
Complete == 255

ASSUME ActorAssumption ==
    /\ Capacity \in Nat \ {0} /\ EffectCapacity \in Nat /\ CountModulus \in Nat \ {0}
    /\ {FirstFloor, GateFloor, TransformFloor, BossFloor} \subseteq Floors
    /\ {Source, Result, Boss} \cup Parts \cup Summoned \cup Casters \subseteq Definitions
    /\ Boss \notin Parts
    /\ Placements \in [Floors -> [Slots -> [slot : SlotStates \cup {"free"}, definition : Definitions]]]
    /\ GateSlot \in Slots /\ Pair \in 1 .. 2
    /\ WithDeath \cup WithHit \cup Movers \subseteq Definitions
    /\ Boss \in WithDeath
    /\ Health \in [Definitions -> Nat \ {0}]
    /\ {PhaseMax, DamageCutoff, DropPhase, CastPhase, PostDeathEnd} \subseteq Nat
    /\ PostDeathEnd < Locked
    /\ None \notin [Slots -> {"dormant", "disabled", "unkept"}]

\* What OneDropPerLife needs of the constants and of the floor's data: the body
\* is out of reach before it drops, and no step is so long that the clamp at the
\* end of the animation lets it cross the same phase twice.
ASSUME StepAssumption ==
    /\ DamageCutoff <= DropPhase /\ DropPhase < PhaseMax
    /\ Step \in [Definitions -> 1 .. PhaseMax - DropPhase - 1]
    /\ \A d \in Definitions : CastPhase < PhaseMax - Step[d]

\* The boss's floor (5) is neither the gated actor's (1) nor the transforming
\* one's (4), no summon creates him (actor.h), and his floor's data places him
\* once: his encounter and his defeat are one flag each.
ASSUME BossAssumption ==
    /\ BossFloor \notin {GateFloor, TransformFloor} /\ Boss \notin Summoned
    /\ \A a, b \in Slots :
          /\ Placements[BossFloor][a].slot # "free" /\ Placements[BossFloor][a].definition = Boss
          /\ Placements[BossFloor][b].slot # "free" /\ Placements[BossFloor][b].definition = Boss
          => a = b

VARIABLES
    actors,     \* actor_state.actors
    spawners,   \* the summoning effects in effect_state.records
    floor,      \* progress_state.current_floor
    script,     \* floor1.actor_activation_stage, floor5.boss_encounter_started, boss_defeat
    records,    \* the actors in world_state, by floor; None where the marker is 0
    census,     \* the occupants counted in map_collision_flag_grid, all cells together
    drops,      \* history: how often each actor dropped in this life
    slain       \* history: the kept actors whose death has ended, by floor

vars == <<actors, spawners, floor, script, records, census, drops, slain>>

Actor == [slot : SlotStates \cup {"free"}, definition : Definitions,
          lifecycle : {"dormant", "active", "waiting", "disabled"},
          action : {"other", "exit", "hit", "summon", "dying", "gone"},
          progress : 0 .. PostDeathEnd \cup {Running, Locked, Complete},
          phase : 0 .. PhaseMax, health : Nat]

-----------------------------------------------------------------------------
(* Records of one actor                                                     *)

Lesser(x, y) == IF x <= y THEN x ELSE y

SetAction(r, action) == [r EXCEPT !.action = action, !.progress = Starting]
Resting(r, lifecycle) ==
    [r EXCEPT !.lifecycle = lifecycle, !.action = "other", !.progress = Complete, !.phase = 0, !.health = 0]

Initialized(r) ==
    [r EXCEPT !.lifecycle = "active", !.action = "other", !.progress = Complete,
              !.phase = 0, !.health = Health[r.definition]]

\* An action that is not tracked leaves any phase behind.
LeftPhases(r) == IF r.action \in {"other", "exit"} THEN 0 .. PhaseMax ELSE {r.phase}
Struck(r, action) == {[SetAction(r, action) EXCEPT !.phase = p] : p \in LeftPhases(r)}

\* The first frame of an action starts its animation over.
Advanced(r, progress) ==
    LET from == IF r.progress = Starting THEN 0 ELSE r.phase
    IN  [r EXCEPT !.progress = IF r.progress = Starting THEN progress ELSE @,
                  !.phase = Lesser(from + Step[r.definition], PhaseMax)]

Crossed(r, phase) == phase < r.phase /\ phase >= r.phase - Step[r.definition]

Active(pool) == {b \in Slots : pool[b].slot # "free" /\ pool[b].lifecycle = "active"}
InFlight(fx) == {e \in Effects : fx[e] # "free"}

SummonsUnlessCrowded(a, r, fx) ==
    r.definition \in Casters /\ Cardinality(Active([actors EXCEPT ![a] = r])) < 2
\* actor_try_select_profiled_action: the population counts the caster itself.
MaySummon(a, r, fx) ==
    /\ r.definition \in Casters
    /\ Cardinality(Active([actors EXCEPT ![a] = r])) + Cardinality(InFlight(fx)) < 2

HeldUnlessGone(r) == r.progress # Complete /\ r.action \in {"exit", "hit", "dying"}
Held(r) == r.progress # Complete /\ r.action \in {"exit", "hit", "dying", "gone"}

\* actor_select_next_action: what it may leave in the record.
Selected(a, r, fx) ==
    IF r.progress = Locked \/ Held(r) THEN {r}
    ELSE {SetAction(r, "other")}
         \cup (IF r.progress # Complete THEN {r} ELSE {})
         \cup (IF MaySummon(a, r, fx) THEN {SetAction(r, "summon")} ELSE {})

\* actor_update_awareness
Aware(a) ==
    LET r == actors[a]
    IN  CASE r.lifecycle = "dormant" /\ r.slot = "respawning" ->
               {r} \cup (IF r.definition \in Movers THEN {SetAction(Initialized(r), "exit")}
                         ELSE Selected(a, Initialized(r), spawners))
          [] r.lifecycle = "dormant" /\ r.slot # "respawning" ->
               {r, Resting(r, "waiting")} \cup Selected(a, Initialized(r), spawners)
          [] r.lifecycle = "active" -> {Resting(r, "dormant")} \cup Selected(a, r, spawners)
          [] r.lifecycle = "waiting" -> {r, Resting(r, "dormant")}
          [] r.lifecycle = "disabled" -> {r}

-----------------------------------------------------------------------------
(* The whole pool                                                           *)

Counted(delta) == census' = (census + delta) % CountModulus

\* actor_pool_begin_death_by_definition for the four definitions of the boss's parts.
MayBegin(r) ==
    IF r.slot = "free" \/ r.definition \notin Parts THEN {r}
    ELSE IF r.lifecycle = "active" /\ r.definition \in WithDeath THEN Struck(r, "dying")
    ELSE {Resting(r, "disabled")}
BeginDeaths(pool) == {p \in [Slots -> UNION {MayBegin(pool[b]) : b \in Slots}] :
                        \A b \in Slots : p[b] \in MayBegin(pool[b])}

\* actor_pool_load_placements, then the lifecycles of a record, then the floor's script.
Placed(f) ==
    [b \in Slots |-> Resting([slot |-> Placements[f][b].slot, definition |-> Placements[f][b].definition,
                              lifecycle |-> "dormant", action |-> "other", progress |-> Complete,
                              phase |-> 0, health |-> 0], "dormant")]
Restored(f, kept) ==
    [b \in Slots |-> IF kept[f] # None /\ kept[f][b] # "unkept"
                     THEN [Placed(f)[b] EXCEPT !.lifecycle = kept[f][b]] ELSE Placed(f)[b]]
Gated(f, pool) ==
    IF f = GateFloor /\ script.gate # "complete" /\ pool[GateSlot].slot # "free"
    THEN [pool EXCEPT ![GateSlot].lifecycle = "disabled"] ELSE pool
\* Where no actor is active, the end of the boss's parts disables them all.
Fallen(pool) ==
    [b \in Slots |-> IF pool[b].slot # "free" /\ pool[b].definition \in Parts
                     THEN Resting(pool[b], "disabled") ELSE pool[b]]
Loaded(f, kept) ==
    IF f = BossFloor /\ script.defeated THEN Fallen(Gated(f, Restored(f, kept)))
    ELSE Gated(f, Restored(f, kept))

PersistedAlive == [b \in Slots |-> IF actors[b].slot \in Kept THEN "dormant" ELSE "unkept"]
\* map_world_state_persist
Persisted ==
    [b \in Slots |-> IF actors[b].slot \notin Kept THEN "unkept"
                     ELSE IF actors[b].lifecycle = "disabled" THEN "disabled" ELSE "dormant"]

Init ==
    /\ floor = FirstFloor
    /\ script = [gate |-> "entry", encounter |-> FALSE, defeated |-> FALSE]
    /\ records = [f \in Floors |-> None]
    /\ actors = Loaded(FirstFloor, records)
    /\ spawners = [e \in Effects |-> "free"]
    /\ census = 0
    /\ drops = [b \in Slots |-> 0]
    /\ slain = {}

-----------------------------------------------------------------------------
(* One visit of actor_pool_update: awareness, then the action of an active  *)
(* actor, which leaves the count first and rejoins it at the end.           *)

Born(a, r) == r.lifecycle = "active" /\ actors[a].lifecycle # "active"
Gain(a, r) == IF Born(a, r) THEN 1 ELSE 0
Lives(a, r) == IF Born(a, r) THEN [drops EXCEPT ![a] = 0] ELSE drops

Put(a, r) == actors' = [actors EXCEPT ![a] = r]

Settle(a, r) ==
    /\ r.lifecycle # "active"
    /\ Put(a, r)
    /\ UNCHANGED <<spawners, floor, script, records, census, drops, slain>>

Other(a, r) ==
    /\ r.action = "other"
    /\ \E q \in {[r EXCEPT !.progress = p] :
                     p \in IF r.progress = Starting THEN {Running, Locked} ELSE {r.progress}}
                \cup Selected(a, [r EXCEPT !.progress = Complete], spawners) : Put(a, q)
    /\ Counted(Gain(a, r)) /\ drops' = Lives(a, r)
    /\ UNCHANGED <<spawners, floor, script, records, slain>>

Exit(a, r) ==
    /\ r.action = "exit"
    /\ \E q \in {[r EXCEPT !.progress = Running]}
                \cup Selected(a, [r EXCEPT !.progress = Complete], spawners) : Put(a, q)
    /\ Counted(Gain(a, r)) /\ drops' = Lives(a, r)
    /\ UNCHANGED <<spawners, floor, script, records, slain>>

HitReaction(a, r) ==
    /\ r.action = "hit"
    /\ LET q == Advanced(r, Running)
       IN  IF q.phase < PhaseMax THEN Put(a, q)
           ELSE \E s \in Selected(a, [q EXCEPT !.progress = Complete], spawners) : Put(a, s)
    /\ UNCHANGED <<spawners, floor, script, records, census, drops, slain>>

\* effect_pool_construct, once or for a pair; other effects may fill the pool.
Constructed(fx) ==
    {[e \in Effects |-> IF e \in new THEN "travel" ELSE fx[e]] :
       new \in {n \in SUBSET (Effects \ InFlight(fx)) : Cardinality(n) <= Pair}}

\* actor_update_effect_action with the code of a summon.
Summon(a, r) ==
    /\ r.action = "summon"
    /\ LET q == Advanced(r, Locked)
       IN  \E fx \in IF Crossed(q, CastPhase) THEN Constructed(spawners) ELSE {spawners} :
             /\ spawners' = fx
             /\ IF q.phase < PhaseMax THEN Put(a, q)
                ELSE \E s \in Selected(a, [q EXCEPT !.progress = Complete], fx) : Put(a, s)
    /\ Counted(Gain(a, r)) /\ drops' = Lives(a, r)
    /\ UNCHANGED <<floor, script, records, slain>>

IsBoss(r) == floor = BossFloor /\ r.definition = Boss

Dying(a, r) ==
    /\ r.action = "dying" /\ ~IsBoss(r)
    /\ LET q == Advanced(r, Running)
       IN  /\ drops' = IF Crossed(q, DropPhase) THEN [drops EXCEPT ![a] = @ + 1] ELSE drops
           /\ Put(a, IF q.phase < PhaseMax THEN q ELSE SetAction(q, "gone"))
    /\ UNCHANGED <<spawners, floor, script, records, census, slain>>

\* actor_update_boss_death_sequence: no drop, and the count is not rejoined.
BossDying(a, r) ==
    /\ r.action = "dying" /\ IsBoss(r)
    /\ LET q == Advanced(r, Running)
       IN  IF q.phase < PhaseMax
           THEN Put(a, q) /\ UNCHANGED <<script, slain>>
           ELSE /\ actors' \in BeginDeaths([actors EXCEPT ![a] = Resting(q, "disabled")])
                /\ script' = [script EXCEPT !.defeated = TRUE]
                /\ slain' = IF r.slot \in Kept THEN slain \cup {<<floor, a>>} ELSE slain
    /\ Counted(-1)
    /\ UNCHANGED <<spawners, floor, records, drops>>

\* KF_ACTOR_ACTION_POST_DEATH
Transform(a, r) ==
    /\ r.action = "gone" /\ floor = TransformFloor /\ r.definition = Source
    /\ Put(a, Initialized([r EXCEPT !.definition = Result]))
    /\ drops' = [drops EXCEPT ![a] = 0]
    /\ UNCHANGED <<spawners, floor, script, records, census, slain>>

PostDeath(a, r) ==
    /\ r.action = "gone" /\ ~(floor = TransformFloor /\ r.definition = Source)
    /\ IF r.progress < PostDeathEnd
       THEN Put(a, [r EXCEPT !.progress = @ + 1]) /\ UNCHANGED <<census, slain>>
       ELSE /\ Put(a, Resting(r, CASE r.slot = "respawning" -> "dormant"
                                   [] r.slot \in Kept -> "disabled"
                                   [] OTHER -> "waiting"))
            /\ slain' = IF r.slot \in Kept THEN slain \cup {<<floor, a>>} ELSE slain
            /\ Counted(-1)
    /\ UNCHANGED <<spawners, floor, script, records, drops>>

Visit(a) ==
    /\ actors[a].slot # "free"
    /\ \E r \in Aware(a) :
         \/ Settle(a, r)
         \/ /\ r.lifecycle = "active"
            /\ \/ Other(a, r) \/ Exit(a, r) \/ HitReaction(a, r) \/ Summon(a, r)
               \/ Dying(a, r) \/ BossDying(a, r) \/ Transform(a, r) \/ PostDeath(a, r)

-----------------------------------------------------------------------------
(* Damage, summons, scripts and floors                                      *)

HitsTheDying(r) == r.action # "gone"
\* actor_apply_damage: who is past harm.
Vulnerable(r) ==
    /\ IsBoss(r) => script.encounter /\ r.health # 0
    /\ ~(r.action = "dying" /\ r.phase >= DamageCutoff)
    /\ r.action # "gone"

\* A weapon or a projectile finds no dying actor, a blast does.
Damage(a) ==
    /\ actors[a].slot # "free" /\ actors[a].lifecycle = "active" /\ Vulnerable(actors[a])
    /\ \E damage \in 1 .. actors[a].health + 1 :
         LET r == actors[a]
             left == [r EXCEPT !.health = IF damage >= r.health THEN 0 ELSE r.health - damage]
         IN  actors' \in {[actors EXCEPT ![a] = s] :
                s \in CASE left.health = 0 /\ r.definition \in WithDeath -> Struck(left, "dying")
                        [] left.health # 0 /\ r.definition \in WithHit -> Struck(left, "hit")
                        [] OTHER -> {left}}
    /\ UNCHANGED <<spawners, floor, script, records, census, drops, slain>>

\* The spawner's case of effect_pool_update: travel, wait, create, shrink.
Free == {b \in Slots : actors[b].slot = "free"}
SummonArrives(e) ==
    /\ spawners[e] = "wait"
    /\ spawners' = [spawners EXCEPT ![e] = "shrink"]
    /\ IF Free = {} THEN UNCHANGED <<actors, census, drops>>
       ELSE LET b == CHOOSE s \in Free : \A t \in Free : s <= t
            IN  /\ \E d \in Summoned :
                     Put(b, SetAction(Initialized([actors[b] EXCEPT !.slot = "dynamic", !.definition = d]), "other"))
                /\ drops' = [drops EXCEPT ![b] = 0]
                /\ Counted(1)
    /\ UNCHANGED <<floor, script, records, slain>>
SummonMoves(e) ==
    /\ spawners[e] \in {"travel", "shrink"}
    /\ spawners' = [spawners EXCEPT ![e] = IF @ = "travel" THEN "wait" ELSE "free"]
    /\ UNCHANGED <<actors, floor, script, records, census, drops, slain>>

\* map_ambient_script_floor1: entering and then leaving an area wakes the gated actor.
EnterGate ==
    /\ floor = GateFloor /\ script.gate = "entry"
    /\ script' = [script EXCEPT !.gate = "exit"]
    /\ UNCHANGED <<actors, spawners, floor, records, census, drops, slain>>
LeaveGate ==
    /\ floor = GateFloor /\ script.gate = "exit"
    /\ script' = [script EXCEPT !.gate = "complete"]
    /\ IF actors[GateSlot].slot = "free" THEN UNCHANGED <<actors, census, drops>>
       ELSE /\ Put(GateSlot, Initialized(actors[GateSlot]))
            /\ drops' = [drops EXCEPT ![GateSlot] = 0]
            /\ Counted(1)
    /\ UNCHANGED <<spawners, floor, records, slain>>

\* map_ambient_script_floor5
MeetBoss ==
    /\ floor = BossFloor /\ ~script.encounter
    /\ script' = [script EXCEPT !.encounter = TRUE]
    /\ UNCHANGED <<actors, spawners, floor, records, census, drops, slain>>

\* player_warp_change_floor: persist, then load with empty effects and fresh grids.
ChangeFloor(f) ==
    /\ f # floor
    /\ LET kept == [records EXCEPT ![floor] = Persisted]
       IN  records' = kept /\ actors' = Loaded(f, kept)
    /\ floor' = f
    /\ spawners' = [e \in Effects |-> "free"]
    /\ census' = 0
    /\ drops' = [b \in Slots |-> 0]
    /\ UNCHANGED <<script, slain>>

Next ==
    \/ \E a \in Slots : Visit(a) \/ Damage(a)
    \/ \E e \in Effects : SummonArrives(e) \/ SummonMoves(e)
    \/ EnterGate \/ LeaveGate \/ MeetBoss
    \/ \E f \in Floors : ChangeFloor(f)

Spec == Init /\ [][Next]_vars

-----------------------------------------------------------------------------
(* Properties                                                               *)

\* Every field has its range, and the count of a cell stays within its five bits.
TypeOK ==
    /\ actors \in [Slots -> Actor]
    /\ spawners \in [Effects -> {"free", "travel", "wait", "shrink"}]
    /\ floor \in Floors
    /\ script \in [gate : {"entry", "exit", "complete"}, encounter : BOOLEAN, defeated : BOOLEAN]
    /\ records \in [Floors -> [Slots -> {"dormant", "disabled", "unkept"}] \cup {None}]
    /\ census \in 0 .. CountModulus - 1
    /\ drops \in [Slots -> Nat]
    /\ slain \subseteq Floors \X Slots

Summoning(a) ==
    /\ actors[a].slot # "free" /\ actors[a].lifecycle = "active" /\ actors[a].action = "summon"
    /\ actors[a].progress = Starting \/ actors[a].phase <= CastPhase

\* Between the choice of a summon and its casting, other actors wake and the
\* choice is made elsewhere: still no two actors are about to summon, and none
\* while a summon travels (the comment of actor_try_select_profiled_action).
SummonsOneAtATime ==
    \A a \in Slots : Summoning(a) => InFlight(spawners) = {} /\ \A b \in Slots : Summoning(b) => b = a

\* Blasts start the death of a body over, but never after it dropped its gold
\* and its object; only the end of the boss makes a fallen part of his fall again.
OneDropPerLife ==
    \A a \in Slots : drops[a] <= IF script.defeated /\ actors[a].definition \in Parts THEN 2 ELSE 1

\* The inductive form of it.  A body has spent its drop once its animation has
\* passed the phase of the drop; an actor in action that has not is due one.  The
\* boss's parts are allowed a second when no boss is left to fall.
Spent(r) == r.action = "gone" \/ (r.action = "dying" /\ r.progress # Starting /\ r.phase > DropPhase)
Due(r)   == IF r.lifecycle = "active" /\ ~Spent(r) THEN 1 ELSE 0
IsPlacedBoss(r) == r.slot # "free" /\ r.definition = Boss
BossStands == floor = BossFloor /\ \E b \in Slots : IsPlacedBoss(actors[b]) /\ actors[b].lifecycle # "disabled"
Allowed(r) == IF script.defeated /\ r.definition \in Parts /\ ~BossStands THEN 2 ELSE 1
LivesInv ==
    /\ \A a \in Slots : drops[a] + Due(actors[a]) <= Allowed(actors[a])
    /\ floor = BossFloor => \A b \in Slots : IsPlacedBoss(actors[b]) => IsPlacedBoss(Placements[floor][b])

\* What has lost its last health and can die is dying: no selection, reaction or
\* script lets it act again in this life.
DeadDoNotAct ==
    \A a \in Slots :
        /\ actors[a].lifecycle = "active" /\ actors[a].health = 0
        /\ actors[a].definition \in WithDeath
        => actors[a].action \in {"dying", "gone"}

\* An actor its placement keeps, once its death has ended, stays away: in the
\* pool, in the records of other floors, through the scripts and the loads.
SlainStaySlain ==
    \A fa \in slain :
        IF fa[1] = floor THEN actors[fa[2]].lifecycle = "disabled"
        ELSE records[fa[1]] # None /\ records[fa[1]][fa[2]] = "disabled"

\* What actor_update_current_action's comment says of the grid: an actor leaves
\* the count while it moves and rejoins it at the end, so between two visits every
\* active actor is counted.
ActiveActorsAreCounted == Cardinality(Active(actors)) <= census
=============================================================================
