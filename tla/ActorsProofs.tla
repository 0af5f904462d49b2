---------------------------- MODULE ActorsProofs ----------------------------
(***************************************************************************)
(* Theorems about the pool of actors: its types, that the dead do not act  *)
(* and the slain stay slain, that there is one summon at a time, and that  *)
(* a body drops once in each life.                                         *)
(*                                                                         *)
(* The first two are proved together, slot by slot: a record is Living     *)
(* when its fields have their ranges, a dying actor's progress leaves it   *)
(* held by the selection, and a dead one that can die is dying.  Every     *)
(* operator that makes a record makes a Living one.                        *)
(***************************************************************************)
EXTENDS Actors, FiniteSetTheorems, WellFoundedInduction, TLAPS

LifeOK(r) ==
    /\ (r.action \in {"dying", "gone"} => r.progress \notin {Locked, Complete})
    /\ (r.lifecycle = "active" /\ r.health = 0 /\ r.definition \in WithDeath
          => r.action \in {"dying", "gone"})
Living == {r \in Actor : LifeOK(r)}

\* The actors are Living and everything else has its type.
PoolInv == actors \in [Slots -> Living] /\ TypeOK

-----------------------------------------------------------------------------
(* Records of one actor                                                     *)

\* The constants a record is made with.
LEMMA ConstantTypes ==
    /\ PostDeathEnd \in Nat /\ PostDeathEnd < 240 /\ PhaseMax \in Nat
    /\ \A d \in Definitions : Health[d] \in Nat \ {0} /\ Step[d] \in Nat \ {0}
    /\ \A d \in Definitions : CastPhase < PhaseMax - Step[d]
    /\ CastPhase \in Nat /\ CountModulus \in Nat \ {0} /\ GateSlot \in Slots
    /\ Boss \in Definitions /\ Result \in Definitions /\ Summoned \subseteq Definitions
BY ActorAssumption, StepAssumption DEF Locked

\* Members of the ranges of a record.
LEMMA Ranges ==
    /\ 0 \in 0 .. PhaseMax /\ 0 \in Nat
    /\ Starting \in 0 .. PostDeathEnd \cup {Running, Locked, Complete}
    /\ Complete \in 0 .. PostDeathEnd \cup {Running, Locked, Complete}
BY ConstantTypes DEF Starting

\* Two readings of what a Living record is.
LEMMA LivingType == ASSUME NEW r \in Living PROVE r \in Actor /\ LifeOK(r)
BY DEF Living

\* A record that rests is Living.
LEMMA RestingLiving ==
    ASSUME NEW r \in Actor, NEW l \in {"dormant", "waiting", "disabled"}
    PROVE  /\ Resting(r, l) \in Living /\ Resting(r, l).lifecycle = l
           /\ Resting(r, l).slot = r.slot /\ Resting(r, l).definition = r.definition
<1> DEFINE q == Resting(r, l)
<1>1. q \in Actor
  BY Ranges DEF Resting, Actor
<1>2. q.lifecycle = l /\ q.slot = r.slot /\ q.definition = r.definition /\ q.action = "other"
  BY DEF Resting, Actor
<1> QED
  BY <1>1, <1>2 DEF Living, LifeOK

\* An actor begins its life active, with health and with nothing chosen.
LEMMA InitializedLiving ==
    ASSUME NEW r \in Actor
    PROVE  /\ Initialized(r) \in Living /\ Initialized(r).lifecycle = "active"
           /\ Initialized(r).slot = r.slot /\ Initialized(r).definition = r.definition
           /\ Initialized(r).action = "other" /\ Initialized(r).health # 0
<1> DEFINE q == Initialized(r)
<1>1. r.definition \in Definitions /\ Health[r.definition] \in Nat \ {0}
  BY ConstantTypes DEF Actor
<1>2. q \in Actor
  BY <1>1, Ranges DEF Initialized, Actor
<1>3. /\ q.lifecycle = "active" /\ q.slot = r.slot /\ q.definition = r.definition /\ q.action = "other"
      /\ q.health = Health[r.definition]
  BY DEF Initialized, Actor
<1> QED
  BY <1>1, <1>2, <1>3 DEF Living, LifeOK

\* Choosing an action keeps a record Living unless it is dead.
LEMMA SetActionLiving ==
    ASSUME NEW r \in Living, NEW action \in {"other", "exit", "hit", "summon", "dying"},
           action # "dying" => r.action \notin {"dying", "gone"} \/ r.health # 0
    PROVE  /\ SetAction(r, action) \in Living
           /\ SetAction(r, action).action = action /\ SetAction(r, action).progress = Starting
           /\ SetAction(r, action).slot = r.slot /\ SetAction(r, action).lifecycle = r.lifecycle
           /\ SetAction(r, action).definition = r.definition /\ SetAction(r, action).phase = r.phase
<1> DEFINE q == SetAction(r, action)
<1>1. r \in Actor /\ LifeOK(r)
  BY LivingType
<1>2. q \in Actor
  BY <1>1, Ranges DEF SetAction, Actor
<1>3. /\ q.action = action /\ q.progress = Starting /\ q.slot = r.slot /\ q.lifecycle = r.lifecycle
      /\ q.definition = r.definition /\ q.phase = r.phase /\ q.health = r.health
  BY <1>1 DEF SetAction, Actor
<1>4. LifeOK(q)
  BY <1>1, <1>3 DEF LifeOK, Starting, Locked, Complete
<1> QED
  BY <1>2, <1>3, <1>4 DEF Living

\* What ends an action that is not a death keeps the record Living.
LEMMA CompletedLiving ==
    ASSUME NEW r \in Living, NEW p \in {Running, Locked, Complete}, r.action \notin {"dying", "gone"}
    PROVE  /\ [r EXCEPT !.progress = p] \in Living /\ [r EXCEPT !.progress = p].progress = p
           /\ [r EXCEPT !.progress = p].action = r.action /\ [r EXCEPT !.progress = p].slot = r.slot
           /\ [r EXCEPT !.progress = p].lifecycle = r.lifecycle /\ [r EXCEPT !.progress = p].phase = r.phase
BY ConstantTypes DEF Living, Actor, LifeOK, Complete, Locked, Running

\* Selection is held for the dead, so what it leaves is Living.
LEMMA SelectedLiving ==
    ASSUME NEW a, NEW r \in Living, NEW fx, NEW s \in Selected(a, r, fx)
    PROVE  s \in Living /\ s.slot = r.slot /\ s.lifecycle = r.lifecycle
<1>1. CASE r.progress = Locked \/ Held(r)
  BY <1>1 DEF Selected
<1>2. CASE ~(r.progress = Locked \/ Held(r))
  <2>1. r.action \notin {"dying", "gone"}
    BY <1>2, LivingType DEF LifeOK, Held
  <2>2. s \in {r, SetAction(r, "other"), SetAction(r, "summon")}
    BY <1>2 DEF Selected
  <2> QED
    BY <2>1, <2>2, SetActionLiving
<1> QED
  BY <1>1, <1>2

\* An animation that advances stays within its phases.
LEMMA AdvancedLiving ==
    ASSUME NEW r \in Living, NEW p \in {Running, Locked}, r.action = "dying" => p = Running,
           r.action # "gone"
    PROVE  /\ Advanced(r, p) \in Living /\ Advanced(r, p).action = r.action
           /\ Advanced(r, p).slot = r.slot /\ Advanced(r, p).lifecycle = r.lifecycle
           /\ Advanced(r, p).definition = r.definition /\ Advanced(r, p).health = r.health
           /\ Advanced(r, p).progress # Starting
<1> DEFINE from == IF r.progress = Starting THEN 0 ELSE r.phase
<1>1. r \in Actor /\ LifeOK(r)
  BY LivingType
<1>2. from \in Nat /\ Step[r.definition] \in Nat
  BY <1>1, ConstantTypes DEF Actor
<1>3. Lesser(from + Step[r.definition], PhaseMax) \in 0 .. PhaseMax
  BY <1>2, ConstantTypes DEF Lesser
<1> DEFINE q == Advanced(r, p)
           next == Lesser(from + Step[r.definition], PhaseMax)
           on == IF r.progress = Starting THEN p ELSE r.progress
<1>4. q = [r EXCEPT !.progress = on, !.phase = next]
  BY <1>1 DEF Advanced, Actor
<1>5. on \in 0 .. PostDeathEnd \cup {Running, Locked, Complete}
  BY <1>1 DEF Actor
<1> HIDE DEF next, on, q
<1>6. q \in Actor
  BY <1>1, <1>3, <1>4, <1>5 DEF Actor, next
<1>7. /\ q.progress = on /\ q.action = r.action /\ q.slot = r.slot /\ q.lifecycle = r.lifecycle
      /\ q.definition = r.definition /\ q.health = r.health
  BY <1>1, <1>4 DEF Actor
<1>8. on # Starting /\ (r.action = "dying" => on \notin {Locked, Complete})
  BY <1>1 DEF on, LifeOK, Starting, Running, Locked, Complete
<1>9. LifeOK(q)
  BY <1>1, <1>7, <1>8 DEF LifeOK
<1> QED
  BY <1>6, <1>7, <1>8, <1>9 DEF q, Living

\* A blow begins a death, or a reaction of one who is not dead.
LEMMA StruckLiving ==
    ASSUME NEW r \in Actor, NEW action \in {"hit", "dying"}, action = "hit" => r.health # 0,
           NEW s \in Struck(r, action)
    PROVE  s \in Living /\ s.slot = r.slot /\ s.lifecycle = r.lifecycle /\ s.action = action
<1>1. LeftPhases(r) \subseteq 0 .. PhaseMax
  BY DEF LeftPhases, Actor
<1>2. PICK p \in LeftPhases(r) : s = [SetAction(r, action) EXCEPT !.phase = p]
  BY DEF Struck
<1>3. s = [r EXCEPT !.action = action, !.progress = Starting, !.phase = p]
  BY <1>2 DEF SetAction, Actor
<1>4. s \in Actor
  BY <1>1, <1>3, Ranges DEF Actor
<1>5. s.slot = r.slot /\ s.lifecycle = r.lifecycle /\ s.action = action /\ s.progress = Starting /\ s.health = r.health
  BY <1>3 DEF Actor
<1> QED
  BY <1>4, <1>5 DEF Living, LifeOK, Starting, Locked, Complete

\* Awareness leaves a Living record in the same slot, which is no longer
\* dormant or waiting if it is active.
LEMMA AwareLiving ==
    ASSUME actors \in [Slots -> Living], NEW a \in Slots, NEW r \in Aware(a)
    PROVE  r \in Living /\ r.slot = actors[a].slot
<1> DEFINE o == actors[a]
<1>1. o \in Living /\ o \in Actor
  BY LivingType
<1>2. o.lifecycle \in {"dormant", "active", "waiting", "disabled"}
  BY <1>1 DEF Actor
<1>3. Initialized(o) \in Living /\ Initialized(o).slot = o.slot /\ Initialized(o).action = "other"
  BY <1>1, InitializedLiving
<1>4. SetAction(Initialized(o), "exit") \in Living /\ SetAction(Initialized(o), "exit").slot = o.slot
  BY <1>3, SetActionLiving
<1>5. \A s \in Selected(a, Initialized(o), spawners) \cup Selected(a, o, spawners) :
         s \in Living /\ s.slot = o.slot
  BY <1>1, <1>3, SelectedLiving
<1>6. \A l \in {"dormant", "waiting"} : Resting(o, l) \in Living /\ Resting(o, l).slot = o.slot
  BY <1>1, RestingLiving
<1>7. r \in {o, Resting(o, "dormant"), Resting(o, "waiting"), SetAction(Initialized(o), "exit")}
            \cup Selected(a, Initialized(o), spawners) \cup Selected(a, o, spawners)
  BY <1>2 DEF Aware
<1> QED
  BY <1>1, <1>4, <1>5, <1>6, <1>7

\* The boss's end makes his parts die or rest.
LEMMA BeginDeathsLiving ==
    ASSUME NEW pool \in [Slots -> Living], NEW p \in BeginDeaths(pool)
    PROVE  p \in [Slots -> Living]
<1>1. \A b \in Slots : p[b] \in Living
  <2> SUFFICES ASSUME NEW b \in Slots PROVE p[b] \in Living
    OBVIOUS
  <2>1. pool[b] \in Living /\ pool[b] \in Actor
    BY LivingType
  <2>2. p[b] \in {pool[b], Resting(pool[b], "disabled")} \cup Struck(pool[b], "dying")
    BY DEF BeginDeaths, MayBegin
  <2> QED
    BY <2>1, <2>2, RestingLiving, StruckLiving
<1>2. p \in [Slots -> UNION {MayBegin(pool[b]) : b \in Slots}]
  BY DEF BeginDeaths
<1> QED
  BY <1>1, <1>2

Kinds == [Slots -> {"dormant", "disabled", "unkept"}]

\* A loaded floor holds Living actors, none of them active.
LEMMA LoadedLiving ==
    ASSUME NEW f \in Floors, NEW kept \in [Floors -> Kinds \cup {None}]
    PROVE  /\ Loaded(f, kept) \in [Slots -> Living]
           /\ \A b \in Slots : Loaded(f, kept)[b].lifecycle # "active"
<1> DEFINE bare(b) == [slot |-> Placements[f][b].slot, definition |-> Placements[f][b].definition,
                       lifecycle |-> "dormant", action |-> "other", progress |-> Complete,
                       phase |-> 0, health |-> 0]
           still(r) == r \in Living /\ r.lifecycle \in {"dormant", "disabled"}
<1>1. \A b \in Slots : bare(b) \in Actor
  <2>1. \A b \in Slots : Placements[f][b] \in [slot : SlotStates \cup {"free"}, definition : Definitions]
    BY ActorAssumption
  <2> QED
    BY <2>1, Ranges DEF Actor
<1>2. \A b \in Slots : Placed(f)[b] = Resting(bare(b), "dormant")
  BY DEF Placed
<1>3. \A b \in Slots : Placed(f)[b] \in Living /\ Placed(f)[b].lifecycle = "dormant" /\ Placed(f)[b].action = "other"
  <2> SUFFICES ASSUME NEW b \in Slots
               PROVE  Placed(f)[b] \in Living /\ Placed(f)[b].lifecycle = "dormant" /\ Placed(f)[b].action = "other"
    OBVIOUS
  <2> HIDE DEF bare
  <2>1. bare(b) \in Actor /\ Placed(f)[b] = Resting(bare(b), "dormant")
    BY <1>1, <1>2
  <2>2. Resting(bare(b), "dormant").action = "other"
    BY <2>1 DEF Resting, Actor
  <2> QED
    BY <2>1, <2>2, RestingLiving
<1>4. ASSUME NEW r \in Living, NEW l \in {"dormant", "disabled"}, r.action = "other" \/ r.lifecycle # "active"
      PROVE  still([r EXCEPT !.lifecycle = l])
  <2>1. r \in Actor /\ LifeOK(r)
    BY LivingType
  <2>2. [r EXCEPT !.lifecycle = l] \in Actor
    BY <2>1 DEF Actor
  <2>3. /\ [r EXCEPT !.lifecycle = l].lifecycle = l /\ [r EXCEPT !.lifecycle = l].action = r.action
        /\ [r EXCEPT !.lifecycle = l].progress = r.progress
    BY <2>1 DEF Actor
  <2> QED
    BY <2>1, <2>2, <2>3 DEF Living, LifeOK
<1>5. \A b \in Slots : still(Restored(f, kept)[b])
  <2> SUFFICES ASSUME NEW b \in Slots PROVE still(Restored(f, kept)[b])
    OBVIOUS
  <2>1. CASE kept[f] # None /\ kept[f][b] # "unkept"
    <3>1. kept[f][b] \in {"dormant", "disabled"}
      BY <2>1 DEF Kinds
    <3>2. Restored(f, kept)[b] = [Placed(f)[b] EXCEPT !.lifecycle = kept[f][b]]
      BY <2>1 DEF Restored
    <3>3. Placed(f)[b] \in Living /\ Placed(f)[b].action = "other"
      BY <1>3
    <3> DEFINE old == Placed(f)[b]
               l == kept[f][b]
    <3>4. old \in Living /\ old.action = "other" /\ l \in {"dormant", "disabled"}
      BY <3>1, <3>3
    <3> HIDE DEF still, old, l
    <3>5. still([old EXCEPT !.lifecycle = l])
      BY <1>4, <3>4
    <3> QED
      BY <3>2, <3>5 DEF old, l
  <2>2. CASE ~(kept[f] # None /\ kept[f][b] # "unkept")
    BY <2>2, <1>3 DEF Restored
  <2> QED
    BY <2>1, <2>2
<1>6. \A b \in Slots : still(Gated(f, Restored(f, kept))[b])
  <2> SUFFICES ASSUME NEW b \in Slots PROVE still(Gated(f, Restored(f, kept))[b])
    OBVIOUS
  <2> DEFINE old == Restored(f, kept)
  <2>1. old = [c \in Slots |-> old[c]]
    BY DEF Restored
  <2>2. Gated(f, old)[b] \in {old[b], [old[b] EXCEPT !.lifecycle = "disabled"]}
    BY <2>1 DEF Gated
  <2>3. still(old[b])
    BY <1>5
  <2> HIDE DEF old
  <2>4. still([old[b] EXCEPT !.lifecycle = "disabled"])
    <3>1. old[b] \in Living /\ old[b].lifecycle # "active"
      BY <2>3
    <3> HIDE DEF still
    <3> QED
      BY <1>4, <3>1
  <2>5. still(Gated(f, old)[b])
    BY <2>2, <2>3, <2>4
  <2> QED
    BY <2>5 DEF old
<1> DEFINE new == Gated(f, Restored(f, kept))
<1>7. new = [c \in Slots |-> new[c]]
  BY DEF Gated, Restored
<1>8. \A b \in Slots : still(Fallen(new)[b])
  <2> SUFFICES ASSUME NEW b \in Slots PROVE still(Fallen(new)[b])
    OBVIOUS
  <2>1. Fallen(new)[b] \in {new[b], Resting(new[b], "disabled")}
    BY DEF Fallen
  <2>2. new[b] \in Living /\ new[b] \in Actor /\ still(new[b])
    BY <1>6, LivingType
  <2> HIDE DEF new
  <2>3. Resting(new[b], "disabled") \in Living /\ Resting(new[b], "disabled").lifecycle = "disabled"
    BY <2>2, RestingLiving
  <2> QED
    BY <2>1, <2>2, <2>3
<1>9. Fallen(new) = [c \in Slots |-> Fallen(new)[c]]
  BY DEF Fallen
<1> HIDE DEF new
<1>10. Loaded(f, kept) \in {new, Fallen(new)}
  BY DEF Loaded, new
<1>11. \A b \in Slots : still(new[b])
  BY <1>6 DEF new
<1>12. ASSUME NEW pool \in {new, Fallen(new)}
       PROVE  pool \in [Slots -> Living] /\ \A b \in Slots : pool[b].lifecycle # "active"
  <2>1. \A b \in Slots : still(pool[b])
    BY <1>8, <1>11
  <2>2. pool = [c \in Slots |-> pool[c]]
    BY <1>7, <1>9
  <2> QED
    BY <2>1, <2>2
<1> QED
  BY <1>10, <1>12

-----------------------------------------------------------------------------
(* The actions                                                              *)

\* The types of everything but the actors.
RestOK ==
    /\ spawners \in [Effects -> {"free", "travel", "wait", "shrink"}]
    /\ floor \in Floors
    /\ script \in [gate : {"entry", "exit", "complete"}, encounter : BOOLEAN, defeated : BOOLEAN]
    /\ records \in [Floors -> Kinds \cup {None}]
    /\ census \in 0 .. CountModulus - 1
    /\ drops \in [Slots -> Nat]
    /\ slain \subseteq Floors \X Slots

\* PoolInv in the two parts the actions are looked at by.
LEMMA PoolParts == PoolInv => actors \in [Slots -> Living] /\ RestOK
BY DEF PoolInv, TypeOK, RestOK, Kinds

\* PoolInv in the next state, from its two parts.
LEMMA PoolNext == ASSUME actors' \in [Slots -> Living], RestOK' PROVE PoolInv'
<1>1. Living \subseteq Actor
  BY DEF Living
<1>2. actors' \in [Slots -> Actor]
  BY <1>1
<1> QED
  BY <1>2 DEF PoolInv, TypeOK, RestOK, Kinds

\* The count of a cell stays within its bits.
LEMMA CountedType ==
    ASSUME census \in 0 .. CountModulus - 1, NEW delta \in Int, Counted(delta)
    PROVE  census' \in 0 .. CountModulus - 1
BY ConstantTypes DEF Counted

\* One record of the pool is replaced.
LEMMA PutLiving ==
    ASSUME actors \in [Slots -> Living], NEW a \in Slots, NEW q \in Living, Put(a, q)
    PROVE  actors' \in [Slots -> Living]
BY DEF Put

\* A selection after an action that was not a death and has ended.
LEMMA CompletedSelected ==
    ASSUME NEW a, NEW r \in Living, r.action \notin {"dying", "gone"}, NEW fx,
           NEW s \in Selected(a, [r EXCEPT !.progress = Complete], fx)
    PROVE  s \in Living
<1>1. [r EXCEPT !.progress = Complete] \in Living
  BY CompletedLiving
<1> QED
  BY <1>1, SelectedLiving

\* An actor that is born is counted, and its new life has no drop.
LEMMA BirthTypes ==
    ASSUME RestOK, NEW a \in Slots, NEW r, Counted(Gain(a, r)), drops' = Lives(a, r)
    PROVE  census' \in 0 .. CountModulus - 1 /\ drops' \in [Slots -> Nat]
<1>1. Gain(a, r) \in Int
  BY DEF Gain
<1>2. Lives(a, r) \in [Slots -> Nat]
  BY DEF Lives, RestOK
<1> QED
  BY <1>1, <1>2, CountedType DEF RestOK

\* The visit of an actor: each of its actions leaves a Living record.
LEMMA SettlePool ==
    ASSUME PoolInv, NEW a \in Slots, NEW r \in Living, Settle(a, r) PROVE PoolInv'
<1>1. actors' \in [Slots -> Living]
  BY PutLiving DEF Settle, PoolInv
<1>2. RestOK'
  BY PoolParts DEF Settle, RestOK
<1> QED
  BY <1>1, <1>2, PoolNext

\* An action that is not tracked runs on, or ends in a selection.
LEMMA OtherPool ==
    ASSUME PoolInv, NEW a \in Slots, NEW r \in Living, Other(a, r) PROVE PoolInv'
<1>1. PICK q \in {[r EXCEPT !.progress = p] :
                     p \in IF r.progress = Starting THEN {Running, Locked} ELSE {r.progress}}
                \cup Selected(a, [r EXCEPT !.progress = Complete], spawners) : Put(a, q)
  BY DEF Other
<1>2. q \in Living
  <2>1. CASE q \in Selected(a, [r EXCEPT !.progress = Complete], spawners)
    BY <2>1, CompletedSelected DEF Other
  <2>2. CASE r.progress = Starting /\ \E p \in {Running, Locked} : q = [r EXCEPT !.progress = p]
    BY <2>2, CompletedLiving DEF Other
  <2>3. CASE q = [r EXCEPT !.progress = r.progress]
    <3>1. q = r
      BY <2>3, LivingType DEF Actor
    <3> QED
      BY <3>1
  <2> QED
    BY <1>1, <2>1, <2>2, <2>3
<1>3. actors' \in [Slots -> Living]
  BY <1>1, <1>2, PutLiving DEF PoolInv
<1>4. RestOK'
  BY PoolParts, BirthTypes DEF Other, RestOK
<1> QED
  BY <1>3, <1>4, PoolNext

\* The way out of a lair runs on, or ends in a selection.
LEMMA ExitPool ==
    ASSUME PoolInv, NEW a \in Slots, NEW r \in Living, Exit(a, r) PROVE PoolInv'
<1>1. PICK q \in {[r EXCEPT !.progress = Running]}
                \cup Selected(a, [r EXCEPT !.progress = Complete], spawners) : Put(a, q)
  BY DEF Exit
<1>2. q \in Living
  BY <1>1, CompletedSelected, CompletedLiving DEF Exit
<1>3. actors' \in [Slots -> Living]
  BY <1>1, <1>2, PutLiving DEF PoolInv
<1>4. RestOK'
  BY PoolParts, BirthTypes DEF Exit, RestOK
<1> QED
  BY <1>3, <1>4, PoolNext

\* A reaction to a blow is animated and ends in a selection.
LEMMA HitReactionPool ==
    ASSUME PoolInv, NEW a \in Slots, NEW r \in Living, HitReaction(a, r) PROVE PoolInv'
<1> DEFINE q == Advanced(r, Running)
<1>1. q \in Living /\ q.action = "hit"
  BY AdvancedLiving DEF HitReaction
<1>2. Put(a, q) \/ \E s \in Selected(a, [q EXCEPT !.progress = Complete], spawners) : Put(a, s)
  BY DEF HitReaction
<1> HIDE DEF q
<1>3. actors' \in [Slots -> Living]
  BY <1>1, <1>2, CompletedSelected, PutLiving DEF PoolInv
<1>4. RestOK'
  BY PoolParts DEF HitReaction, RestOK
<1> QED
  BY <1>3, <1>4, PoolNext

\* A summon is animated, constructs effects on the way and ends in a selection.
LEMMA SummonPool ==
    ASSUME PoolInv, NEW a \in Slots, NEW r \in Living, Summon(a, r) PROVE PoolInv'
<1> DEFINE q == Advanced(r, Locked)
<1>1. q \in Living /\ q.action = "summon"
  BY AdvancedLiving DEF Summon
<1>2. \E fx : /\ fx \in Constructed(spawners) \cup {spawners} /\ spawners' = fx
              /\ \/ Put(a, q)
                 \/ \E s \in Selected(a, [q EXCEPT !.progress = Complete], fx) : Put(a, s)
  BY DEF Summon
<1> HIDE DEF q
<1>3. actors' \in [Slots -> Living]
  BY <1>1, <1>2, CompletedSelected, PutLiving DEF PoolInv
<1>4. spawners' \in [Effects -> {"free", "travel", "wait", "shrink"}]
  BY <1>2, PoolParts DEF Constructed, RestOK
<1>5. RestOK'
  BY <1>4, PoolParts, BirthTypes DEF Summon, RestOK
<1> QED
  BY <1>3, <1>5, PoolNext

\* A death is animated until the actor is gone, and counts a drop on the way.
LEMMA DyingPool ==
    ASSUME PoolInv, NEW a \in Slots, NEW r \in Living, Dying(a, r) PROVE PoolInv'
<1> DEFINE q == Advanced(r, Running)
<1>1. q \in Living /\ q.action = "dying"
  BY AdvancedLiving DEF Dying
<1>2. Put(a, IF q.phase < PhaseMax THEN q ELSE SetAction(q, "gone"))
  BY DEF Dying
<1> HIDE DEF q
<1>3. SetAction(q, "gone") \in Living
  <2>1. q \in Actor
    BY <1>1, LivingType
  <2> DEFINE g == SetAction(q, "gone")
  <2>2. g \in Actor /\ g.action = "gone" /\ g.progress = Starting
    BY <2>1, Ranges DEF SetAction, Actor
  <2> QED
    BY <2>2 DEF Living, LifeOK, Starting, Locked, Complete
<1>4. actors' \in [Slots -> Living]
  BY <1>1, <1>2, <1>3, PutLiving DEF PoolInv
<1>5. RestOK'
  <2>1. drops' \in [Slots -> Nat]
    BY PoolParts DEF Dying, RestOK
  <2> QED
    BY <2>1, PoolParts DEF Dying, RestOK
<1> QED
  BY <1>4, <1>5, PoolNext

\* The death of the boss ends with those of his parts.
LEMMA BossDyingPool ==
    ASSUME PoolInv, NEW a \in Slots, NEW r \in Living, BossDying(a, r) PROVE PoolInv'
<1> DEFINE q == Advanced(r, Running)
           base == [actors EXCEPT ![a] = Resting(q, "disabled")]
<1>1. q \in Living /\ q \in Actor
  BY AdvancedLiving, LivingType DEF BossDying
<1>2. Put(a, q) \/ actors' \in BeginDeaths(base)
  BY DEF BossDying
<1> HIDE DEF q
<1>3. base \in [Slots -> Living]
  BY <1>1, RestingLiving DEF PoolInv
<1> HIDE DEF base
<1>4. actors' \in [Slots -> Living]
  BY <1>1, <1>2, <1>3, BeginDeathsLiving, PutLiving DEF PoolInv
<1>5. census' \in 0 .. CountModulus - 1
  BY PoolParts, CountedType DEF BossDying, RestOK
<1>6. script' = script \/ script' = [script EXCEPT !.defeated = TRUE]
  BY DEF BossDying
<1>7. script' \in [gate : {"entry", "exit", "complete"}, encounter : BOOLEAN, defeated : BOOLEAN]
  BY <1>6, PoolParts DEF RestOK
<1>8. slain' \subseteq Floors \X Slots
  BY PoolParts DEF BossDying, RestOK
<1>9. RestOK'
  BY <1>5, <1>7, <1>8, PoolParts DEF BossDying, RestOK
<1> QED
  BY <1>4, <1>9, PoolNext

\* Who transforms begins another life.
LEMMA TransformPool ==
    ASSUME PoolInv, NEW a \in Slots, NEW r \in Living, Transform(a, r) PROVE PoolInv'
<1> DEFINE t == [r EXCEPT !.definition = Result]
<1>1. t \in Actor
  BY LivingType, ConstantTypes DEF Actor
<1>2. Put(a, Initialized(t))
  BY DEF Transform
<1> HIDE DEF t
<1>3. actors' \in [Slots -> Living]
  BY <1>1, <1>2, InitializedLiving, PutLiving DEF PoolInv
<1>4. RestOK'
  BY PoolParts DEF Transform, RestOK
<1> QED
  BY <1>3, <1>4, PoolNext

\* Who is gone waits, then rests.
LEMMA PostDeathPool ==
    ASSUME PoolInv, NEW a \in Slots, NEW r \in Living, PostDeath(a, r) PROVE PoolInv'
<1>1. r \in Actor /\ LifeOK(r) /\ r.action = "gone"
  BY LivingType DEF PostDeath
<1>2. CASE r.progress < PostDeathEnd
  <2> DEFINE q == [r EXCEPT !.progress = @ + 1]
  <2>1. r.progress + 1 \in 0 .. PostDeathEnd /\ r.progress + 1 \notin {Locked, Complete}
    BY <1>1, <1>2, ConstantTypes DEF Actor, Locked, Complete, Running
  <2>2. /\ q \in Actor /\ q.progress = r.progress + 1 /\ q.action = "gone"
    BY <1>1, <2>1 DEF Actor
  <2>3. q \in Living
    BY <2>1, <2>2 DEF Living, LifeOK
  <2>4. Put(a, q) /\ UNCHANGED <<census, slain>>
    BY <1>2 DEF PostDeath
  <2> HIDE DEF q
  <2>5. actors' \in [Slots -> Living]
    BY <2>3, <2>4, PutLiving DEF PoolInv
  <2>6. RestOK'
    BY <2>4, PoolParts DEF PostDeath, RestOK
  <2> QED
    BY <2>5, <2>6, PoolNext
<1>3. CASE ~(r.progress < PostDeathEnd)
  <2>1. \E l \in {"dormant", "waiting", "disabled"} : Put(a, Resting(r, l))
    BY <1>3 DEF PostDeath
  <2>2. actors' \in [Slots -> Living]
    BY <1>1, <2>1, RestingLiving, PutLiving DEF PoolInv
  <2>3. census' \in 0 .. CountModulus - 1
    BY <1>3, PoolParts, CountedType DEF PostDeath, RestOK
  <2>4. slain' \subseteq Floors \X Slots
    BY <1>3, PoolParts DEF PostDeath, RestOK
  <2>5. RestOK'
    BY <2>3, <2>4, PoolParts DEF PostDeath, RestOK
  <2> QED
    BY <2>2, <2>5, PoolNext
<1> QED
  BY <1>2, <1>3

\* A visit is one of these, on the record awareness left.
LEMMA VisitPool == ASSUME PoolInv, NEW a \in Slots, Visit(a) PROVE PoolInv'
<1>1. PICK r \in Aware(a) :
         \/ Settle(a, r)
         \/ /\ r.lifecycle = "active"
            /\ \/ Other(a, r) \/ Exit(a, r) \/ HitReaction(a, r) \/ Summon(a, r)
               \/ Dying(a, r) \/ BossDying(a, r) \/ Transform(a, r) \/ PostDeath(a, r)
  BY DEF Visit
<1>2. r \in Living
  BY AwareLiving DEF PoolInv
<1> QED
  BY <1>1, <1>2, SettlePool, OtherPool, ExitPool, HitReactionPool, SummonPool, DyingPool,
     BossDyingPool, TransformPool, PostDeathPool

\* Blows, summons, scripts and the change of a floor.
LEMMA DamagePool == ASSUME PoolInv, NEW a \in Slots, Damage(a) PROVE PoolInv'
<1>1. actors[a] \in Living /\ actors[a] \in Actor
  BY LivingType DEF PoolInv
<1>2. PICK damage \in 1 .. actors[a].health + 1 :
         LET r == actors[a]
             left == [r EXCEPT !.health = IF damage >= r.health THEN 0 ELSE r.health - damage]
         IN  actors' \in {[actors EXCEPT ![a] = s] :
                s \in CASE left.health = 0 /\ r.definition \in WithDeath -> Struck(left, "dying")
                        [] left.health # 0 /\ r.definition \in WithHit -> Struck(left, "hit")
                        [] OTHER -> {left}}
  BY DEF Damage
<1> DEFINE r == actors[a]
           rest == IF damage >= r.health THEN 0 ELSE r.health - damage
           left == [r EXCEPT !.health = rest]
<1>3. rest \in Nat
  BY <1>1 DEF Actor
<1>4. /\ left \in Actor /\ left.health = rest /\ left.action = r.action /\ left.progress = r.progress
      /\ left.lifecycle = r.lifecycle /\ left.definition = r.definition
  BY <1>1, <1>3 DEF Actor
<1>5. PICK s \in CASE left.health = 0 /\ r.definition \in WithDeath -> Struck(left, "dying")
                   [] left.health # 0 /\ r.definition \in WithHit -> Struck(left, "hit")
                   [] OTHER -> {left} : Put(a, s)
  BY <1>2 DEF Put
<1>6. \/ left.health = 0 /\ r.definition \in WithDeath /\ s \in Struck(left, "dying")
      \/ left.health # 0 /\ s \in Struck(left, "hit")
      \/ ~(left.health = 0 /\ r.definition \in WithDeath) /\ s = left
  <2> HIDE DEF left, r
  <2>1. CASE left.health = 0 /\ r.definition \in WithDeath
    BY <2>1, <1>5
  <2>2. CASE left.health # 0 /\ r.definition \in WithHit
    BY <2>2, <1>5
  <2>3. CASE ~(left.health = 0 /\ r.definition \in WithDeath) /\ ~(left.health # 0 /\ r.definition \in WithHit)
    BY <2>3, <1>5
  <2> QED
    BY <2>1, <2>2, <2>3
<1>7. LifeOK(r)
  BY <1>1, LivingType
<1>8. s = left /\ ~(left.health = 0 /\ r.definition \in WithDeath) => s \in Living
  BY <1>4, <1>7 DEF Living, LifeOK
<1> HIDE DEF left, r
<1>9. s \in Living
  BY <1>4, <1>6, <1>8, StruckLiving
<1>10. actors' \in [Slots -> Living]
  BY <1>5, <1>9, PutLiving DEF PoolInv
<1>11. RestOK'
  BY PoolParts DEF Damage, RestOK
<1> QED
  BY <1>10, <1>11, PoolNext

\* The free slot a summon takes is free.
LEMMA FirstFree ==
    ASSUME Free # {} PROVE (CHOOSE s \in Free : \A t \in Free : s <= t) \in Free
<1> DEFINE Less == OpToRel(<, Nat)
<1>1. Free \subseteq Nat
  BY DEF Free, Slots
<1>2. IsWellFoundedOn(Less, Nat)
  BY NatLessThanWellFounded
<1>3. \A x, y \in Nat : ~(<<y, x>> \in Less) => x <= y
  BY DEF OpToRel
<1> HIDE DEF Less
<1>4. PICK s \in Free : \A t \in Free : ~(<<t, s>> \in Less)
  BY <1>1, <1>2, WFMin
<1>5. \A t \in Free : s <= t
  BY <1>1, <1>3, <1>4
<1> QED
  BY <1>5

\* A summoning effect initializes a free slot, or finds none.
LEMMA SummonArrivesPool == ASSUME PoolInv, NEW e \in Effects, SummonArrives(e) PROVE PoolInv'
<1>1. spawners' \in [Effects -> {"free", "travel", "wait", "shrink"}]
  BY PoolParts DEF SummonArrives, RestOK
<1>2. CASE Free = {}
  <2>1. UNCHANGED <<actors, census, drops>>
    BY <1>2 DEF SummonArrives
  <2>2. RestOK'
    BY <1>1, <2>1, PoolParts DEF SummonArrives, RestOK
  <2> QED
    BY <2>1, <2>2, PoolParts, PoolNext
<1>3. CASE Free # {}
  <2> DEFINE b == CHOOSE s \in Free : \A t \in Free : s <= t
  <2>1. b \in Slots
    BY <1>3, FirstFree DEF Free
  <2> HIDE DEF b
  <2>2. /\ \E d \in Summoned :
             Put(b, SetAction(Initialized([actors[b] EXCEPT !.slot = "dynamic", !.definition = d]), "other"))
        /\ drops' = [drops EXCEPT ![b] = 0]
        /\ Counted(1)
    BY <1>3 DEF SummonArrives, b
  <2>3. PICK d \in Summoned :
             Put(b, SetAction(Initialized([actors[b] EXCEPT !.slot = "dynamic", !.definition = d]), "other"))
    BY <2>2
  <2> DEFINE bare == [actors[b] EXCEPT !.slot = "dynamic", !.definition = d]
  <2>4. bare \in Actor
    <3>1. actors[b] \in Actor /\ d \in Definitions
      BY <2>1, ConstantTypes, LivingType DEF PoolInv
    <3> QED
      BY <3>1 DEF Actor, SlotStates
  <2> HIDE DEF bare
  <2>5. SetAction(Initialized(bare), "other") \in Living
    BY <2>4, InitializedLiving, SetActionLiving
  <2>6. actors' \in [Slots -> Living]
    BY <2>1, <2>3, <2>5, PutLiving DEF PoolInv, bare
  <2>7. census' \in 0 .. CountModulus - 1
    BY <2>2, PoolParts, CountedType DEF RestOK
  <2>8. drops' \in [Slots -> Nat]
    BY <2>2, PoolParts DEF RestOK
  <2>9. RestOK'
    BY <1>1, <2>7, <2>8, PoolParts DEF SummonArrives, RestOK
  <2> QED
    BY <2>6, <2>9, PoolNext
<1> QED
  BY <1>2, <1>3

\* A summoning effect travels or shrinks.
LEMMA SummonMovesPool == ASSUME PoolInv, NEW e \in Effects, SummonMoves(e) PROVE PoolInv'
<1>1. spawners' \in [Effects -> {"free", "travel", "wait", "shrink"}]
  BY PoolParts DEF SummonMoves, RestOK
<1> QED
  BY <1>1, PoolParts, PoolNext DEF SummonMoves, RestOK

\* The scripts of the gate and of the boss.
LEMMA ScriptPool == ASSUME PoolInv, EnterGate \/ LeaveGate \/ MeetBoss PROVE PoolInv'
<1>1. script' \in [gate : {"entry", "exit", "complete"}, encounter : BOOLEAN, defeated : BOOLEAN]
  BY PoolParts DEF EnterGate, LeaveGate, MeetBoss, RestOK
<1>2. CASE EnterGate \/ MeetBoss \/ (LeaveGate /\ UNCHANGED <<actors, census, drops>>)
  BY <1>1, <1>2, PoolParts, PoolNext DEF EnterGate, LeaveGate, MeetBoss, RestOK
<1>3. CASE LeaveGate /\ actors[GateSlot].slot # "free"
  <2>1. /\ Put(GateSlot, Initialized(actors[GateSlot]))
        /\ drops' = [drops EXCEPT ![GateSlot] = 0]
        /\ Counted(1)
    BY <1>3 DEF LeaveGate
  <2>2. GateSlot \in Slots /\ actors[GateSlot] \in Actor
    BY ConstantTypes, LivingType DEF PoolInv
  <2>3. actors' \in [Slots -> Living]
    BY <2>1, <2>2, InitializedLiving, PutLiving DEF PoolInv
  <2>4. census' \in 0 .. CountModulus - 1
    BY <2>1, PoolParts, CountedType DEF RestOK
  <2>5. drops' \in [Slots -> Nat]
    BY <2>1, PoolParts DEF RestOK
  <2> QED
    BY <1>1, <1>3, <2>3, <2>4, <2>5, PoolParts, PoolNext DEF LeaveGate, RestOK
<1> QED
  BY <1>2, <1>3 DEF LeaveGate

\* What a floor's record keeps is the kind of thing a load reads.
LEMMA KeptTypes ==
    ASSUME RestOK, NEW f \in Floors
    PROVE  [records EXCEPT ![floor] = Persisted] \in [Floors -> Kinds \cup {None}]
BY DEF RestOK, Persisted, Kinds

\* A change of floor records the pool and loads another.
LEMMA ChangeFloorPool == ASSUME PoolInv, NEW f \in Floors, ChangeFloor(f) PROVE PoolInv'
<1> DEFINE kept == [records EXCEPT ![floor] = Persisted]
<1>1. kept \in [Floors -> Kinds \cup {None}]
  BY PoolParts, KeptTypes
<1>2. records' = kept /\ actors' = Loaded(f, kept)
  BY DEF ChangeFloor
<1> HIDE DEF kept
<1>3. actors' \in [Slots -> Living]
  BY <1>1, <1>2, LoadedLiving
<1>4. /\ floor' \in Floors /\ spawners' \in [Effects -> {"free", "travel", "wait", "shrink"}]
      /\ census' \in 0 .. CountModulus - 1 /\ drops' \in [Slots -> Nat]
  BY ConstantTypes DEF ChangeFloor
<1>5. RestOK'
  BY <1>1, <1>2, <1>4, PoolParts DEF ChangeFloor, RestOK
<1> QED
  BY <1>3, <1>5, PoolNext

\* A new game has its first floor loaded.
LEMMA InitPool == Init => PoolInv
<1> SUFFICES ASSUME Init PROVE PoolInv
  OBVIOUS
<1>1. FirstFloor \in Floors
  BY ActorAssumption
<1>2. records \in [Floors -> Kinds \cup {None}]
  BY DEF Init
<1>3. actors \in [Slots -> Living]
  BY <1>1, <1>2, LoadedLiving DEF Init
<1>4. actors \in [Slots -> Actor]
  <2>1. Living \subseteq Actor
    BY DEF Living
  <2> QED
    BY <1>3, <2>1
<1>5. census \in 0 .. CountModulus - 1
  BY ConstantTypes DEF Init
<1>6. script \in [gate : {"entry", "exit", "complete"}, encounter : BOOLEAN, defeated : BOOLEAN]
  BY DEF Init
<1> QED
  BY <1>1, <1>2, <1>3, <1>4, <1>5, <1>6 DEF Init, PoolInv, TypeOK, Kinds

\* PoolInv is inductive.
LEMMA NextPool == PoolInv /\ [Next]_vars => PoolInv'
<1> SUFFICES ASSUME PoolInv, [Next]_vars PROVE PoolInv'
  OBVIOUS
<1>1. CASE UNCHANGED vars
  BY <1>1 DEF PoolInv, TypeOK, vars
<1>2. CASE Next
  BY <1>2, VisitPool, DamagePool, SummonArrivesPool, SummonMovesPool, ScriptPool, ChangeFloorPool DEF Next
<1> QED
  BY <1>1, <1>2

-----------------------------------------------------------------------------
(* The slain.  An actor's slot says whether its placement keeps it, no step  *)
(* but a summon's or a load's changes the slot, and nobody slain is gated.   *)

Native == \A b \in Slots :
             \/ actors[b].slot = Placements[floor][b].slot
             \/ Placements[floor][b].slot = "free" /\ actors[b].slot = "dynamic"
SlainKept == \A fa \in slain : Placements[fa[1]][fa[2]].slot \in Kept
GateHeld ==
    script.gate # "complete" =>
        /\ <<GateFloor, GateSlot>> \notin slain
        /\ floor = GateFloor /\ Placements[floor][GateSlot].slot # "free"
             => actors[GateSlot].lifecycle = "disabled"
SlainInv == Native /\ SlainKept /\ GateHeld /\ SlainStaySlain

\* A step that loads no floor, fills no slot and opens no gate: the disabled stay
\* so, and who joins the slain is disabled by it.
Steady(a) ==
    /\ \A b \in Slots : /\ actors'[b].slot = actors[b].slot
                        /\ (actors[b].lifecycle = "disabled" => actors'[b].lifecycle = "disabled")
    /\ floor' = floor /\ records' = records /\ script'.gate = script.gate
    /\ \/ slain' = slain
       \/ /\ actors[a].slot \in Kept /\ actors[a].lifecycle # "disabled"
          /\ actors'[a].lifecycle = "disabled" /\ slain' = slain \cup {<<floor, a>>}

\* A visit that replaces the record of its slot is Steady.
LEMMA PutSteady ==
    ASSUME PoolInv, NEW a \in Slots, NEW q, Put(a, q), q.slot = actors[a].slot,
           actors[a].lifecycle # "disabled" \/ q.lifecycle = "disabled",
           floor' = floor, records' = records, script' = script,
           \/ slain' = slain
           \/ /\ actors[a].slot \in Kept /\ actors[a].lifecycle # "disabled"
              /\ q.lifecycle = "disabled" /\ slain' = slain \cup {<<floor, a>>}
    PROVE  Steady(a)
<1>1. actors'[a] = q /\ \A b \in Slots \ {a} : actors'[b] = actors[b]
  BY DEF Put, PoolInv
<1> QED
  BY <1>1 DEF Steady

\* An action other than a death ends in a record of the same slot.
LEMMA EndedSlot ==
    ASSUME NEW a, NEW r \in Living, r.action \notin {"dying", "gone"}, NEW fx,
           NEW s \in Selected(a, [r EXCEPT !.progress = Complete], fx)
    PROVE  s.slot = r.slot
<1> DEFINE q == [r EXCEPT !.progress = Complete]
<1>1. q \in Living /\ q.slot = r.slot /\ s \in Selected(a, q, fx)
  BY CompletedLiving
<1> HIDE DEF q
<1> QED
  BY <1>1, SelectedLiving

\* Actions that end no life leave the actor in its slot.
LEMMA ActionSlot ==
    ASSUME NEW a \in Slots, NEW r \in Living,
           Other(a, r) \/ Exit(a, r) \/ HitReaction(a, r) \/ Summon(a, r) \/ Dying(a, r) \/ Transform(a, r)
    PROVE  \E q : Put(a, q) /\ q.slot = r.slot
<1>1. r \in Actor
  BY LivingType
<1>2. CASE Other(a, r)
  <2>1. PICK q \in {[r EXCEPT !.progress = p] :
                       p \in IF r.progress = Starting THEN {Running, Locked} ELSE {r.progress}}
                  \cup Selected(a, [r EXCEPT !.progress = Complete], spawners) : Put(a, q)
    BY <1>2 DEF Other
  <2>2. CASE q \in Selected(a, [r EXCEPT !.progress = Complete], spawners)
    BY <2>1, <2>2, <1>2, EndedSlot DEF Other
  <2>3. CASE \E p : q = [r EXCEPT !.progress = p]
    BY <2>1, <2>3, <1>1 DEF Actor
  <2> QED
    BY <2>1, <2>2, <2>3
<1>3. CASE Exit(a, r)
  <2>1. PICK q \in {[r EXCEPT !.progress = Running]}
                  \cup Selected(a, [r EXCEPT !.progress = Complete], spawners) : Put(a, q)
    BY <1>3 DEF Exit
  <2>2. CASE q \in Selected(a, [r EXCEPT !.progress = Complete], spawners)
    BY <2>1, <2>2, <1>3, EndedSlot DEF Exit
  <2>3. CASE q = [r EXCEPT !.progress = Running]
    BY <2>1, <2>3, <1>1 DEF Actor
  <2> QED
    BY <2>1, <2>2, <2>3
<1>4. CASE HitReaction(a, r)
  <2> DEFINE q == Advanced(r, Running)
  <2>1. q \in Living /\ q.action = "hit" /\ q.slot = r.slot
    BY <1>4, AdvancedLiving DEF HitReaction
  <2>2. Put(a, q) \/ \E s \in Selected(a, [q EXCEPT !.progress = Complete], spawners) : Put(a, s)
    BY <1>4 DEF HitReaction
  <2> HIDE DEF q
  <2> QED
    BY <2>1, <2>2, EndedSlot
<1>5. CASE Summon(a, r)
  <2> DEFINE q == Advanced(r, Locked)
  <2>1. q \in Living /\ q.action = "summon" /\ q.slot = r.slot
    BY <1>5, AdvancedLiving DEF Summon
  <2>2. \E fx : Put(a, q) \/ \E s \in Selected(a, [q EXCEPT !.progress = Complete], fx) : Put(a, s)
    BY <1>5 DEF Summon
  <2> HIDE DEF q
  <2> QED
    BY <2>1, <2>2, EndedSlot
<1>6. CASE Dying(a, r)
  <2> DEFINE q == Advanced(r, Running)
  <2>1. q \in Living /\ q \in Actor /\ q.slot = r.slot
    BY <1>6, AdvancedLiving, LivingType DEF Dying
  <2>2. Put(a, IF q.phase < PhaseMax THEN q ELSE SetAction(q, "gone"))
    BY <1>6 DEF Dying
  <2> HIDE DEF q
  <2>3. SetAction(q, "gone").slot = q.slot
    BY <2>1 DEF SetAction, Actor
  <2> QED
    BY <2>1, <2>2, <2>3
<1>7. CASE Transform(a, r)
  <2> DEFINE t == [r EXCEPT !.definition = Result]
  <2>1. t \in Actor /\ t.slot = r.slot
    BY <1>1, ConstantTypes DEF Actor
  <2>2. Put(a, Initialized(t))
    BY <1>7 DEF Transform
  <2> HIDE DEF t
  <2> QED
    BY <2>1, <2>2, InitializedLiving
<1> QED
  BY <1>2, <1>3, <1>4, <1>5, <1>6, <1>7

\* The boss's end moves nobody and revives nobody.
LEMMA BeginDeathsSteady ==
    ASSUME NEW pool \in [Slots -> Living], NEW p \in BeginDeaths(pool), NEW b \in Slots
    PROVE  p[b].slot = pool[b].slot /\ (pool[b].lifecycle = "disabled" => p[b].lifecycle = "disabled")
<1>1. pool[b] \in Living /\ pool[b] \in Actor
  BY LivingType
<1>2. p[b] \in {pool[b], Resting(pool[b], "disabled")} \cup Struck(pool[b], "dying")
  BY DEF BeginDeaths, MayBegin
<1> QED
  BY <1>1, <1>2, RestingLiving, StruckLiving

\* Every visit is Steady.
LEMMA VisitSteady == ASSUME PoolInv, NEW a \in Slots, Visit(a) PROVE Steady(a)
<1>1. PICK r \in Aware(a) :
         \/ Settle(a, r)
         \/ /\ r.lifecycle = "active"
            /\ \/ Other(a, r) \/ Exit(a, r) \/ HitReaction(a, r) \/ Summon(a, r)
               \/ Dying(a, r) \/ BossDying(a, r) \/ Transform(a, r) \/ PostDeath(a, r)
  BY DEF Visit
<1>2. r \in Living /\ r \in Actor /\ r.slot = actors[a].slot
  BY AwareLiving, LivingType DEF PoolInv
<1>3. actors[a].lifecycle = "disabled" => r = actors[a]
  BY DEF Aware
<1>4. CASE Settle(a, r)
  BY <1>2, <1>3, <1>4, PutSteady DEF Settle
<1>5. CASE /\ r.lifecycle = "active"
           /\ Other(a, r) \/ Exit(a, r) \/ HitReaction(a, r) \/ Summon(a, r) \/ Dying(a, r) \/ Transform(a, r)
  <2>1. floor' = floor /\ records' = records /\ script' = script /\ slain' = slain
    BY <1>5 DEF Other, Exit, HitReaction, Summon, Dying, Transform
  <2>2. PICK q : Put(a, q) /\ q.slot = r.slot
    BY <1>2, <1>5, ActionSlot
  <2> QED
    BY <1>2, <1>3, <1>5, <2>1, <2>2, PutSteady
<1>6. CASE r.lifecycle = "active" /\ BossDying(a, r)
  <2> DEFINE q == Advanced(r, Running)
             base == [actors EXCEPT ![a] = Resting(q, "disabled")]
  <2>1. q \in Living /\ q \in Actor /\ q.slot = r.slot
    BY <1>2, <1>6, AdvancedLiving, LivingType DEF BossDying
  <2>2. \/ Put(a, q) /\ UNCHANGED <<script, slain>>
        \/ /\ actors' \in BeginDeaths(base)
           /\ script' = [script EXCEPT !.defeated = TRUE]
           /\ slain' = IF r.slot \in Kept THEN slain \cup {<<floor, a>>} ELSE slain
    BY <1>6 DEF BossDying
  <2>3. floor' = floor /\ records' = records
    BY <1>6 DEF BossDying
  <2> HIDE DEF q
  <2>4. Resting(q, "disabled") \in Living /\ Resting(q, "disabled").slot = r.slot
        /\ Resting(q, "disabled").lifecycle = "disabled"
    BY <2>1, RestingLiving
  <2>5. /\ base \in [Slots -> Living] /\ base[a].slot = r.slot /\ base[a].lifecycle = "disabled"
        /\ \A b \in Slots \ {a} : base[b] = actors[b]
    BY <2>4 DEF PoolInv
  <2>6. CASE Put(a, q) /\ UNCHANGED <<script, slain>>
    BY <1>2, <1>3, <1>6, <2>1, <2>3, <2>6, PutSteady
  <2>7. CASE /\ actors' \in BeginDeaths(base)
             /\ script' = [script EXCEPT !.defeated = TRUE]
             /\ slain' = IF r.slot \in Kept THEN slain \cup {<<floor, a>>} ELSE slain
    <3> HIDE DEF base
    <3>1. \A b \in Slots : /\ actors'[b].slot = base[b].slot
                           /\ (base[b].lifecycle = "disabled" => actors'[b].lifecycle = "disabled")
      BY <2>5, <2>7, BeginDeathsSteady
    <3>2. script'.gate = script.gate
      BY <2>7, PoolParts DEF RestOK
    <3>3. actors[a].lifecycle # "disabled"
      BY <1>3, <1>6
    <3> QED
      BY <1>2, <2>3, <2>5, <2>7, <3>1, <3>2, <3>3 DEF Steady
  <2> QED
    BY <2>2, <2>6, <2>7
<1>7. CASE r.lifecycle = "active" /\ PostDeath(a, r)
  <2>1. floor' = floor /\ records' = records /\ script' = script
    BY <1>7 DEF PostDeath
  <2>2. CASE r.progress < PostDeathEnd
    <3>1. Put(a, [r EXCEPT !.progress = @ + 1]) /\ slain' = slain
      BY <1>7, <2>2 DEF PostDeath
    <3>2. [r EXCEPT !.progress = @ + 1].slot = r.slot
      BY <1>2 DEF Actor
    <3> QED
      BY <1>2, <1>3, <1>7, <2>1, <3>1, <3>2, PutSteady
  <2>3. CASE ~(r.progress < PostDeathEnd)
    <3>1. PICK l \in {"dormant", "waiting", "disabled"} :
             /\ Put(a, Resting(r, l))
             /\ (r.slot \in Kept => l = "disabled")
             /\ slain' = IF r.slot \in Kept THEN slain \cup {<<floor, a>>} ELSE slain
      <4>1. r.slot = "respawning" => r.slot \notin Kept
        BY DEF Kept
      <4> QED
        BY <1>7, <2>3, <4>1 DEF PostDeath
    <3>2. Resting(r, l).slot = r.slot /\ Resting(r, l).lifecycle = l
      BY <1>2, RestingLiving
    <3>3. actors[a].lifecycle # "disabled"
      BY <1>3, <1>7
    <3> QED
      BY <1>2, <2>1, <3>1, <3>2, <3>3, PutSteady
  <2> QED
    BY <2>2, <2>3
<1> QED
  BY <1>1, <1>4, <1>5, <1>6, <1>7

\* A blow is Steady.
LEMMA DamageSteady == ASSUME PoolInv, NEW a \in Slots, Damage(a) PROVE Steady(a)
<1>1. actors[a] \in Living /\ actors[a] \in Actor
  BY LivingType DEF PoolInv
<1>2. PICK damage \in 1 .. actors[a].health + 1 :
         LET r == actors[a]
             left == [r EXCEPT !.health = IF damage >= r.health THEN 0 ELSE r.health - damage]
         IN  actors' \in {[actors EXCEPT ![a] = s] :
                s \in CASE left.health = 0 /\ r.definition \in WithDeath -> Struck(left, "dying")
                        [] left.health # 0 /\ r.definition \in WithHit -> Struck(left, "hit")
                        [] OTHER -> {left}}
  BY DEF Damage
<1> DEFINE r == actors[a]
           rest == IF damage >= r.health THEN 0 ELSE r.health - damage
           left == [r EXCEPT !.health = rest]
<1>3. rest \in Nat
  BY <1>1 DEF Actor
<1>4. left \in Actor /\ left.slot = r.slot
  BY <1>1, <1>3 DEF Actor
<1>5. PICK s \in CASE left.health = 0 /\ r.definition \in WithDeath -> Struck(left, "dying")
                   [] left.health # 0 /\ r.definition \in WithHit -> Struck(left, "hit")
                   [] OTHER -> {left} : Put(a, s)
  BY <1>2 DEF Put
<1> HIDE DEF left, r
<1>6. \/ left.health = 0 /\ s \in Struck(left, "dying")
      \/ left.health # 0 /\ s \in Struck(left, "hit")
      \/ s = left
  <2>1. CASE left.health = 0 /\ r.definition \in WithDeath
    BY <2>1, <1>5
  <2>2. CASE left.health # 0 /\ r.definition \in WithHit
    BY <2>2, <1>5
  <2>3. CASE ~(left.health = 0 /\ r.definition \in WithDeath) /\ ~(left.health # 0 /\ r.definition \in WithHit)
    BY <2>3, <1>5
  <2> QED
    BY <2>1, <2>2, <2>3
<1>7. s.slot = actors[a].slot
  BY <1>4, <1>6, StruckLiving DEF r
<1>8. actors[a].lifecycle # "disabled" /\ floor' = floor /\ records' = records /\ script' = script /\ slain' = slain
  BY DEF Damage
<1> QED
  BY <1>5, <1>7, <1>8, PutSteady

\* A steady step keeps the slain slain: whoever joins them is of a kept slot and
\* was not disabled, so was not the gated actor.
LEMMA SteadySlain == ASSUME PoolInv, SlainInv, NEW a \in Slots, Steady(a) PROVE SlainInv'
<1>1. Native'
  BY DEF SlainInv, Native, Steady
<1>2. actors[a].slot \in Kept => Placements[floor][a].slot = actors[a].slot
  BY DEF SlainInv, Native, Kept
<1>3. SlainKept'
  BY <1>2 DEF SlainInv, SlainKept, Steady
<1>4. GateHeld'
  <2> SUFFICES ASSUME script'.gate # "complete" PROVE GateHeld'
    BY DEF GateHeld
  <2>1. script.gate # "complete"
    BY DEF Steady
  <2>2. floor = GateFloor /\ Placements[floor][GateSlot].slot # "free" => actors'[GateSlot].lifecycle = "disabled"
    BY <2>1, ConstantTypes DEF Steady, SlainInv, GateHeld
  <2>3. <<GateFloor, GateSlot>> \notin slain'
    <3>1. CASE slain' = slain
      BY <3>1, <2>1 DEF SlainInv, GateHeld
    <3>2. CASE /\ actors[a].slot \in Kept /\ actors[a].lifecycle # "disabled"
               /\ slain' = slain \cup {<<floor, a>>}
      <4>1. ~(floor = GateFloor /\ a = GateSlot)
        BY <1>2, <2>1, <3>2 DEF SlainInv, GateHeld, Kept
      <4> QED
        BY <2>1, <3>2, <4>1 DEF SlainInv, GateHeld
    <3> QED
      BY <3>1, <3>2 DEF Steady
  <2> QED
    BY <2>2, <2>3 DEF GateHeld, Steady
<1>5. SlainStaySlain'
  <2> SUFFICES ASSUME NEW fa \in slain'
               PROVE  IF fa[1] = floor' THEN actors'[fa[2]].lifecycle = "disabled"
                      ELSE records'[fa[1]] # None /\ records'[fa[1]][fa[2]] = "disabled"
    BY DEF SlainStaySlain
  <2>1. CASE fa \in slain
    <3>1. fa[2] \in Slots
      BY <2>1 DEF PoolInv, TypeOK
    <3> QED
      BY <2>1, <3>1 DEF SlainInv, SlainStaySlain, Steady
  <2>2. CASE fa = <<floor, a>> /\ actors'[a].lifecycle = "disabled"
    BY <2>2 DEF Steady
  <2> QED
    BY <2>1, <2>2 DEF Steady
<1> QED
  BY <1>1, <1>3, <1>4, <1>5 DEF SlainInv

\* A load keeps the placements' slots, disables whom a record says disabled, and
\* disables the gated actor until the gate's script is complete.
LEMMA LoadedSlots ==
    ASSUME NEW f \in Floors, NEW kept \in [Floors -> Kinds \cup {None}], NEW b \in Slots
    PROVE  /\ Loaded(f, kept)[b].slot = Placements[f][b].slot
           /\ kept[f] # None /\ kept[f][b] = "disabled" => Loaded(f, kept)[b].lifecycle = "disabled"
           /\ f = GateFloor /\ b = GateSlot /\ script.gate # "complete" /\ Placements[f][b].slot # "free"
                => Loaded(f, kept)[b].lifecycle = "disabled"
<1>1. Placed(f)[b].slot = Placements[f][b].slot
  BY DEF Placed, Resting
<1> DEFINE old == Restored(f, kept)
           new == Gated(f, old)
<1>2. old[b].slot = Placements[f][b].slot
  BY <1>1 DEF Restored, Placed, Resting
<1>3. kept[f] # None /\ kept[f][b] = "disabled" => old[b].lifecycle = "disabled"
  BY DEF Restored, Placed, Resting
<1>4. old = [c \in Slots |-> old[c]] /\ DOMAIN old[b] = {"slot", "definition", "lifecycle", "action", "progress", "phase", "health"}
  BY DEF Restored, Placed, Resting
<1> HIDE DEF old
<1>5. new[b].slot = Placements[f][b].slot
  BY <1>2, <1>4 DEF Gated
<1>6. old[b].lifecycle = "disabled" => new[b].lifecycle = "disabled"
  BY <1>4 DEF Gated
<1>7. f = GateFloor /\ b = GateSlot /\ script.gate # "complete" /\ old[b].slot # "free"
         => new[b].lifecycle = "disabled"
  BY <1>4 DEF Gated
<1> HIDE DEF new
<1>8. Fallen(new)[b].slot = new[b].slot /\ (new[b].lifecycle = "disabled" => Fallen(new)[b].lifecycle = "disabled")
  BY DEF Fallen, Resting
<1>9. Loaded(f, kept) \in {new, Fallen(new)}
  BY DEF Loaded, new, old
<1> QED
  BY <1>2, <1>3, <1>5, <1>6, <1>7, <1>8, <1>9

\* A step outside the visits changes nothing of the actors who are not free.
LEMMA SlainUnchanged ==
    ASSUME SlainInv, UNCHANGED <<actors, floor, records, slain>>, script.gate = script'.gate \/ script.gate # "complete",
           script'.gate = "complete" => script.gate = "complete"
    PROVE  SlainInv'
BY DEF SlainInv, Native, SlainKept, GateHeld, SlainStaySlain

\* A summon takes a slot in which nobody was slain and which is not gated.
LEMMA SummonArrivesSlain ==
    ASSUME PoolInv, SlainInv, NEW e \in Effects, SummonArrives(e) PROVE SlainInv'
<1>1. UNCHANGED <<floor, script, records, slain>>
  BY DEF SummonArrives
<1>2. CASE Free = {}
  BY <1>1, <1>2, SlainUnchanged DEF SummonArrives
<1>3. CASE Free # {}
  <2> DEFINE b == CHOOSE s \in Free : \A t \in Free : s <= t
  <2>1. PICK d \in Summoned :
             Put(b, SetAction(Initialized([actors[b] EXCEPT !.slot = "dynamic", !.definition = d]), "other"))
    BY <1>3 DEF SummonArrives
  <2> HIDE DEF b
  <2>2. CASE b \in Slots /\ actors[b].slot = "free"
    <3> DEFINE bare == [actors[b] EXCEPT !.slot = "dynamic", !.definition = d]
    <3>1. actors[b] \in Actor /\ d \in Definitions
      BY <2>2, ConstantTypes, LivingType DEF PoolInv
    <3>2. bare \in Actor /\ bare.slot = "dynamic"
      BY <3>1 DEF Actor, SlotStates
    <3> HIDE DEF bare
    <3> DEFINE q == SetAction(Initialized(bare), "other")
    <3>3. Initialized(bare) \in Living /\ Initialized(bare).slot = "dynamic" /\ Initialized(bare).action = "other"
      BY <3>2, InitializedLiving
    <3>4. q.slot = "dynamic"
      BY <3>3, SetActionLiving
    <3>5. actors' = [actors EXCEPT ![b] = q]
      BY <2>1 DEF Put, bare
    <3> HIDE DEF q
    <3>6. actors'[b].slot = "dynamic" /\ \A c \in Slots \ {b} : actors'[c] = actors[c]
      BY <2>2, <3>4, <3>5 DEF PoolInv
    <3>7. Placements[floor][b].slot = "free" /\ "free" \notin Kept
      BY <2>2 DEF SlainInv, Native, Kept
    <3>8. Native'
      BY <1>1, <3>6, <3>7 DEF SlainInv, Native
    <3>9. \A fa \in slain : fa[1] = floor => fa[2] \in Slots \ {b}
      BY <3>7 DEF SlainInv, SlainKept, PoolInv, TypeOK
    <3>10. SlainStaySlain' /\ SlainKept'
      BY <1>1, <3>6, <3>9 DEF SlainInv, SlainStaySlain, SlainKept
    <3>11. GateHeld'
      BY <1>1, <3>6, <3>7, ConstantTypes DEF SlainInv, GateHeld
    <3> QED
      BY <3>8, <3>10, <3>11 DEF SlainInv
  <2>3. CASE ~(b \in Slots /\ actors[b].slot = "free")
    BY <2>3, <1>3, FirstFree DEF b, Free
  <2> QED
    BY <2>2, <2>3
<1> QED
  BY <1>2, <1>3

\* The gate wakes an actor who was not slain: until then he was disabled.
LEMMA ScriptSlain == ASSUME PoolInv, SlainInv, EnterGate \/ LeaveGate \/ MeetBoss PROVE SlainInv'
<1>1. script \in [gate : {"entry", "exit", "complete"}, encounter : BOOLEAN, defeated : BOOLEAN]
  BY PoolParts DEF RestOK
<1>2. CASE EnterGate \/ MeetBoss
  <2>1. /\ UNCHANGED <<actors, floor, records, slain>>
        /\ (script'.gate = "complete" => script.gate = "complete")
        /\ script.gate = script'.gate \/ script.gate # "complete"
    BY <1>1, <1>2 DEF EnterGate, MeetBoss
  <2> QED
    BY <2>1, SlainUnchanged
<1>3. CASE LeaveGate
  <2>1. floor = GateFloor /\ script.gate # "complete" /\ script'.gate = "complete"
    BY <1>1, <1>3 DEF LeaveGate
  <2>2. UNCHANGED <<floor, records, slain>>
    BY <1>3 DEF LeaveGate
  <2>3. /\ \A b \in Slots \ {GateSlot} : actors'[b] = actors[b]
        /\ actors'[GateSlot].slot = actors[GateSlot].slot
    <3>1. actors[GateSlot] \in Actor /\ GateSlot \in Slots
      BY LivingType, ConstantTypes DEF PoolInv
    <3>2. Initialized(actors[GateSlot]).slot = actors[GateSlot].slot
      BY <3>1, InitializedLiving
    <3>3. actors' = actors \/ Put(GateSlot, Initialized(actors[GateSlot]))
      BY <1>3 DEF LeaveGate
    <3> QED
      BY <3>1, <3>2, <3>3 DEF Put, PoolInv
  <2>4. <<floor, GateSlot>> \notin slain
    BY <2>1 DEF SlainInv, GateHeld
  <2>5. \A fa \in slain : fa = <<fa[1], fa[2]>> /\ fa[2] \in Slots
    BY DEF PoolInv, TypeOK
  <2>6. SlainStaySlain'
    BY <2>2, <2>3, <2>4, <2>5 DEF SlainInv, SlainStaySlain
  <2>7. Native'
    BY <2>2, <2>3 DEF SlainInv, Native
  <2> QED
    BY <2>1, <2>2, <2>6, <2>7 DEF SlainInv, GateHeld, SlainKept
<1> QED
  BY <1>2, <1>3

\* The record of the floor left says who was slain there, and a load believes it.
LEMMA ChangeFloorSlain == ASSUME PoolInv, SlainInv, NEW f \in Floors, ChangeFloor(f) PROVE SlainInv'
<1> DEFINE kept == [records EXCEPT ![floor] = Persisted]
<1>1. kept \in [Floors -> Kinds \cup {None}]
  BY PoolParts, KeptTypes
<1>2. /\ records' = kept /\ actors' = Loaded(f, kept) /\ floor' = f /\ f # floor
      /\ script' = script /\ slain' = slain
  BY DEF ChangeFloor
<1>3. \A b \in Slots : /\ actors'[b].slot = Placements[f][b].slot
                       /\ kept[f] # None /\ kept[f][b] = "disabled" => actors'[b].lifecycle = "disabled"
                       /\ f = GateFloor /\ b = GateSlot /\ script.gate # "complete" /\ Placements[f][b].slot # "free"
                            => actors'[b].lifecycle = "disabled"
  <2> HIDE DEF kept
  <2> QED
    BY <1>1, <1>2, LoadedSlots
<1>4. \A g \in Floors \ {floor} : kept[g] = records[g]
  BY DEF PoolInv, TypeOK
<1>5. kept[floor] = Persisted /\ Persisted # None
  <2>1. floor \in Floors /\ records \in [Floors -> Kinds \cup {None}]
    BY PoolParts DEF RestOK
  <2>2. Persisted \in Kinds
    BY DEF Persisted, Kinds
  <2> QED
    BY <2>1, <2>2, ActorAssumption DEF Kinds
<1> HIDE DEF kept
<1>6. SlainStaySlain'
  <2> SUFFICES ASSUME NEW fa \in slain
               PROVE  IF fa[1] = f THEN actors'[fa[2]].lifecycle = "disabled"
                      ELSE kept[fa[1]] # None /\ kept[fa[1]][fa[2]] = "disabled"
    BY <1>2 DEF SlainStaySlain
  <2>1. fa[1] \in Floors /\ fa[2] \in Slots /\ Placements[fa[1]][fa[2]].slot \in Kept
    BY DEF PoolInv, TypeOK, SlainInv, SlainKept
  <2>2. CASE fa[1] # floor
    <3>1. records[fa[1]] # None /\ records[fa[1]][fa[2]] = "disabled"
      BY <2>2 DEF SlainInv, SlainStaySlain
    <3> QED
      BY <1>3, <1>4, <2>1, <2>2, <3>1
  <2>3. CASE fa[1] = floor
    <3>1. actors[fa[2]].lifecycle = "disabled"
      BY <2>3 DEF SlainInv, SlainStaySlain
    <3>2. actors[fa[2]].slot \in Kept
      BY <2>1, <2>3 DEF SlainInv, Native, Kept
    <3>3. Persisted[fa[2]] = "disabled"
      BY <2>1, <3>1, <3>2 DEF Persisted
    <3> QED
      BY <1>2, <1>5, <2>3, <3>3
  <2> QED
    BY <2>2, <2>3
<1>7. Native'
  BY <1>2, <1>3 DEF Native
<1>8. GateHeld'
  BY <1>2, <1>3, ConstantTypes DEF SlainInv, GateHeld
<1>9. SlainKept'
  BY <1>2 DEF SlainInv, SlainKept
<1> QED
  BY <1>6, <1>7, <1>8, <1>9 DEF SlainInv

\* Nobody was slain, and the gated actor is disabled.
LEMMA InitSlain == Init => SlainInv
<1> SUFFICES ASSUME Init PROVE SlainInv
  OBVIOUS
<1>1. FirstFloor \in Floors /\ records \in [Floors -> Kinds \cup {None}]
  BY ActorAssumption DEF Init
<1>2. \A b \in Slots : /\ actors[b].slot = Placements[floor][b].slot
                       /\ floor = GateFloor /\ b = GateSlot /\ script.gate # "complete" /\ Placements[floor][b].slot # "free"
                            => actors[b].lifecycle = "disabled"
  BY <1>1, LoadedSlots DEF Init
<1>3. slain = {}
  BY DEF Init
<1> QED
  BY <1>2, <1>3, ConstantTypes DEF SlainInv, Native, SlainKept, GateHeld, SlainStaySlain

\* SlainInv is inductive, given PoolInv.
LEMMA NextSlain == PoolInv /\ SlainInv /\ [Next]_vars => SlainInv'
<1> SUFFICES ASSUME PoolInv, SlainInv, [Next]_vars PROVE SlainInv'
  OBVIOUS
<1>1. CASE UNCHANGED vars
  BY <1>1 DEF SlainInv, Native, SlainKept, GateHeld, SlainStaySlain, vars
<1>2. ASSUME NEW e \in Effects, SummonMoves(e) PROVE SlainInv'
  <2>1. UNCHANGED <<actors, floor, script, records, slain>>
    BY <1>2 DEF SummonMoves
  <2> QED
    BY <2>1, SlainUnchanged
<1>3. CASE Next
  BY <1>2, <1>3, VisitSteady, DamageSteady, SteadySlain, SummonArrivesSlain, ScriptSlain, ChangeFloorSlain DEF Next
<1> QED
  BY <1>1, <1>3

-----------------------------------------------------------------------------
(* One summon at a time.  Who may summon is alone with no effect in flight,  *)
(* and between the choice and the cast the phase has not passed CastPhase.   *)

Summons(r) ==
    /\ r.slot # "free" /\ r.lifecycle = "active" /\ r.action = "summon"
    /\ r.progress = Starting \/ r.phase <= CastPhase
OneSummon(pool, fx) ==
    \A a \in Slots : Summons(pool[a]) => InFlight(fx) = {} /\ \A b \in Slots : Summons(pool[b]) => b = a

\* The invariant in terms of records.
LEMMA SummonsIsOne == SummonsOneAtATime <=> OneSummon(actors, spawners)
BY DEF SummonsOneAtATime, OneSummon, Summoning, Summons

\* Fewer summoners and fewer effects.
LEMMA Fewer ==
    ASSUME NEW p, NEW q, NEW fx, NEW gx, OneSummon(p, fx),
           \A b \in Slots : Summons(q[b]) => Summons(p[b]), InFlight(gx) \subseteq InFlight(fx)
    PROVE  OneSummon(q, gx)
BY DEF OneSummon

\* Who may summon is the only active actor, and nothing is in flight.
LEMMA Alone ==
    ASSUME NEW a \in Slots, NEW r, actors \in [Slots -> Living], r.slot # "free", r.lifecycle = "active",
           NEW fx, MaySummon(a, r, fx)
    PROVE  InFlight(fx) = {} /\ \A b \in Slots \ {a} : actors[b].slot = "free" \/ actors[b].lifecycle # "active"
<1> DEFINE pool == [actors EXCEPT ![a] = r]
           on == Active(pool)
<1>1. Cardinality(on) + Cardinality(InFlight(fx)) < 2
  BY DEF MaySummon
<1>2. a \in on /\ \A b \in Slots \ {a} : pool[b] = actors[b]
  BY DEF Active
<1>3. IsFiniteSet(Slots) /\ IsFiniteSet(Effects)
  BY FS_Interval, ActorAssumption DEF Slots, Effects
<1>4. IsFiniteSet(on) /\ IsFiniteSet(InFlight(fx))
  BY <1>3, FS_Subset DEF Active, InFlight
<1> HIDE DEF on
<1>5. Cardinality(on) \in Nat /\ Cardinality(InFlight(fx)) \in Nat
  BY <1>4, FS_CardinalityType
<1>6. on # {} /\ Cardinality(on) # 0
  BY <1>2, <1>4, FS_EmptySet
<1>7. Cardinality(on) = 1 /\ Cardinality(InFlight(fx)) = 0
  BY <1>1, <1>5, <1>6
<1>8. InFlight(fx) = {}
  BY <1>4, <1>7, FS_EmptySet
<1>9. \A b \in on : b = a
  BY <1>2, <1>4, <1>7, FS_Singleton
<1> QED
  BY <1>2, <1>8, <1>9 DEF on, Active

\* A selection keeps one summon at a time.
LEMMA SelectOne ==
    ASSUME actors \in [Slots -> Living], NEW a \in Slots, NEW r \in Living, NEW fx, NEW s \in Selected(a, r, fx),
           r.slot # "free", r.lifecycle = "active", OneSummon([actors EXCEPT ![a] = r], fx)
    PROVE  OneSummon([actors EXCEPT ![a] = s], fx)
<1>1. r \in Actor
  BY LivingType
<1>2. s = r \/ s = SetAction(r, "other") \/ (s = SetAction(r, "summon") /\ MaySummon(a, r, fx))
  BY DEF Selected
<1>3. CASE s = r
  BY <1>3
<1>4. CASE s = SetAction(r, "other")
  <2>1. s.action = "other"
    BY <1>1, <1>4 DEF SetAction, Actor
  <2>2. \A b \in Slots : Summons([actors EXCEPT ![a] = s][b]) => Summons([actors EXCEPT ![a] = r][b])
    BY <2>1 DEF Summons
  <2> QED
    BY <2>2, Fewer
<1>5. CASE MaySummon(a, r, fx)
  <2>1. InFlight(fx) = {} /\ \A b \in Slots \ {a} : actors[b].slot = "free" \/ actors[b].lifecycle # "active"
    BY <1>5, Alone
  <2> QED
    BY <2>1 DEF OneSummon, Summons
<1> QED
  BY <1>2, <1>3, <1>4, <1>5

\* The same after an action that has ended, which leaves nobody summoning in its slot.
LEMMA EndOne ==
    ASSUME actors \in [Slots -> Living], NEW a \in Slots, NEW r \in Living, r.action \notin {"dying", "gone"},
           r.slot # "free", r.lifecycle = "active",
           r.action = "summon" => r.phase = PhaseMax,
           NEW fx, NEW s \in Selected(a, [r EXCEPT !.progress = Complete], fx),
           \A x \in Living : ~Summons(x) => OneSummon([actors EXCEPT ![a] = x], fx)
    PROVE  OneSummon([actors EXCEPT ![a] = s], fx)
<1> DEFINE c == [r EXCEPT !.progress = Complete]
<1>1. /\ c \in Living /\ c.progress = Complete /\ c.action = r.action /\ c.slot = r.slot
      /\ c.lifecycle = r.lifecycle /\ c.phase = r.phase
  BY CompletedLiving
<1>2. CastPhase < PhaseMax
  <2>1. r.definition \in Definitions
    BY LivingType DEF Actor
  <2> QED
    BY <2>1, ConstantTypes
<1>3. s \in Selected(a, c, fx)
  OBVIOUS
<1> HIDE DEF c
<1>4. ~Summons(c)
  BY <1>1, <1>2, ConstantTypes DEF Summons, Complete, Starting
<1>5. OneSummon([actors EXCEPT ![a] = c], fx)
  BY <1>1, <1>4
<1> QED
  BY <1>1, <1>3, <1>5, SelectOne

\* Awareness keeps one summon at a time.
LEMMA AwareOne ==
    ASSUME actors \in [Slots -> Living], OneSummon(actors, spawners), NEW a \in Slots, actors[a].slot # "free",
           NEW r \in Aware(a)
    PROVE  OneSummon([actors EXCEPT ![a] = r], spawners)
<1> DEFINE o == actors[a]
<1>1. o \in Living /\ o \in Actor
  BY LivingType
<1>2. o.lifecycle \in {"dormant", "active", "waiting", "disabled"}
  BY <1>1 DEF Actor
<1>3. [actors EXCEPT ![a] = o] = actors
  OBVIOUS
<1>4. ASSUME NEW x, ~Summons(x) PROVE OneSummon([actors EXCEPT ![a] = x], spawners)
  <2>1. \A b \in Slots : Summons([actors EXCEPT ![a] = x][b]) => Summons(actors[b])
    BY <1>4
  <2> QED
    BY <2>1, Fewer
<1>5. Initialized(o) \in Living /\ Initialized(o).slot = o.slot /\ Initialized(o).action = "other"
      /\ Initialized(o).lifecycle = "active"
  BY <1>1, InitializedLiving
<1>6. CASE r \in Selected(a, Initialized(o), spawners)
  BY <1>4, <1>5, <1>6, SelectOne DEF Summons
<1>7. CASE r \in Selected(a, o, spawners) /\ o.lifecycle = "active"
  BY <1>1, <1>3, <1>7, SelectOne
<1>8. CASE r = SetAction(Initialized(o), "exit")
  BY <1>4, <1>5, <1>8, SetActionLiving DEF Summons
<1>9. CASE r = o
  BY <1>3, <1>9
<1>10. CASE \E l \in {"dormant", "waiting"} : r = Resting(o, l)
  BY <1>1, <1>4, <1>10, RestingLiving DEF Summons
<1>11. \/ r = o \/ r = Resting(o, "dormant") \/ r = Resting(o, "waiting") \/ r = SetAction(Initialized(o), "exit")
       \/ r \in Selected(a, Initialized(o), spawners) \/ (r \in Selected(a, o, spawners) /\ o.lifecycle = "active")
  BY <1>2 DEF Aware
<1> QED
  BY <1>6, <1>7, <1>8, <1>9, <1>10, <1>11

\* In a visit: the record awareness left is in its slot and one at most summons.
Visited(a, r) ==
    /\ PoolInv /\ a \in Slots /\ r \in Living /\ r.slot # "free" /\ r.lifecycle = "active"
    /\ OneSummon([actors EXCEPT ![a] = r], spawners)

\* A visit may put any record that does not summon there.
LEMMA QuietOne ==
    ASSUME NEW a, NEW r, Visited(a, r), NEW x, ~Summons(x)
    PROVE  OneSummon([actors EXCEPT ![a] = x], spawners)
<1>1. \A b \in Slots : Summons([actors EXCEPT ![a] = x][b]) => Summons([actors EXCEPT ![a] = r][b])
  BY DEF Visited, PoolInv
<1> QED
  BY <1>1, Fewer DEF Visited

\* Actions that cast nothing keep one summon at a time.
LEMMA OtherOne ==
    ASSUME NEW a, NEW r, Visited(a, r), Other(a, r) \/ Exit(a, r) \/ HitReaction(a, r)
    PROVE  OneSummon(actors', spawners')
<1>1. r \in Living /\ r \in Actor /\ a \in Slots /\ actors \in [Slots -> Living]
  BY LivingType DEF Visited, PoolInv
<1>2. spawners' = spawners
  BY DEF Other, Exit, HitReaction
<1>3. ASSUME NEW c \in Living, c.action \in {"other", "exit", "hit"}, c.slot = r.slot, c.lifecycle = r.lifecycle,
             NEW s \in Selected(a, [c EXCEPT !.progress = Complete], spawners)
      PROVE  OneSummon([actors EXCEPT ![a] = s], spawners)
  BY <1>1, <1>3, EndOne, QuietOne DEF Visited
<1>4. ASSUME NEW q, Put(a, q), ~Summons(q) PROVE OneSummon(actors', spawners')
  BY <1>2, <1>4, QuietOne DEF Put
<1>5. CASE Other(a, r)
  <2>1. PICK q \in {[r EXCEPT !.progress = p] :
                       p \in IF r.progress = Starting THEN {Running, Locked} ELSE {r.progress}}
                  \cup Selected(a, [r EXCEPT !.progress = Complete], spawners) : Put(a, q)
    BY <1>5 DEF Other
  <2>2. CASE q \in Selected(a, [r EXCEPT !.progress = Complete], spawners)
    BY <1>1, <1>2, <1>3, <1>5, <2>1, <2>2 DEF Other, Put
  <2>3. CASE \E p : q = [r EXCEPT !.progress = p]
    <3>1. q.action = "other"
      BY <1>1, <1>5, <2>3 DEF Other, Actor
    <3> QED
      BY <1>4, <2>1, <3>1 DEF Summons
  <2> QED
    BY <2>1, <2>2, <2>3
<1>6. CASE Exit(a, r)
  <2>1. PICK q \in {[r EXCEPT !.progress = Running]}
                  \cup Selected(a, [r EXCEPT !.progress = Complete], spawners) : Put(a, q)
    BY <1>6 DEF Exit
  <2>2. CASE q \in Selected(a, [r EXCEPT !.progress = Complete], spawners)
    BY <1>1, <1>2, <1>3, <1>6, <2>1, <2>2 DEF Exit, Put
  <2>3. CASE q = [r EXCEPT !.progress = Running]
    <3>1. q.action = "exit"
      BY <1>1, <1>6, <2>3 DEF Exit, Actor
    <3> QED
      BY <1>4, <2>1, <3>1 DEF Summons
  <2> QED
    BY <2>1, <2>2, <2>3
<1>7. CASE HitReaction(a, r)
  <2> DEFINE q == Advanced(r, Running)
  <2>1. q \in Living /\ q.action = "hit" /\ q.slot = r.slot /\ q.lifecycle = r.lifecycle
    BY <1>1, <1>7, AdvancedLiving DEF HitReaction
  <2>2. Put(a, q) \/ \E s \in Selected(a, [q EXCEPT !.progress = Complete], spawners) : Put(a, s)
    BY <1>7 DEF HitReaction
  <2> HIDE DEF q
  <2>3. CASE Put(a, q)
    BY <1>4, <2>1, <2>3 DEF Summons
  <2>4. CASE \E s \in Selected(a, [q EXCEPT !.progress = Complete], spawners) : Put(a, s)
    BY <1>2, <1>3, <2>1, <2>4 DEF Put
  <2> QED
    BY <2>2, <2>3, <2>4
<1> QED
  BY <1>5, <1>6, <1>7

\* How far a visit's animation goes.
LEMMA AdvancedPhase ==
    ASSUME NEW r \in Living, NEW p \in {Running, Locked}
    PROVE  /\ Advanced(r, p).phase \in 0 .. PhaseMax
           /\ (r.progress # Starting /\ Advanced(r, p).phase <= CastPhase => r.phase <= CastPhase)
           /\ (r.progress # Starting /\ Advanced(r, p).phase - Step[r.definition] <= CastPhase => r.phase <= CastPhase)
<1> DEFINE from == IF r.progress = Starting THEN 0 ELSE r.phase
           next == Lesser(from + Step[r.definition], PhaseMax)
<1>1. r \in Actor
  BY LivingType
<1>2. /\ r.phase \in 0 .. PhaseMax /\ from \in Nat /\ Step[r.definition] \in Nat /\ CastPhase \in Nat /\ PhaseMax \in Nat
      /\ CastPhase < PhaseMax - Step[r.definition]
  BY <1>1, ConstantTypes DEF Actor
<1>3. Advanced(r, p).phase = next
  BY <1>1 DEF Advanced, Actor
<1>4. next \in 0 .. PhaseMax
  BY <1>2 DEF Lesser
<1>5. r.progress # Starting /\ next <= CastPhase => r.phase <= CastPhase
  BY <1>2 DEF Lesser
<1>6. r.progress # Starting /\ next - Step[r.definition] <= CastPhase => r.phase <= CastPhase
  BY <1>2 DEF Lesser
<1> QED
  BY <1>3, <1>4, <1>5, <1>6

\* A cast ends the choice that led to it, so what is in flight has no rival.
LEMMA SummonOne == ASSUME NEW a, NEW r, Visited(a, r), Summon(a, r) PROVE OneSummon(actors', spawners')
<1>1. r \in Living /\ r \in Actor /\ a \in Slots /\ actors \in [Slots -> Living] /\ r.action = "summon"
  BY LivingType DEF Visited, PoolInv, Summon
<1> DEFINE q == Advanced(r, Locked)
<1>2. /\ q \in Living /\ q.action = "summon" /\ q.slot = r.slot /\ q.lifecycle = r.lifecycle
      /\ q.definition = r.definition /\ q.progress # Starting
  BY <1>1, AdvancedLiving
<1>3. /\ q.phase \in 0 .. PhaseMax
      /\ (r.progress # Starting /\ q.phase <= CastPhase => r.phase <= CastPhase)
      /\ (r.progress # Starting /\ q.phase - Step[r.definition] <= CastPhase => r.phase <= CastPhase)
  BY <1>1, AdvancedPhase
<1>4. PICK fx \in IF Crossed(q, CastPhase) THEN Constructed(spawners) ELSE {spawners} :
         /\ spawners' = fx
         /\ IF q.phase < PhaseMax THEN Put(a, q)
            ELSE \E s \in Selected(a, [q EXCEPT !.progress = Complete], fx) : Put(a, s)
  BY DEF Summon
<1>5. /\ Step[r.definition] \in Nat /\ CastPhase \in Nat /\ PhaseMax \in Nat
  BY <1>1, ConstantTypes DEF Actor
<1> HIDE DEF q
<1>6. r.slot # "free" /\ r.lifecycle = "active"
  BY DEF Visited
<1>7. Summons(q) => Summons(r)
  BY <1>1, <1>2, <1>3, <1>6 DEF Summons
<1>8. Crossed(q, CastPhase) => Summons(r) /\ ~Summons(q)
  <2> SUFFICES ASSUME Crossed(q, CastPhase) PROVE Summons(r) /\ ~Summons(q)
    OBVIOUS
  <2>1. CastPhase < q.phase /\ q.phase - Step[r.definition] <= CastPhase
    BY <1>2, <1>3, <1>5 DEF Crossed
  <2> QED
    BY <1>1, <1>2, <1>3, <1>5, <1>6, <2>1 DEF Summons
<1>9. ASSUME NEW x, ~Summons(x) PROVE OneSummon([actors EXCEPT ![a] = x], fx)
  <2>1. CASE Crossed(q, CastPhase)
    <3>1. \A b \in Slots : Summons([actors EXCEPT ![a] = r][b]) => b = a
      BY <1>1, <1>8, <2>1 DEF Visited, OneSummon
    <3>2. \A b \in Slots : ~Summons([actors EXCEPT ![a] = x][b])
      BY <1>1, <1>9, <3>1
    <3> QED
      BY <3>2 DEF OneSummon
  <2>2. CASE ~Crossed(q, CastPhase)
    BY <1>4, <1>9, <2>2, QuietOne
  <2> QED
    BY <2>1, <2>2
<1>10. CASE Put(a, q)
  <2>1. CASE ~Summons(q)
    BY <1>4, <1>9, <1>10, <2>1 DEF Put
  <2>2. CASE Summons(q)
    <3>1. fx = spawners /\ Summons(r)
      BY <1>4, <1>7, <1>8, <2>2
    <3>2. \A b \in Slots : Summons([actors EXCEPT ![a] = q][b]) => Summons([actors EXCEPT ![a] = r][b])
      BY <1>1, <3>1
    <3> QED
      BY <1>4, <1>10, <3>1, <3>2, Fewer DEF Visited, Put
  <2> QED
    BY <2>1, <2>2
<1>11. ASSUME NEW s \in Selected(a, [q EXCEPT !.progress = Complete], fx), Put(a, s), ~(q.phase < PhaseMax)
       PROVE  OneSummon(actors', spawners')
  <2>1. q.phase = PhaseMax
    BY <1>3, <1>5, <1>11
  <2>2. OneSummon([actors EXCEPT ![a] = s], fx)
    BY <1>1, <1>2, <1>6, <1>9, <1>11, <2>1, EndOne
  <2> QED
    BY <1>4, <1>11, <2>2 DEF Put
<1> QED
  BY <1>4, <1>10, <1>11

\* The deaths keep one summon at a time.
LEMMA DeathOne ==
    ASSUME NEW a, NEW r, Visited(a, r), Dying(a, r) \/ BossDying(a, r) \/ Transform(a, r) \/ PostDeath(a, r)
    PROVE  OneSummon(actors', spawners')
<1>1. r \in Living /\ r \in Actor /\ a \in Slots /\ actors \in [Slots -> Living]
  BY LivingType DEF Visited, PoolInv
<1>2. spawners' = spawners
  BY DEF Dying, BossDying, Transform, PostDeath
<1>3. ASSUME NEW q, Put(a, q), ~Summons(q) PROVE OneSummon(actors', spawners')
  BY <1>2, <1>3, QuietOne DEF Put
<1> DEFINE q == Advanced(r, Running)
<1>4. Dying(a, r) \/ BossDying(a, r) => q \in Living /\ q \in Actor /\ q.action = "dying"
  BY <1>1, AdvancedLiving, LivingType DEF Dying, BossDying
<1>5. CASE Dying(a, r)
  <2>1. Put(a, q) \/ Put(a, SetAction(q, "gone"))
    BY <1>5 DEF Dying
  <2> HIDE DEF q
  <2>2. q.action = "dying" /\ SetAction(q, "gone").action = "gone"
    BY <1>4, <1>5 DEF SetAction, Actor
  <2> QED
    BY <1>3, <2>1, <2>2 DEF Summons
<1>6. CASE BossDying(a, r)
  <2> DEFINE base == [actors EXCEPT ![a] = Resting(q, "disabled")]
  <2>1. Put(a, q) \/ actors' \in BeginDeaths(base)
    BY <1>6 DEF BossDying
  <2> HIDE DEF q
  <2>2. CASE Put(a, q)
    BY <1>3, <1>4, <1>6, <2>2 DEF Summons
  <2>3. CASE actors' \in BeginDeaths(base)
    <3>1. Resting(q, "disabled") \in Living /\ Resting(q, "disabled").lifecycle = "disabled"
      BY <1>4, <1>6, RestingLiving
    <3>2. base \in [Slots -> Living] /\ ~Summons(Resting(q, "disabled"))
      BY <1>1, <3>1 DEF Summons
    <3>3. OneSummon(base, spawners)
      BY <3>2, QuietOne
    <3> HIDE DEF base
    <3>4. ASSUME NEW b \in Slots, Summons(actors'[b]) PROVE Summons(base[b])
      <4>1. base[b] \in Living /\ base[b] \in Actor
        BY <3>2, LivingType
      <4>2. actors'[b] \in {base[b], Resting(base[b], "disabled")} \cup Struck(base[b], "dying")
        BY <2>3 DEF BeginDeaths, MayBegin
      <4> QED
        BY <3>4, <4>1, <4>2, RestingLiving, StruckLiving DEF Summons
    <3> QED
      BY <1>2, <3>3, <3>4, Fewer
  <2> QED
    BY <2>1, <2>2, <2>3
<1>7. CASE Transform(a, r)
  <2> DEFINE t == [r EXCEPT !.definition = Result]
  <2>1. t \in Actor
    BY <1>1, ConstantTypes DEF Actor
  <2>2. Put(a, Initialized(t))
    BY <1>7 DEF Transform
  <2> HIDE DEF t
  <2> QED
    BY <1>3, <2>1, <2>2, InitializedLiving DEF Summons
<1>8. CASE PostDeath(a, r)
  <2>1. CASE Put(a, [r EXCEPT !.progress = @ + 1])
    <3>1. [r EXCEPT !.progress = @ + 1].action = "gone"
      BY <1>1, <1>8 DEF PostDeath, Actor
    <3> QED
      BY <1>3, <2>1, <3>1 DEF Summons
  <2>2. CASE \E l \in {"dormant", "waiting", "disabled"} : Put(a, Resting(r, l))
    BY <1>1, <1>3, <2>2, RestingLiving DEF Summons
  <2> QED
    BY <1>8, <2>1, <2>2 DEF PostDeath
<1> QED
  BY <1>5, <1>6, <1>7, <1>8

\* Every visit keeps one summon at a time.
LEMMA VisitOne ==
    ASSUME PoolInv, OneSummon(actors, spawners), NEW a \in Slots, Visit(a) PROVE OneSummon(actors', spawners')
<1>1. PICK r \in Aware(a) :
         \/ Settle(a, r)
         \/ /\ r.lifecycle = "active"
            /\ \/ Other(a, r) \/ Exit(a, r) \/ HitReaction(a, r) \/ Summon(a, r)
               \/ Dying(a, r) \/ BossDying(a, r) \/ Transform(a, r) \/ PostDeath(a, r)
  BY DEF Visit
<1>2. r \in Living /\ r.slot = actors[a].slot /\ actors[a].slot # "free"
  BY AwareLiving DEF PoolInv, Visit
<1>3. OneSummon([actors EXCEPT ![a] = r], spawners)
  BY <1>2, AwareOne DEF PoolInv
<1>4. CASE Settle(a, r)
  BY <1>3, <1>4 DEF Settle, Put
<1>5. CASE r.lifecycle = "active"
  <2>1. Visited(a, r)
    BY <1>2, <1>3, <1>5 DEF Visited
  <2> QED
    BY <1>1, <1>4, <2>1, OtherOne, SummonOne, DeathOne
<1> QED
  BY <1>1, <1>4, <1>5

\* A blow only ends summons.
LEMMA DamageOne ==
    ASSUME PoolInv, OneSummon(actors, spawners), NEW a \in Slots, Damage(a) PROVE OneSummon(actors', spawners')
<1>1. actors[a] \in Living /\ actors[a] \in Actor
  BY LivingType DEF PoolInv
<1>2. PICK damage \in 1 .. actors[a].health + 1 :
         LET r == actors[a]
             left == [r EXCEPT !.health = IF damage >= r.health THEN 0 ELSE r.health - damage]
         IN  actors' \in {[actors EXCEPT ![a] = s] :
                s \in CASE left.health = 0 /\ r.definition \in WithDeath -> Struck(left, "dying")
                        [] left.health # 0 /\ r.definition \in WithHit -> Struck(left, "hit")
                        [] OTHER -> {left}}
  BY DEF Damage
<1> DEFINE r == actors[a]
           rest == IF damage >= r.health THEN 0 ELSE r.health - damage
           left == [r EXCEPT !.health = rest]
<1>3. rest \in Nat
  BY <1>1 DEF Actor
<1>4. /\ left \in Actor /\ left.slot = r.slot /\ left.lifecycle = r.lifecycle /\ left.action = r.action
      /\ left.progress = r.progress /\ left.phase = r.phase
  BY <1>1, <1>3 DEF Actor
<1>5. PICK s \in CASE left.health = 0 /\ r.definition \in WithDeath -> Struck(left, "dying")
                   [] left.health # 0 /\ r.definition \in WithHit -> Struck(left, "hit")
                   [] OTHER -> {left} : Put(a, s)
  BY <1>2 DEF Put
<1> HIDE DEF left, r
<1>6. \/ left.health = 0 /\ s \in Struck(left, "dying")
      \/ left.health # 0 /\ s \in Struck(left, "hit")
      \/ s = left
  <2>1. CASE left.health = 0 /\ r.definition \in WithDeath
    BY <2>1, <1>5
  <2>2. CASE left.health # 0 /\ r.definition \in WithHit
    BY <2>2, <1>5
  <2>3. CASE ~(left.health = 0 /\ r.definition \in WithDeath) /\ ~(left.health # 0 /\ r.definition \in WithHit)
    BY <2>3, <1>5
  <2> QED
    BY <2>1, <2>2, <2>3
<1>7. Summons(s) => Summons(r)
  BY <1>4, <1>6, StruckLiving DEF Summons
<1>8. spawners' = spawners /\ \A b \in Slots : Summons(actors'[b]) => Summons(actors[b])
  BY <1>5, <1>7 DEF Damage, Put, PoolInv, r
<1> QED
  BY <1>8, Fewer

\* Effects on their way start no summon.
LEMMA SpawnerOne ==
    ASSUME PoolInv, OneSummon(actors, spawners), NEW e \in Effects, SummonArrives(e) \/ SummonMoves(e)
    PROVE  OneSummon(actors', spawners')
<1>1. InFlight(spawners') \subseteq InFlight(spawners)
  BY PoolParts DEF SummonArrives, SummonMoves, InFlight, RestOK
<1>2. ASSUME NEW b \in Slots, Summons(actors'[b]) PROVE Summons(actors[b])
  <2>1. CASE actors' = actors
    BY <1>2, <2>1
  <2>2. CASE SummonArrives(e) /\ Free # {}
    <3> DEFINE f == CHOOSE s \in Free : \A t \in Free : s <= t
    <3>1. PICK d \in Summoned :
               Put(f, SetAction(Initialized([actors[f] EXCEPT !.slot = "dynamic", !.definition = d]), "other"))
      BY <2>2 DEF SummonArrives
    <3>2. f \in Slots
      BY <2>2, FirstFree DEF Free
    <3> HIDE DEF f
    <3> DEFINE bare == [actors[f] EXCEPT !.slot = "dynamic", !.definition = d]
               q == SetAction(Initialized(bare), "other")
    <3>3. actors[f] \in Actor /\ d \in Definitions
      BY <3>2, ConstantTypes, LivingType DEF PoolInv
    <3>4. bare \in Actor
      BY <3>3 DEF Actor, SlotStates
    <3> HIDE DEF bare
    <3>5. q.action = "other"
      BY <3>4, InitializedLiving, SetActionLiving
    <3>6. Put(f, q)
      BY <3>1 DEF bare
    <3> HIDE DEF q
    <3>7. b # f
      BY <1>2, <3>2, <3>5, <3>6 DEF Summons, Put, PoolInv
    <3> QED
      BY <1>2, <3>6, <3>7 DEF Put, PoolInv
  <2> QED
    BY <2>1, <2>2 DEF SummonArrives, SummonMoves
<1> QED
  BY <1>1, <1>2, Fewer

\* The scripts start no summon.
LEMMA ScriptOne ==
    ASSUME PoolInv, OneSummon(actors, spawners), EnterGate \/ LeaveGate \/ MeetBoss
    PROVE  OneSummon(actors', spawners')
<1>1. spawners' = spawners
  BY DEF EnterGate, LeaveGate, MeetBoss
<1>2. actors' = actors \/ Put(GateSlot, Initialized(actors[GateSlot]))
  BY DEF EnterGate, LeaveGate, MeetBoss
<1>3. GateSlot \in Slots /\ actors[GateSlot] \in Actor
  BY ConstantTypes, LivingType DEF PoolInv
<1>4. ~Summons(Initialized(actors[GateSlot]))
  BY <1>3, InitializedLiving DEF Summons
<1>5. \A b \in Slots : Summons(actors'[b]) => Summons(actors[b])
  BY <1>2, <1>4 DEF Put, PoolInv
<1> QED
  BY <1>1, <1>5, Fewer

\* Nobody is active on a floor just loaded.
LEMMA LoadedOne ==
    ASSUME NEW f \in Floors, NEW kept \in [Floors -> Kinds \cup {None}], NEW fx
    PROVE  OneSummon(Loaded(f, kept), fx)
BY LoadedLiving DEF OneSummon, Summons

\* One summon at a time is inductive, given PoolInv.
LEMMA NextOne == PoolInv /\ SummonsOneAtATime /\ [Next]_vars => SummonsOneAtATime'
<1> SUFFICES ASSUME PoolInv, OneSummon(actors, spawners), [Next]_vars PROVE OneSummon(actors', spawners')
  BY DEF SummonsOneAtATime, OneSummon, Summoning, Summons
<1>1. CASE UNCHANGED vars
  BY <1>1 DEF vars
<1>2. ASSUME NEW f \in Floors, ChangeFloor(f) PROVE OneSummon(actors', spawners')
  <2>1. [records EXCEPT ![floor] = Persisted] \in [Floors -> Kinds \cup {None}]
    BY PoolParts, KeptTypes
  <2> QED
    BY <1>2, <2>1, LoadedOne DEF ChangeFloor
<1>3. CASE Next
  BY <1>2, <1>3, VisitOne, DamageOne, SpawnerOne, ScriptOne DEF Next
<1> QED
  BY <1>1, <1>3

\* A new game has no summon.
LEMMA InitOne == Init => SummonsOneAtATime
<1> SUFFICES ASSUME Init PROVE OneSummon(actors, spawners)
  BY SummonsIsOne
<1>1. FirstFloor \in Floors /\ records \in [Floors -> Kinds \cup {None}]
  BY ActorAssumption DEF Init
<1> QED
  BY <1>1, LoadedOne DEF Init

-----------------------------------------------------------------------------
(* One drop for each life.  A blow or a visit never makes a body that has    *)
(* spent its drop due one; only the boss's end does, to his parts, and he    *)
(* ends once because he is placed once and nothing makes another.            *)

Limit(defeated, stands, r) == IF defeated /\ r.definition \in Parts /\ ~stands THEN 2 ELSE 1
PlacedBosses(pool, f) == f = BossFloor => \A b \in Slots : IsPlacedBoss(pool[b]) => IsPlacedBoss(Placements[f][b])

\* The constants a death reads.
LEMMA DropTypes ==
    /\ DropPhase \in Nat /\ DamageCutoff <= DropPhase /\ DropPhase < PhaseMax /\ DamageCutoff \in Nat
    /\ \A d \in Definitions : Step[d] \in Nat \ {0} /\ Step[d] < PhaseMax - DropPhase
    /\ PhaseMax \in Nat
BY ActorAssumption, StepAssumption

\* The invariant of the next state, in terms of records.
LEMMA LivesNext ==
    ASSUME \A c \in Slots : drops'[c] + Due(actors'[c]) <= Limit(script'.defeated, BossStands', actors'[c]),
           PlacedBosses(actors', floor')
    PROVE  LivesInv'
BY DEF LivesInv, Allowed, Limit, PlacedBosses

\* The invariant of this state, in the same terms.
LEMMA LivesNow ==
    LivesInv <=> /\ \A c \in Slots : drops[c] + Due(actors[c]) <= Limit(script.defeated, BossStands, actors[c])
                 /\ PlacedBosses(actors, floor)
BY DEF LivesInv, Allowed, Limit, PlacedBosses

\* A step that replaces one record keeps the invariant if it makes no boss and
\* either begins a life or does not count a drop that was not due.
LEMMA PutLives ==
    ASSUME PoolInv, LivesInv, NEW a \in Slots, NEW q, Put(a, q), NEW n \in Nat, drops' = [drops EXCEPT ![a] = n],
           n = 0 \/ (q.definition = actors[a].definition /\ n + Due(q) <= drops[a] + Due(actors[a])),
           floor = BossFloor /\ IsPlacedBoss(q) =>
               IsPlacedBoss(actors[a]) /\ (q.lifecycle # "disabled" => actors[a].lifecycle # "disabled"),
           floor' = floor, script'.defeated = script.defeated
    PROVE  LivesInv'
<1>1. actors'[a] = q /\ drops'[a] = n /\ \A c \in Slots \ {a} : actors'[c] = actors[c] /\ drops'[c] = drops[c]
  BY PoolParts DEF Put, RestOK
<1>2. BossStands' => BossStands
  BY <1>1 DEF BossStands
<1>3. PlacedBosses(actors', floor')
  BY <1>1, LivesNow DEF PlacedBosses
<1>4. \A r, s : r.definition = s.definition =>
          Limit(script.defeated, BossStands, s) <= Limit(script'.defeated, BossStands', r)
  BY <1>2 DEF Limit
<1>5. ASSUME NEW c \in Slots PROVE drops'[c] + Due(actors'[c]) <= Limit(script'.defeated, BossStands', actors'[c])
  <2>1. /\ drops[c] + Due(actors[c]) <= Limit(script.defeated, BossStands, actors[c])
        /\ drops[c] \in Nat /\ Due(actors[c]) \in {0, 1} /\ Due(q) \in {0, 1}
    BY LivesNow, PoolParts DEF RestOK, Due
  <2>2. CASE c # a
    <3>1. Limit(script.defeated, BossStands, actors[c]) <= Limit(script'.defeated, BossStands', actors'[c])
      BY <1>1, <1>4, <2>2
    <3> QED
      BY <1>1, <2>1, <2>2, <3>1 DEF Limit
  <2>3. CASE c = a /\ n = 0
    BY <1>1, <2>1, <2>3 DEF Limit
  <2>4. CASE c = a /\ q.definition = actors[a].definition /\ n + Due(q) <= drops[a] + Due(actors[a])
    <3>1. Limit(script.defeated, BossStands, actors[a]) <= Limit(script'.defeated, BossStands', q)
      BY <1>4, <2>4
    <3> QED
      BY <1>1, <2>1, <2>4, <3>1 DEF Limit
  <2> QED
    BY <2>2, <2>3, <2>4
<1> QED
  BY <1>3, <1>5, LivesNext

\* What is due is due of the active who do not lie spent.
LEMMA DueRange == ASSUME NEW r PROVE Due(r) \in {0, 1} /\ (r.lifecycle = "active" /\ r.action \notin {"dying", "gone"} => Due(r) = 1)
BY DEF Due, Spent

\* A selection changes the action of the living alone.
LEMMA SelectedLife ==
    ASSUME NEW a, NEW r \in Living, NEW fx, NEW s \in Selected(a, r, fx)
    PROVE  /\ s.slot = r.slot /\ s.definition = r.definition /\ s.lifecycle = r.lifecycle
           /\ s = r \/ (r.action \notin {"dying", "gone"} /\ s.action \in {"other", "summon"})
<1>1. CASE r.progress = Locked \/ Held(r)
  BY <1>1 DEF Selected
<1>2. CASE ~(r.progress = Locked \/ Held(r))
  <2>1. r.action \notin {"dying", "gone"}
    BY <1>2, LivingType DEF LifeOK, Held
  <2>2. s \in {r, SetAction(r, "other"), SetAction(r, "summon")}
    BY <1>2 DEF Selected
  <2> QED
    BY <2>1, <2>2, SetActionLiving
<1> QED
  BY <1>1, <1>2

\* Awareness begins a life with an action that is no death, or leaves what is due.
LEMMA AwareLife ==
    ASSUME actors \in [Slots -> Living], NEW a \in Slots, NEW r \in Aware(a)
    PROVE  /\ r.slot = actors[a].slot /\ r.definition = actors[a].definition
           /\ (actors[a].lifecycle = "disabled" => r = actors[a])
           /\ (Born(a, r) => r.action \in {"other", "exit", "summon"})
           /\ (~Born(a, r) => Due(r) <= Due(actors[a]))
<1> DEFINE o == actors[a]
<1>1. o \in Living /\ o \in Actor
  BY LivingType
<1>2. o.lifecycle \in {"dormant", "active", "waiting", "disabled"}
  BY <1>1 DEF Actor
<1>3. /\ Initialized(o) \in Living /\ Initialized(o).slot = o.slot /\ Initialized(o).definition = o.definition
      /\ Initialized(o).action = "other" /\ Initialized(o).lifecycle = "active"
  BY <1>1, InitializedLiving
<1>4. CASE r \in Selected(a, Initialized(o), spawners) /\ o.lifecycle = "dormant"
  BY <1>3, <1>4, SelectedLife DEF Born
<1>5. CASE r \in Selected(a, o, spawners) /\ o.lifecycle = "active"
  <2>1. o.action \notin {"dying", "gone"} => Due(o) = 1
    BY <1>5, DueRange
  <2> QED
    BY <1>1, <1>5, <2>1, SelectedLife, DueRange DEF Born
<1>6. CASE r = SetAction(Initialized(o), "exit") /\ o.lifecycle = "dormant"
  BY <1>3, <1>6, SetActionLiving DEF Born
<1>7. CASE r = o
  BY <1>7, DueRange DEF Born
<1>8. CASE (\E l \in {"dormant", "waiting"} : r = Resting(o, l)) /\ o.lifecycle # "disabled"
  <2>1. r.lifecycle # "active" /\ r.slot = o.slot /\ r.definition = o.definition
    BY <1>1, <1>8, RestingLiving
  <2>2. Due(r) = 0 /\ ~Born(a, r) /\ Due(o) \in {0, 1}
    BY <2>1 DEF Due, Born
  <2> QED
    BY <1>8, <2>1, <2>2
<1>9. \/ r = o \/ ((r = Resting(o, "dormant") \/ r = Resting(o, "waiting")) /\ o.lifecycle # "disabled")
      \/ (r = SetAction(Initialized(o), "exit") /\ o.lifecycle = "dormant")
      \/ (r \in Selected(a, Initialized(o), spawners) /\ o.lifecycle = "dormant")
      \/ (r \in Selected(a, o, spawners) /\ o.lifecycle = "active")
  BY <1>2 DEF Aware
<1> QED
  BY <1>4, <1>5, <1>6, <1>7, <1>8, <1>9

\* In a visit: the record is replaced by one of the same actor.
LEMMA VisitLives ==
    ASSUME PoolInv, LivesInv, NEW a \in Slots, NEW r \in Aware(a), NEW q, Put(a, q),
           q.slot = r.slot, q.definition = r.definition, r.lifecycle = "disabled" => q.lifecycle = "disabled",
           NEW n \in Nat, drops' = [drops EXCEPT ![a] = n],
           n = 0 \/ (~Born(a, r) /\ n + Due(q) <= drops[a] + Due(r)),
           floor' = floor, script'.defeated = script.defeated
    PROVE  LivesInv'
<1>1. /\ r.slot = actors[a].slot /\ r.definition = actors[a].definition
      /\ (actors[a].lifecycle = "disabled" => r = actors[a])
      /\ (~Born(a, r) => Due(r) <= Due(actors[a]))
  BY AwareLife DEF PoolInv
<1>2. drops[a] \in Nat /\ Due(r) \in {0, 1} /\ Due(q) \in {0, 1} /\ Due(actors[a]) \in {0, 1}
  BY PoolParts, DueRange DEF RestOK
<1>3. n = 0 \/ (q.definition = actors[a].definition /\ n + Due(q) <= drops[a] + Due(actors[a]))
  BY <1>1, <1>2
<1>4. IsPlacedBoss(q) => IsPlacedBoss(actors[a])
  BY <1>1 DEF IsPlacedBoss
<1> QED
  BY <1>1, <1>3, <1>4, PutLives

\* A selection after an action that has ended leaves the same actor.
LEMMA EndedLife ==
    ASSUME NEW a, NEW r \in Living, r.action \notin {"dying", "gone"}, NEW fx,
           NEW s \in Selected(a, [r EXCEPT !.progress = Complete], fx)
    PROVE  s.slot = r.slot /\ s.definition = r.definition /\ s.lifecycle = r.lifecycle
<1> DEFINE q == [r EXCEPT !.progress = Complete]
<1>1. q \in Living /\ q.slot = r.slot /\ q.lifecycle = r.lifecycle /\ s \in Selected(a, q, fx)
  BY CompletedLiving
<1>2. q.definition = r.definition
  BY LivingType DEF Actor
<1> HIDE DEF q
<1> QED
  BY <1>1, <1>2, SelectedLife

\* Actions that are no death leave the same actor.
LEMMA ActionLife ==
    ASSUME NEW a \in Slots, NEW r \in Living, Other(a, r) \/ Exit(a, r) \/ HitReaction(a, r) \/ Summon(a, r)
    PROVE  \E q : Put(a, q) /\ q.slot = r.slot /\ q.definition = r.definition
<1>1. r \in Actor
  BY LivingType
<1>2. CASE Other(a, r) \/ Exit(a, r)
  <2>1. PICK q : /\ Put(a, q)
                 /\ \/ \E p : q = [r EXCEPT !.progress = p]
                    \/ q \in Selected(a, [r EXCEPT !.progress = Complete], spawners)
    BY <1>2 DEF Other, Exit
  <2>2. CASE q \in Selected(a, [r EXCEPT !.progress = Complete], spawners)
    BY <2>1, <2>2, <1>2, EndedLife DEF Other, Exit
  <2>3. CASE \E p : q = [r EXCEPT !.progress = p]
    BY <2>1, <2>3, <1>1 DEF Actor
  <2> QED
    BY <2>1, <2>2, <2>3
<1>3. CASE HitReaction(a, r)
  <2> DEFINE q == Advanced(r, Running)
  <2>1. q \in Living /\ q.action = "hit" /\ q.slot = r.slot /\ q.definition = r.definition
    BY <1>3, AdvancedLiving DEF HitReaction
  <2>2. Put(a, q) \/ \E s \in Selected(a, [q EXCEPT !.progress = Complete], spawners) : Put(a, s)
    BY <1>3 DEF HitReaction
  <2> HIDE DEF q
  <2> QED
    BY <2>1, <2>2, EndedLife
<1>4. CASE Summon(a, r)
  <2> DEFINE q == Advanced(r, Locked)
  <2>1. q \in Living /\ q.action = "summon" /\ q.slot = r.slot /\ q.definition = r.definition
    BY <1>4, AdvancedLiving DEF Summon
  <2>2. \E fx : Put(a, q) \/ \E s \in Selected(a, [q EXCEPT !.progress = Complete], fx) : Put(a, s)
    BY <1>4 DEF Summon
  <2> HIDE DEF q
  <2> QED
    BY <2>1, <2>2, EndedLife
<1> QED
  BY <1>2, <1>3, <1>4

\* None of these actions drops anything.
LEMMA ActionLives ==
    ASSUME PoolInv, LivesInv, NEW a \in Slots, NEW r \in Aware(a), r.lifecycle = "active",
           Other(a, r) \/ Exit(a, r) \/ HitReaction(a, r) \/ Summon(a, r)
    PROVE  LivesInv'
<1>1. r \in Living
  BY AwareLiving DEF PoolInv
<1>2. PICK q : Put(a, q) /\ q.slot = r.slot /\ q.definition = r.definition
  BY <1>1, ActionLife
<1>3. Due(r) = 1 /\ Due(q) \in {0, 1} /\ drops[a] \in Nat
  BY DueRange, PoolParts DEF Other, Exit, HitReaction, Summon, RestOK
<1>4. Born(a, r) => r.action # "hit"
  BY AwareLife DEF PoolInv
<1>5. drops' = [drops EXCEPT ![a] = IF Born(a, r) THEN 0 ELSE drops[a]]
  <2>1. CASE HitReaction(a, r)
    BY <1>4, <2>1, PoolParts DEF HitReaction, RestOK
  <2>2. CASE ~HitReaction(a, r)
    BY <2>2, PoolParts DEF Other, Exit, Summon, Lives, RestOK
  <2> QED
    BY <2>1, <2>2
<1>6. floor' = floor /\ script' = script
  BY DEF Other, Exit, HitReaction, Summon
<1>7. CASE Born(a, r)
  <2>1. drops' = [drops EXCEPT ![a] = 0] /\ 0 \in Nat
    BY <1>5, <1>7
  <2> QED
    BY <1>2, <1>6, <2>1, VisitLives
<1>8. CASE ~Born(a, r)
  <2>1. drops' = [drops EXCEPT ![a] = drops[a]]
    BY <1>5, <1>8
  <2>2. drops[a] + Due(q) <= drops[a] + Due(r)
    BY <1>3
  <2> QED
    BY <1>2, <1>3, <1>6, <1>8, <2>1, <2>2, VisitLives
<1> QED
  BY <1>7, <1>8

\* A death's animation crosses the phase of the drop once: where it does the drop
\* was due, and after it no longer is.
LEMMA DyingDue ==
    ASSUME NEW r \in Living, r.action = "dying", r.lifecycle = "active"
    PROVE  /\ Due(Advanced(r, Running)) <= Due(r)
           /\ Crossed(Advanced(r, Running), DropPhase) => Due(r) = 1 /\ Due(Advanced(r, Running)) = 0
<1> DEFINE q == Advanced(r, Running)
           from == IF r.progress = Starting THEN 0 ELSE r.phase
           next == Lesser(from + Step[r.definition], PhaseMax)
<1>1. r \in Actor
  BY LivingType
<1>2. from \in Nat /\ Step[r.definition] \in Nat /\ Step[r.definition] < PhaseMax - DropPhase /\ r.phase \in Nat
  BY <1>1, DropTypes DEF Actor
<1>3. q.phase = next
  BY <1>1 DEF Advanced, Actor
<1>4. q.action = "dying" /\ q.lifecycle = "active" /\ q.definition = r.definition /\ q.progress # Starting
  BY AdvancedLiving
<1> HIDE DEF q
<1>5. Spent(q) <=> next > DropPhase
  BY <1>3, <1>4 DEF Spent
<1>6. Spent(r) <=> r.progress # Starting /\ r.phase > DropPhase
  BY DEF Spent
<1>7. Crossed(q, DropPhase) <=> DropPhase < next /\ DropPhase >= next - Step[r.definition]
  BY <1>3, <1>4 DEF Crossed
<1>8. Spent(r) => next > DropPhase /\ ~(DropPhase >= next - Step[r.definition])
  BY <1>2, <1>6, DropTypes DEF Lesser
<1> HIDE DEF next
<1>9. Due(q) = (IF Spent(q) THEN 0 ELSE 1) /\ Due(r) = (IF Spent(r) THEN 0 ELSE 1)
  BY <1>4 DEF Due
<1> QED
  BY <1>5, <1>7, <1>8, <1>9 DEF q

\* A death that goes on drops what was due.
LEMMA DyingLives ==
    ASSUME PoolInv, LivesInv, NEW a \in Slots, NEW r \in Aware(a), r.lifecycle = "active", Dying(a, r)
    PROVE  LivesInv'
<1>1. r \in Living /\ r \in Actor /\ r.action = "dying" /\ ~Born(a, r)
  BY AwareLiving, AwareLife, LivingType DEF PoolInv, Dying
<1> DEFINE q == Advanced(r, Running)
           s == IF q.phase < PhaseMax THEN q ELSE SetAction(q, "gone")
           n == IF Crossed(q, DropPhase) THEN drops[a] + 1 ELSE drops[a]
<1>2. /\ q \in Actor /\ q.slot = r.slot /\ q.definition = r.definition /\ q.lifecycle = "active"
      /\ Due(q) <= Due(r) /\ (Crossed(q, DropPhase) => Due(r) = 1 /\ Due(q) = 0)
  BY <1>1, AdvancedLiving, LivingType, DyingDue
<1>3. Put(a, s) /\ drops' = (IF Crossed(q, DropPhase) THEN [drops EXCEPT ![a] = @ + 1] ELSE drops)
  BY DEF Dying
<1> HIDE DEF q
<1>4. s.slot = r.slot /\ s.definition = r.definition /\ s.lifecycle = "active" /\ (s = q \/ s.action = "gone")
  BY <1>2 DEF SetAction, Actor
<1> HIDE DEF s
<1>5. Due(s) <= Due(q)
  BY <1>4, DueRange DEF Due, Spent
<1>6. drops \in [Slots -> Nat]
  BY PoolParts DEF RestOK
<1>7. n \in Nat /\ drops' = [drops EXCEPT ![a] = n]
  <2>1. CASE Crossed(q, DropPhase)
    BY <1>3, <1>6, <2>1
  <2>2. CASE ~Crossed(q, DropPhase)
    BY <1>3, <1>6, <2>2
  <2> QED
    BY <2>1, <2>2
<1>8. n + Due(s) <= drops[a] + Due(r)
  BY <1>2, <1>5, <1>6, DueRange
<1>9. floor' = floor /\ script' = script
  BY DEF Dying
<1> HIDE DEF n
<1> QED
  BY <1>1, <1>3, <1>4, <1>7, <1>8, <1>9, VisitLives

\* The boss's end makes nobody another, and disables or leaves whoever is no part.
LEMMA BeginDeathsLife ==
    ASSUME NEW pool \in [Slots -> Living], NEW p \in BeginDeaths(pool), NEW b \in Slots
    PROVE  /\ p[b].slot = pool[b].slot /\ p[b].definition = pool[b].definition
           /\ (pool[b].lifecycle = "disabled" => p[b].lifecycle = "disabled")
           /\ p[b] = pool[b] \/ pool[b].definition \in Parts
<1>1. pool[b] \in Living /\ pool[b] \in Actor
  BY LivingType
<1>2. p[b] = pool[b] \/ (pool[b].definition \in Parts /\ p[b] \in {Resting(pool[b], "disabled")} \cup Struck(pool[b], "dying"))
  BY DEF BeginDeaths, MayBegin
<1>3. \A s \in Struck(pool[b], "dying") : s.definition = pool[b].definition
  BY <1>1 DEF Struck, SetAction, Actor
<1> QED
  BY <1>1, <1>2, <1>3, RestingLiving, BeginDeathsSteady

\* The boss drops nothing, and his end leaves no boss standing: he was placed
\* once, so his parts had one drop at most and may have another.
LEMMA BossDyingLives ==
    ASSUME PoolInv, LivesInv, NEW a \in Slots, NEW r \in Aware(a), r.lifecycle = "active", actors[a].slot # "free",
           BossDying(a, r)
    PROVE  LivesInv'
<1>1. /\ r \in Living /\ r.action = "dying" /\ ~Born(a, r) /\ r.slot = actors[a].slot
      /\ r.definition = actors[a].definition /\ actors[a].lifecycle # "disabled"
  BY AwareLiving, AwareLife DEF PoolInv, BossDying
<1> DEFINE q == Advanced(r, Running)
           base == [actors EXCEPT ![a] = Resting(q, "disabled")]
<1>2. q \in Living /\ q \in Actor /\ q.slot = r.slot /\ q.definition = r.definition /\ Due(q) <= Due(r)
  BY <1>1, AdvancedLiving, LivingType, DyingDue
<1>3. /\ \/ Put(a, q) /\ UNCHANGED script
         \/ actors' \in BeginDeaths(base) /\ script' = [script EXCEPT !.defeated = TRUE]
      /\ floor' = floor /\ drops' = drops /\ floor = BossFloor /\ r.definition = Boss
  BY DEF BossDying, IsBoss
<1> HIDE DEF q
<1>4. drops \in [Slots -> Nat] /\ script'.defeated \in BOOLEAN
  BY <1>3, PoolParts DEF RestOK
<1>5. CASE Put(a, q) /\ UNCHANGED script
  <2>1. drops' = [drops EXCEPT ![a] = drops[a]] /\ drops[a] \in Nat /\ drops[a] + Due(q) <= drops[a] + Due(r)
    BY <1>2, <1>3, <1>4, DueRange
  <2> QED
    BY <1>1, <1>2, <1>3, <1>5, <2>1, VisitLives
<1>6. CASE actors' \in BeginDeaths(base) /\ script' = [script EXCEPT !.defeated = TRUE]
  <2> DEFINE rest == Resting(q, "disabled")
  <2>1. rest \in Living /\ rest.slot = r.slot /\ rest.definition = r.definition /\ rest.lifecycle = "disabled"
    BY <1>2, RestingLiving
  <2> HIDE DEF rest
  <2>2. base \in [Slots -> Living] /\ base[a] = rest /\ \A b \in Slots \ {a} : base[b] = actors[b]
    BY <2>1 DEF PoolInv, rest
  <2> HIDE DEF base
  <2>3. \A b \in Slots : /\ actors'[b].slot = base[b].slot /\ actors'[b].definition = base[b].definition
                         /\ (base[b].lifecycle = "disabled" => actors'[b].lifecycle = "disabled")
                         /\ actors'[b] = base[b] \/ base[b].definition \in Parts
    BY <1>6, <2>2, BeginDeathsLife
  <2>4. \A b \in Slots : actors'[b].slot = actors[b].slot /\ actors'[b].definition = actors[b].definition
    BY <1>1, <2>1, <2>2, <2>3
  <2>5. \A b \in Slots : IsPlacedBoss(actors'[b]) <=> IsPlacedBoss(actors[b])
    BY <2>4 DEF IsPlacedBoss
  <2>6. PlacedBosses(actors', floor')
    BY <1>3, <2>5, LivesNow DEF PlacedBosses
  <2>7. IsPlacedBoss(actors[a]) /\ BossStands
    BY <1>1, <1>3 DEF IsPlacedBoss, BossStands
  <2>8. \A b \in Slots : IsPlacedBoss(actors[b]) => b = a
    BY <1>3, <2>7, BossAssumption, LivesNow DEF IsPlacedBoss, PlacedBosses
  <2>9. ~BossStands'
    BY <2>1, <2>2, <2>3, <2>5, <2>8 DEF BossStands
  <2>10. ASSUME NEW c \in Slots
         PROVE  drops'[c] + Due(actors'[c]) <= Limit(script'.defeated, BossStands', actors'[c])
    <3>1. drops[c] \in Nat /\ drops[c] + Due(actors[c]) <= 1
      BY <1>4, <2>7, LivesNow DEF Limit
    <3>2. Due(actors[c]) \in {0, 1} /\ Due(actors'[c]) \in {0, 1} /\ script'.defeated = TRUE
      BY <1>6, PoolParts, DueRange DEF RestOK
    <3>3. CASE actors[c].definition \in Parts
      BY <1>3, <2>4, <2>9, <3>1, <3>2, <3>3 DEF Limit
    <3>4. CASE actors[c].definition \notin Parts /\ c # a
      <4>1. actors'[c] = actors[c]
        BY <2>2, <2>3, <3>4
      <4> QED
        BY <1>3, <3>1, <3>4, <4>1 DEF Limit
    <3>5. CASE c = a
      <4>1. Due(actors'[c]) = 0
        BY <2>1, <2>2, <2>3, <3>5 DEF Due
      <4> QED
        BY <1>3, <3>1, <3>2, <4>1 DEF Limit
    <3> QED
      BY <3>3, <3>4, <3>5
  <2> QED
    BY <2>6, <2>10, LivesNext
<1> QED
  BY <1>3, <1>5, <1>6

\* What comes after the drop counts none, and a transformation begins a life.
LEMMA AfterDeathLives ==
    ASSUME PoolInv, LivesInv, NEW a \in Slots, NEW r \in Aware(a), r.lifecycle = "active",
           Transform(a, r) \/ PostDeath(a, r)
    PROVE  LivesInv'
<1>1. r \in Living /\ r \in Actor /\ r.action = "gone" /\ ~Born(a, r)
  BY AwareLiving, AwareLife, LivingType DEF PoolInv, Transform, PostDeath
<1>2. floor' = floor /\ script' = script /\ drops \in [Slots -> Nat]
  BY PoolParts DEF Transform, PostDeath, RestOK
<1>3. CASE Transform(a, r)
  <2> DEFINE q == Initialized([r EXCEPT !.definition = Result])
  <2>1. Put(a, q) /\ drops' = [drops EXCEPT ![a] = 0] /\ floor # BossFloor
    BY <1>3, BossAssumption DEF Transform
  <2> HIDE DEF q
  <2> QED
    BY <1>2, <2>1, PutLives
<1>4. CASE PostDeath(a, r)
  <2>1. PICK q : Put(a, q) /\ (q = [r EXCEPT !.progress = @ + 1] \/ \E l \in {"dormant", "waiting", "disabled"} : q = Resting(r, l))
    BY <1>4 DEF PostDeath
  <2>2. q.slot = r.slot /\ q.definition = r.definition /\ Due(q) = 0
    <3>1. CASE q = [r EXCEPT !.progress = @ + 1]
      BY <1>1, <3>1 DEF Due, Spent, Actor
    <3>2. CASE \E l \in {"dormant", "waiting", "disabled"} : q = Resting(r, l)
      BY <1>1, <3>2, RestingLiving DEF Due
    <3> QED
      BY <2>1, <3>1, <3>2
  <2>3. drops' = [drops EXCEPT ![a] = drops[a]] /\ drops[a] \in Nat
    BY <1>2, <1>4 DEF PostDeath
  <2>4. drops[a] + Due(q) <= drops[a] + Due(r)
    BY <2>2, <2>3, DueRange
  <2> QED
    BY <1>1, <1>2, <2>1, <2>2, <2>3, <2>4, VisitLives
<1> QED
  BY <1>3, <1>4

\* Every visit keeps to one drop a life.
LEMMA ActorVisitLives == ASSUME PoolInv, LivesInv, NEW a \in Slots, Visit(a) PROVE LivesInv'
<1>1. PICK r \in Aware(a) :
         \/ Settle(a, r)
         \/ /\ r.lifecycle = "active"
            /\ \/ Other(a, r) \/ Exit(a, r) \/ HitReaction(a, r) \/ Summon(a, r)
               \/ Dying(a, r) \/ BossDying(a, r) \/ Transform(a, r) \/ PostDeath(a, r)
  BY DEF Visit
<1>2. CASE Settle(a, r)
  <2>1. Due(r) = 0 /\ ~Born(a, r) /\ Put(a, r) /\ floor' = floor /\ script' = script
    BY <1>2 DEF Settle, Due, Born
  <2>2. drops[a] \in Nat /\ drops' = [drops EXCEPT ![a] = drops[a]]
    BY <1>2, PoolParts DEF Settle, RestOK
  <2>3. drops[a] + Due(r) <= drops[a] + Due(r)
    BY <2>1, <2>2
  <2> QED
    BY <2>1, <2>2, <2>3, VisitLives
<1>3. actors[a].slot # "free"
  BY DEF Visit
<1> QED
  BY <1>1, <1>2, <1>3, ActionLives, DyingLives, BossDyingLives, AfterDeathLives

\* A blow finds nobody who has spent his drop.
LEMMA DamageLives == ASSUME PoolInv, LivesInv, NEW a \in Slots, Damage(a) PROVE LivesInv'
<1>1. actors[a] \in Living /\ actors[a] \in Actor
  BY LivingType DEF PoolInv
<1>2. PICK damage \in 1 .. actors[a].health + 1 :
         LET r == actors[a]
             left == [r EXCEPT !.health = IF damage >= r.health THEN 0 ELSE r.health - damage]
         IN  actors' \in {[actors EXCEPT ![a] = s] :
                s \in CASE left.health = 0 /\ r.definition \in WithDeath -> Struck(left, "dying")
                        [] left.health # 0 /\ r.definition \in WithHit -> Struck(left, "hit")
                        [] OTHER -> {left}}
  BY DEF Damage
<1> DEFINE r == actors[a]
           left == [r EXCEPT !.health = IF damage >= r.health THEN 0 ELSE r.health - damage]
<1>3. left.slot = r.slot /\ left.definition = r.definition /\ left.lifecycle = r.lifecycle
  BY <1>1 DEF Actor
<1>4. \A action : \A s \in Struck(left, action) : s.slot = left.slot /\ s.definition = left.definition
                                                    /\ s.lifecycle = left.lifecycle
  BY <1>1 DEF Struck, SetAction, Actor
<1>5. PICK s \in CASE left.health = 0 /\ r.definition \in WithDeath -> Struck(left, "dying")
                   [] left.health # 0 /\ r.definition \in WithHit -> Struck(left, "hit")
                   [] OTHER -> {left} : Put(a, s)
  BY <1>2 DEF Put
<1> HIDE DEF left, r
<1>6. s.slot = r.slot /\ s.definition = r.definition /\ s.lifecycle = r.lifecycle
  <2>1. CASE left.health = 0 /\ r.definition \in WithDeath
    BY <1>3, <1>4, <1>5, <2>1
  <2>2. CASE left.health # 0 /\ r.definition \in WithHit
    BY <1>3, <1>4, <1>5, <2>2
  <2>3. CASE ~(left.health = 0 /\ r.definition \in WithDeath) /\ ~(left.health # 0 /\ r.definition \in WithHit)
    BY <1>3, <1>5, <2>3
  <2> QED
    BY <2>1, <2>2, <2>3
<1>7. Due(actors[a]) = 1
  <2>1. actors[a].phase \in Int
    BY <1>1, DropTypes DEF Actor
  <2> QED
    BY <2>1, DropTypes DEF Damage, Vulnerable, Due, Spent
<1>8. drops[a] \in Nat /\ drops' = [drops EXCEPT ![a] = drops[a]] /\ floor' = floor /\ script' = script
  BY PoolParts DEF Damage, RestOK
<1>9. drops[a] + Due(s) <= drops[a] + Due(actors[a])
  BY <1>7, <1>8, DueRange
<1>10. IsPlacedBoss(s) => IsPlacedBoss(actors[a])
  BY <1>6 DEF IsPlacedBoss, r
<1> QED
  BY <1>5, <1>6, <1>8, <1>9, <1>10, PutLives DEF r

\* A step that leaves the pool, the floor and the boss's defeat as they are.
LEMMA RestLives ==
    ASSUME LivesInv, UNCHANGED <<actors, floor, drops>>, script'.defeated = script.defeated
    PROVE  LivesInv'
BY DEF LivesInv, Allowed, BossStands

\* A summon begins a life and makes no boss.
LEMMA SpawnerLives ==
    ASSUME PoolInv, LivesInv, NEW e \in Effects, SummonArrives(e) \/ SummonMoves(e) PROVE LivesInv'
<1>1. floor' = floor /\ script' = script
  BY DEF SummonArrives, SummonMoves
<1>2. CASE UNCHANGED <<actors, drops>>
  BY <1>1, <1>2, RestLives
<1>3. CASE SummonArrives(e) /\ Free # {}
  <2> DEFINE f == CHOOSE s \in Free : \A t \in Free : s <= t
  <2>1. PICK d \in Summoned :
             Put(f, SetAction(Initialized([actors[f] EXCEPT !.slot = "dynamic", !.definition = d]), "other"))
    BY <1>3 DEF SummonArrives
  <2>2. f \in Slots
    BY <1>3, FirstFree DEF Free
  <2>3. drops' = [drops EXCEPT ![f] = 0]
    BY <1>3 DEF SummonArrives
  <2> HIDE DEF f
  <2> DEFINE bare == [actors[f] EXCEPT !.slot = "dynamic", !.definition = d]
             q == SetAction(Initialized(bare), "other")
  <2>4. actors[f] \in Actor /\ d \in Definitions
    BY <2>2, ConstantTypes, LivingType DEF PoolInv
  <2>5. bare \in Actor /\ bare.definition = d
    BY <2>4 DEF Actor, SlotStates
  <2> HIDE DEF bare
  <2>6. q.definition = d
    BY <2>5, InitializedLiving, SetActionLiving
  <2>7. Put(f, q)
    BY <2>1 DEF bare
  <2>8. ~IsPlacedBoss(q)
    BY <2>6, BossAssumption DEF IsPlacedBoss
  <2> HIDE DEF q
  <2> QED
    BY <1>1, <2>2, <2>3, <2>7, <2>8, PutLives
<1> QED
  BY <1>2, <1>3 DEF SummonArrives, SummonMoves

\* The gate begins a life on a floor without a boss.
LEMMA ScriptLives == ASSUME PoolInv, LivesInv, EnterGate \/ LeaveGate \/ MeetBoss PROVE LivesInv'
<1>1. floor' = floor /\ script'.defeated = script.defeated
  BY PoolParts DEF EnterGate, LeaveGate, MeetBoss, RestOK
<1>2. CASE UNCHANGED <<actors, drops>>
  BY <1>1, <1>2, RestLives
<1>3. CASE LeaveGate /\ actors[GateSlot].slot # "free"
  <2>1. /\ Put(GateSlot, Initialized(actors[GateSlot])) /\ drops' = [drops EXCEPT ![GateSlot] = 0]
        /\ floor # BossFloor /\ GateSlot \in Slots
    BY <1>3, BossAssumption, ConstantTypes DEF LeaveGate
  <2> QED
    BY <1>1, <2>1, PutLives
<1> QED
  BY <1>2, <1>3 DEF EnterGate, LeaveGate, MeetBoss

\* A load keeps the placements' definitions.
LEMMA LoadedDefinitions ==
    ASSUME NEW f \in Floors, NEW kept \in [Floors -> Kinds \cup {None}], NEW b \in Slots
    PROVE  Loaded(f, kept)[b].definition = Placements[f][b].definition
<1> DEFINE old == Restored(f, kept)
           new == Gated(f, old)
<1>1. old[b].definition = Placements[f][b].definition
  BY DEF Restored, Placed, Resting
<1>2. old = [c \in Slots |-> old[c]] /\ DOMAIN old[b] = {"slot", "definition", "lifecycle", "action", "progress", "phase", "health"}
  BY DEF Restored, Placed, Resting
<1> HIDE DEF old
<1>3. new[b].definition = old[b].definition
  BY <1>2 DEF Gated
<1> HIDE DEF new
<1>4. Fallen(new)[b].definition = new[b].definition
  BY DEF Fallen, Resting
<1>5. Loaded(f, kept) \in {new, Fallen(new)}
  BY DEF Loaded, new, old
<1> QED
  BY <1>1, <1>3, <1>4, <1>5

\* On a floor just loaded nobody acts, and who is a boss was placed as one.
LEMMA LoadedLives ==
    ASSUME NEW f \in Floors, NEW kept \in [Floors -> Kinds \cup {None}]
    PROVE  /\ \A c \in Slots : Due(Loaded(f, kept)[c]) = 0
           /\ PlacedBosses(Loaded(f, kept), f)
BY LoadedLiving, LoadedSlots, LoadedDefinitions DEF Due, PlacedBosses, IsPlacedBoss

\* LivesInv is inductive, given PoolInv.
LEMMA NextLives == PoolInv /\ LivesInv /\ [Next]_vars => LivesInv'
<1> SUFFICES ASSUME PoolInv, LivesInv, [Next]_vars PROVE LivesInv'
  OBVIOUS
<1>1. CASE UNCHANGED vars
  BY <1>1, RestLives DEF vars
<1>2. ASSUME NEW f \in Floors, ChangeFloor(f) PROVE LivesInv'
  <2> DEFINE kept == [records EXCEPT ![floor] = Persisted]
  <2>1. kept \in [Floors -> Kinds \cup {None}]
    BY PoolParts, KeptTypes
  <2>2. actors' = Loaded(f, kept) /\ floor' = f /\ drops' = [b \in Slots |-> 0]
    BY <1>2 DEF ChangeFloor
  <2> HIDE DEF kept
  <2>3. \A c \in Slots : drops'[c] + Due(actors'[c]) <= Limit(script'.defeated, BossStands', actors'[c])
    BY <2>1, <2>2, LoadedLives DEF Limit
  <2> QED
    BY <2>1, <2>2, <2>3, LoadedLives, LivesNext
<1>3. CASE Next
  BY <1>2, <1>3, ActorVisitLives, DamageLives, SpawnerLives, ScriptLives DEF Next
<1> QED
  BY <1>1, <1>3

\* A new game has no drop.
LEMMA InitLives == Init => LivesInv
<1> SUFFICES ASSUME Init PROVE LivesInv
  OBVIOUS
<1>1. FirstFloor \in Floors /\ records \in [Floors -> Kinds \cup {None}]
  BY ActorAssumption DEF Init
<1>2. actors = Loaded(FirstFloor, records) /\ floor = FirstFloor /\ drops = [b \in Slots |-> 0]
  BY DEF Init
<1>3. \A c \in Slots : drops[c] + Due(actors[c]) <= Limit(script.defeated, BossStands, actors[c])
  BY <1>1, <1>2, LoadedLives DEF Limit
<1> QED
  BY <1>1, <1>2, <1>3, LoadedLives, LivesNow

-----------------------------------------------------------------------------
(* The theorems                                                             *)

\* Whatever the pool's size, the placements and the order of visits, hits,
\* effects and loads, every field keeps its range (actor_pool_update, map_load).
THEOREM Types == Spec => []TypeOK
<1>1. PoolInv => TypeOK
  BY DEF PoolInv
<1> QED
  BY <1>1, InitPool, NextPool, PTL DEF Spec

\* An actor that has lost its last health and has a death to die is dying or
\* gone: no selection, reaction, transformation or script makes it act again.
THEOREM TheDeadDoNotAct == Spec => []DeadDoNotAct
<1>1. PoolInv => DeadDoNotAct
  BY LivingType DEF PoolInv, DeadDoNotAct, LifeOK
<1> QED
  BY <1>1, InitPool, NextPool, PTL DEF Spec

\* A kept actor whose death has ended stays disabled, in the pool while its floor
\* is loaded and in the floor's record while it is not: no awareness, script,
\* blast or load brings it back (map_world_state_persist, map_restore_floor_state).
THEOREM TheSlainStaySlain == Spec => []SlainStaySlain
<1>1. PoolInv /\ SlainInv => SlainStaySlain
  BY DEF SlainInv
<1> QED
  BY <1>1, InitPool, NextPool, InitSlain, NextSlain, PTL DEF Spec

\* However many casters there are and however their frames interleave, one of
\* them at most is about to summon, and none while a summon is in flight
\* (actor_try_select_profiled_action, actor_update_effect_action).
THEOREM OneSummonAtATime == Spec => []SummonsOneAtATime
BY InitPool, NextPool, InitOne, NextOne, PTL DEF Spec

\* However blasts, the boss's end and the loads of floors interleave with the
\* animation of a death, it passes the phase of the drop once in each life, and
\* once more for a part whom the boss's end makes fall again (actor_behavior.c,
\* actor_apply_damage, actor_pool_begin_death_by_definition).
THEOREM OneDropInEachLife == Spec => []OneDropPerLife
<1>1. PoolInv /\ LivesInv => OneDropPerLife
  <2> SUFFICES ASSUME PoolInv, LivesInv, NEW a \in Slots
               PROVE  drops[a] <= IF script.defeated /\ actors[a].definition \in Parts THEN 2 ELSE 1
    BY DEF OneDropPerLife
  <2>1. drops[a] + Due(actors[a]) <= Limit(script.defeated, BossStands, actors[a])
    BY LivesNow
  <2>2. drops[a] \in Nat /\ Due(actors[a]) \in {0, 1}
    BY PoolParts, DueRange DEF RestOK
  <2> QED
    BY <2>1, <2>2 DEF Limit
<1> QED
  BY <1>1, InitPool, NextPool, InitLives, NextLives, PTL DEF Spec
=============================================================================
