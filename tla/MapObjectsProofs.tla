-------------------------- MODULE MapObjectsProofs --------------------------
(***************************************************************************)
(* Theorems about the authored objects of a floor for any placements of    *)
(* any floors that fit the pool: doors and the grid agree, effects stay    *)
(* with their objects, and what was opened, released or taken stays so     *)
(* through links, floors, saves and loads, and every item of the           *)
(* placements is in one place.                                             *)
(*                                                                         *)
(* What a step does to one object is Gentle, and what leaves the doors of  *)
(* the sweep alone is Calm; a floor that is entered is made of its         *)
(* placements and its record, whatever lay in the slots before. Items are  *)
(* counted as one finite set of places, which a step leaves alone or takes *)
(* one place from.                                                         *)
(***************************************************************************)
EXTENDS MapObjects, FiniteSetTheorems, WellFoundedInduction, TLAPS

-----------------------------------------------------------------------------
(* The placements.                                                         *)

LEMMA ObjectConstants ==
    /\ FirstFloor \in Floors /\ StoneFloor \in Floors /\ BossFloor \in Floors
    /\ Size \in Nat \ {0} /\ EffectCapacity \in Nat /\ Required \in Nat \ {0}
    /\ StackCapacity \in Nat \ {0} /\ SettleEnd \in Nat \ {0} /\ SwitchSteps \in Nat \ {0}
    /\ Cooldown \in Nat /\ MaxSaves \in Nat
    /\ OpenLast \in Nat /\ HoldFirst \in Nat /\ CloseFirst \in Nat /\ CloseEnd \in Nat
    /\ OpenLast < HoldFirst /\ HoldFirst <= CloseFirst /\ CloseFirst < CloseEnd
    /\ NoLink \notin Links /\ BossLink \in OneShot /\ OneShot \cap Reusable = {}
    /\ None \notin Items /\ None \notin Kinds /\ Keys \subseteq Items /\ Stones \subseteq Items
  BY MapObjectAssumption DEF MapObjectAssumption

\* A slot of a floor's list is a slot of the pool and holds a placement.
LEMMA PlacedSlots ==
    ASSUME NEW f \in Floors
    PROVE  /\ Placed(f) \subseteq Objects
           /\ \A o \in Placed(f) : Placements[f][o] \in Placement
           /\ \A o \in Placed(f) : 1 .. o \subseteq Placed(f)
  <1>1. Placements[f] \in Seq(Placement) /\ Len(Placements[f]) <= Size
    BY MapObjectAssumption DEF MapObjectAssumption
  <1> QED
    BY <1>1, ObjectConstants DEF Placed, Objects

\* The effects of a floor have one record each.
LEMMA EffectIndices ==
    ASSUME NEW f \in Floors
    PROVE  /\ \A o \in Placed(f) : EffectIndex(f, o) \in 0 .. EffectCapacity
           /\ \A o \in Placed(f) : Placements[f][o].kind \in WithEffect => EffectIndex(f, o) \in EffectSlots
           /\ \A o, q \in Placed(f) :
                /\ Placements[f][o].kind \in WithEffect /\ Placements[f][q].kind \in WithEffect
                /\ EffectIndex(f, o) = EffectIndex(f, q)
                => o = q
  <1> DEFINE All == {q \in Placed(f) : Placements[f][q].kind \in WithEffect}
             UpTo(o) == {q \in 1 .. o : Placements[f][q].kind \in WithEffect}
  <1>1. IsFiniteSet(All) /\ Cardinality(All) <= EffectCapacity
    <2>1. IsFiniteSet(Placed(f))
      <3>1. Len(Placements[f]) \in Int
        BY MapObjectAssumption DEF MapObjectAssumption
      <3> QED
        BY <3>1, FS_Interval DEF Placed
    <2>2. All \subseteq Placed(f)
      OBVIOUS
    <2> QED
      BY <2>1, <2>2, FS_Subset, PlacementAssumption DEF PlacementAssumption
  <1>2. ASSUME NEW o \in Placed(f)
        PROVE  /\ UpTo(o) \subseteq All /\ IsFiniteSet(UpTo(o))
               /\ Cardinality(UpTo(o)) \in 0 .. EffectCapacity
               /\ EffectIndex(f, o) = Cardinality(UpTo(o))
    <2>1. UpTo(o) \subseteq All
      BY PlacedSlots
    <2>2. IsFiniteSet(UpTo(o)) /\ Cardinality(UpTo(o)) <= Cardinality(All)
      BY <1>1, <2>1, FS_Subset
    <2>3. Cardinality(UpTo(o)) \in Nat /\ Cardinality(All) \in Nat
      BY <1>1, <2>2, FS_CardinalityType
    <2>4. EffectIndex(f, o) = Cardinality(UpTo(o))
      BY DEF EffectIndex
    <2> QED
      BY <1>1, <2>1, <2>2, <2>3, <2>4, ObjectConstants
  <1>3. ASSUME NEW o \in Placed(f), Placements[f][o].kind \in WithEffect
        PROVE  o \in UpTo(o) /\ Cardinality(UpTo(o)) \in EffectSlots
    <2>1. o \in UpTo(o)
      BY <1>3 DEF Placed
    <2>2. IsFiniteSet(UpTo(o)) /\ Cardinality(UpTo(o)) \in 0 .. EffectCapacity
      BY <1>2
    <2>3. Cardinality(UpTo(o)) # 0
      BY <2>1, <2>2, FS_EmptySet
    <2> HIDE DEF UpTo
    <2> QED
      BY <2>1, <2>2, <2>3, ObjectConstants DEF EffectSlots
  <1>4. ASSUME NEW o \in Placed(f), NEW q \in Placed(f), o < q, Placements[f][q].kind \in WithEffect
        PROVE  Cardinality(UpTo(o)) # Cardinality(UpTo(q))
    <2>1. UpTo(o) \subseteq UpTo(q) /\ q \in UpTo(q) /\ q \notin UpTo(o)
      BY <1>4 DEF Placed
    <2> QED
      BY <1>2, <2>1, FS_Subset
  <1>5. \A o, q \in Placed(f) : o < q \/ q < o \/ o = q
    BY DEF Placed
  <1> QED
    BY <1>2, <1>3, <1>4, <1>5

\* A slot beyond the list of some floor holds no object whose action runs on.
LEMMA BeyondTheList ==
    ASSUME NEW f \in Floors, NEW g \in Floors, NEW o \in Placed(g) \ Placed(f)
    PROVE  Placements[g][o].kind \in {"chest", "box", "pickup", "savepoint"}
  BY PlacementAssumption DEF PlacementAssumption

-----------------------------------------------------------------------------
(* Gentle and calm changes.                                                *)

\* An object stays what it is or is picked up, its link stays or goes, what it holds stays
\* or is taken, and only a door starts or stops.
Gentle(x, y) ==
    /\ (y.kind = x.kind /\ y.item = x.item) \/ (x.kind = "pickup" /\ y.kind = None)
    /\ y.effect = x.effect /\ y.link \in {x.link, NoLink}
    /\ \/ y.items = x.items
       \/ /\ x.kind \in {"chest", "box"} /\ DOMAIN y.items = DOMAIN x.items
          /\ \A k \in DOMAIN y.items : y.items[k] \in {x.items[k], None}
    /\ y.action = x.action \/ (x.kind = "door" /\ y.action \in {None, "door"})
\* A door that moves goes on moving, one that starts is at its first frame.
Calm(x, y) ==
    IF x.action = "door" THEN y.action = "door" /\ y.timer = x.timer
    ELSE y.action = "door" => y.timer = 0

LEMMA GentleSelf == \A x : Gentle(x, x)
  BY DEF Gentle

LEMMA GentleKeeps ==
    ASSUME NEW f, NEW o, NEW x, FromPlacement(f, o, x), NEW y, Gentle(x, y)
    PROVE  FromPlacement(f, o, y)
  <1>1. x.kind \in {"door", "chest", "box", "pickup"} => KindOf(f, o) = x.kind
    BY ObjectConstants DEF FromPlacement, Kinds
  <1>2. o \in Placed(f) => KindOf(f, o) = Placements[f][o].kind
    BY DEF KindOf
  <1>3. y.action \in ActionsOf(KindOf(f, o))
    BY <1>1 DEF FromPlacement, Gentle, ActionsOf, SelfStarting
  <1>4. y.kind = KindOf(f, o) \/ (y.kind = None /\ KindOf(f, o) = "pickup")
    BY <1>1 DEF FromPlacement, Gentle
  <1>5. ASSUME o \in Placed(f)
        PROVE  LET p == Placements[f][o]
               IN  /\ p.kind \in WithEffect => y.effect = EffectIndex(f, o)
                   /\ y.link \in {p.link, NoLink}
                   /\ p.kind \in Unlisted => y.items = p.items
                   /\ y.kind # None => y.item = p.item
    BY <1>1, <1>2, <1>5 DEF FromPlacement, Gentle, Unlisted
  <1> QED
    BY <1>3, <1>4, <1>5 DEF FromPlacement

\* The same object holds the same; what is gone holds nothing.
SameGoods(x, y) == y.kind = x.kind /\ (x.kind # None => y.item = x.item /\ y.items = x.items)
\* What a record or a load may do to an object.
Kept(x, y) == Forward(ViewOf(x), ViewOf(y)) /\ SameGoods(ViewOf(x), ViewOf(y))

LEMMA GentleForward ==
    ASSUME NEW x, NEW y, Gentle(x, y)
    PROVE  Forward(ViewOf(x), ViewOf(y))
  BY DEF Gentle, Forward, ViewOf

\* Firing a link.
LEMMA TriggerOne ==
    ASSUME NEW x \in ObjectType, NEW link
    PROVE  /\ Trigger(x, link) \in ObjectType
           /\ Gentle(x, Trigger(x, link)) /\ Calm(x, Trigger(x, link))
           /\ x.action \in Released /\ link # NoLink => Trigger(x, link).link # link
           /\ x.action \notin Released => Trigger(x, link).link = x.link
           /\ link \notin Reusable => Trigger(x, link).action = x.action
           /\ Trigger(x, link).timer = x.timer \/ Trigger(x, link).timer = 0
           /\ SameGoods(x, Trigger(x, link))
  <1>1. CASE x.action \in Released
    BY <1>1 DEF Trigger, ObjectType, Gentle, Calm, SameGoods, Released
  <1>2. CASE x.action \notin Released /\ x.kind = "door" /\ x.link = link /\ link \in Reusable /\ x.action = None
    <2>1. None # "door" /\ "door" \in Kinds
      BY ObjectConstants DEF Kinds
    <2> DEFINE y == [x EXCEPT !.action = "door", !.timer = 0]
    <2>2. Trigger(x, link) = y
      BY <1>2 DEF Trigger
    <2>3. /\ y \in ObjectType /\ y.action = "door" /\ y.timer = 0 /\ y.kind = x.kind
          /\ y.item = x.item /\ y.link = x.link /\ y.items = x.items /\ y.effect = x.effect
      BY <1>2, <2>1 DEF ObjectType
    <2> HIDE DEF y
    <2> QED
      BY <1>2, <2>1, <2>2, <2>3 DEF Gentle, Calm, SameGoods
  <1>3. CASE x.action \notin Released /\ ~(x.kind = "door" /\ x.link = link /\ link \in Reusable /\ x.action = None)
    BY <1>3, GentleSelf DEF Trigger, Calm, SameGoods
  <1> QED
    BY <1>1, <1>2, <1>3

\* Clearing a link of the doors and chests.
LEMMA ClearOne ==
    ASSUME NEW objects \in [Objects -> ObjectType], NEW link, NEW o \in Objects
    PROVE  LET y == ClearLink(objects, link)[o]
           IN  /\ y \in ObjectType /\ Gentle(objects[o], y) /\ Calm(objects[o], y)
               /\ SameGoods(objects[o], y)
               /\ y.action = objects[o].action /\ y.timer = objects[o].timer
               /\ objects[o].kind \notin {"door", "chest"} => y.link = objects[o].link
  <1>1. CASE objects[o].kind \in {"door", "chest"} /\ objects[o].link = link
    <2>1. ClearLink(objects, link)[o] = [objects[o] EXCEPT !.link = NoLink]
      BY <1>1 DEF ClearLink
    <2> QED
      BY <1>1, <2>1 DEF ObjectType, Gentle, Calm, SameGoods
  <1>2. CASE ~(objects[o].kind \in {"door", "chest"} /\ objects[o].link = link)
    <2>1. ClearLink(objects, link)[o] = objects[o]
      BY <1>2 DEF ClearLink
    <2> QED
      BY <2>1, GentleSelf DEF Calm, SameGoods
  <1> QED
    BY <1>1, <1>2

\* What the kind of an object says of its action.
LEMMA ActionOfKind ==
    ASSUME NEW f \in Floors, NEW o, NEW x, FromPlacement(f, o, x)
    PROVE  /\ x.kind \in SelfStarting => x.action = x.kind
           /\ x.action # None => x.kind = x.action
           /\ o \in Placed(f) /\ Placements[f][o].kind \in SelfStarting \cup {"door"} => x.kind = Placements[f][o].kind
           /\ KindOf(f, o) \in {"chest", "box", "pickup", "savepoint", None} => x.action = None
  <1>1. KindOf(f, o) \in Kinds \cup {None}
    BY PlacedSlots DEF KindOf, Placement
  <1> QED
    BY <1>1, ObjectConstants DEF FromPlacement, ActionsOf, SelfStarting, Kinds, KindOf

\* Gentle steps keep what waits for no fired link, if a switch or a socket loses its link
\* only when nothing waits for it.
LEMMA FiredStayGone ==
    ASSUME NEW f \in Floors, NEW old, NEW new, OfFloor(f, old),
           \A o \in Objects : Gentle(old[o], new[o]),
           \A a \in Placed(f) : Placements[f][a].kind \in {"switch", "socket"} =>
               \/ new[a].link = old[a].link
               \/ \A b \in Placed(f) : new[b].kind \in Released => new[b].link # old[a].link
    PROVE  OfFloor(f, new)
  <1>1. \A o \in Objects : FromPlacement(f, o, new[o])
    BY GentleKeeps DEF OfFloor
  <1>2. ASSUME NEW a \in Placed(f), NEW b \in Placed(f),
               Placements[f][a].kind \in {"switch", "socket"}, Placements[f][a].link \in OneShot,
               new[a].link = NoLink, new[b].kind \in Released
        PROVE  new[b].link # Placements[f][a].link
    <2>1. a \in Objects /\ b \in Objects
      BY PlacedSlots
    <2>2. Placements[f][a].link # NoLink
      BY <1>2, ObjectConstants DEF Links
    <2>3. old[b].kind \in Released /\ new[b].link \in {old[b].link, NoLink}
      BY <1>2, <2>1, ObjectConstants DEF Gentle, Released, Kinds
    <2>4. CASE old[a].link = NoLink
      BY <1>2, <2>2, <2>3, <2>4 DEF OfFloor, FiredAreGone
    <2>5. CASE old[a].link # NoLink
      <3>1. old[a].link = Placements[f][a].link
        BY <2>1, <2>5 DEF OfFloor, FromPlacement
      <3> QED
        BY <1>2, <2>5, <3>1
    <2> QED
      BY <2>4, <2>5
  <1> QED
    BY <1>1, <1>2 DEF OfFloor, FiredAreGone

LEMMA FireKeeps ==
    ASSUME NEW f \in Floors, NEW objects \in [Objects -> ObjectType], OfFloor(f, objects), NEW link
    PROVE  /\ TriggerLink(objects, link) \in [Objects -> ObjectType]
           /\ OfFloor(f, TriggerLink(objects, link))
           /\ \A o \in Objects : /\ Gentle(objects[o], TriggerLink(objects, link)[o])
                                 /\ Calm(objects[o], TriggerLink(objects, link)[o])
  <1>1. \A o \in Objects : TriggerLink(objects, link)[o] = Trigger(objects[o], link)
    BY DEF TriggerLink
  <1>2. \A o \in Objects : /\ TriggerLink(objects, link)[o] \in ObjectType
                           /\ Gentle(objects[o], TriggerLink(objects, link)[o])
                           /\ Calm(objects[o], TriggerLink(objects, link)[o])
    BY <1>1, TriggerOne
  <1>3. ASSUME NEW a \in Placed(f), Placements[f][a].kind \in {"switch", "socket"}
        PROVE  TriggerLink(objects, link)[a].link = objects[a].link
    <2>1. a \in Objects /\ FromPlacement(f, a, objects[a])
      BY PlacedSlots DEF OfFloor
    <2>2. objects[a].action \notin Released
      BY <1>3, <2>1, ActionOfKind DEF SelfStarting, Released
    <2> QED
      BY <1>1, <2>1, <2>2, TriggerOne
  <1>4. OfFloor(f, TriggerLink(objects, link))
    BY <1>2, <1>3, FiredStayGone
  <1> QED
    BY <1>2, <1>4 DEF TriggerLink

\* A link that was fired holds nothing back.
LEMMA FiredIsGone ==
    ASSUME NEW f \in Floors, NEW objects \in [Objects -> ObjectType], OfFloor(f, objects),
           NEW link, link # NoLink, NEW b \in Placed(f),
           TriggerLink(objects, link)[b].kind \in Released
    PROVE  TriggerLink(objects, link)[b].link # link
  <1>1. b \in Objects /\ FromPlacement(f, b, objects[b])
    BY PlacedSlots DEF OfFloor
  <1>2. TriggerLink(objects, link)[b] = Trigger(objects[b], link)
    BY <1>1 DEF TriggerLink
  <1>3. objects[b].kind \in Released
    BY <1>1, <1>2, TriggerOne, ObjectConstants DEF Gentle, Released, Kinds
  <1>4. objects[b].action \in Released
    BY <1>1, <1>3, ActionOfKind DEF SelfStarting, Released
  <1> QED
    BY <1>1, <1>2, <1>4, TriggerOne

LEMMA ClearKeeps ==
    ASSUME NEW f \in Floors, NEW objects \in [Objects -> ObjectType], OfFloor(f, objects), NEW link
    PROVE  /\ ClearLink(objects, link) \in [Objects -> ObjectType]
           /\ OfFloor(f, ClearLink(objects, link))
           /\ \A o \in Objects : /\ Gentle(objects[o], ClearLink(objects, link)[o])
                                 /\ Calm(objects[o], ClearLink(objects, link)[o])
  <1>1. \A o \in Objects : /\ ClearLink(objects, link)[o] \in ObjectType
                           /\ Gentle(objects[o], ClearLink(objects, link)[o])
                           /\ Calm(objects[o], ClearLink(objects, link)[o])
    BY ClearOne
  <1>2. ASSUME NEW a \in Placed(f), Placements[f][a].kind \in {"switch", "socket"}
        PROVE  ClearLink(objects, link)[a].link = objects[a].link
    <2>1. a \in Objects /\ FromPlacement(f, a, objects[a])
      BY PlacedSlots DEF OfFloor
    <2>2. objects[a].kind \notin {"door", "chest"}
      BY <1>2, <2>1, ActionOfKind DEF SelfStarting
    <2> QED
      BY <2>1, <2>2, ClearOne
  <1>3. OfFloor(f, ClearLink(objects, link))
    BY <1>1, <1>2, FiredStayGone
  <1> QED
    BY <1>1, <1>3 DEF ClearLink

-----------------------------------------------------------------------------
(* Loading a floor.                                                        *)

LEMMA ClearedObjects == Cleared \in [Objects -> ObjectType] /\ \A o \in Objects : Cleared[o].action = None
  <1>1. <<>> \in Seq(Items \cup {None}) /\ 0 \in 0 .. EffectCapacity
    BY ObjectConstants
  <1> QED
    BY <1>1 DEF Cleared, ObjectType

\* The pool as the placements fill it.
LEMMA FreshPool ==
    ASSUME NEW f \in Floors, NEW old \in [Objects -> ObjectType],
           \A o \in Objects \ Placed(f) : old[o].action = None
    PROVE  /\ PoolLoad(f, old) \in [Objects -> ObjectType]
           /\ \A o \in Objects : /\ PoolLoad(f, old)[o].action # "door"
                                 /\ FromPlacement(f, o, PoolLoad(f, old)[o])
           /\ \A o \in Placed(f) : PoolLoad(f, old)[o] = PoolLoad(f, Cleared)[o]
  <1>0. None # "door"
    BY ObjectConstants DEF Kinds
  <1>1. ASSUME NEW o \in Placed(f)
        PROVE  /\ o \in Objects /\ PoolLoad(f, old)[o] \in ObjectType
               /\ PoolLoad(f, old)[o].action # "door"
               /\ FromPlacement(f, o, PoolLoad(f, old)[o])
               /\ PoolLoad(f, old)[o] = PoolLoad(f, Cleared)[o]
    <2> DEFINE p == Placements[f][o]
               x == [kind |-> p.kind, item |-> p.item, link |-> p.link, items |-> p.items,
                     effect |-> IF p.kind \in WithEffect THEN EffectIndex(f, o) ELSE 0,
                     action |-> IF p.kind \in SelfStarting THEN p.kind ELSE None,
                     timer  |-> 0]
    <2>1. o \in Objects /\ p \in Placement /\ EffectIndex(f, o) \in 0 .. EffectCapacity /\ 0 \in 0 .. EffectCapacity
      BY PlacedSlots, EffectIndices, ObjectConstants
    <2>2. PoolLoad(f, old)[o] = x /\ PoolLoad(f, Cleared)[o] = x
      BY <2>1 DEF PoolLoad
    <2>3. x \in ObjectType
      BY <2>1 DEF ObjectType, Placement
    <2>4. x.action # "door" /\ x.action \in ActionsOf(p.kind)
      BY <1>0 DEF ActionsOf, SelfStarting
    <2>5. FromPlacement(f, o, x)
      BY <2>4 DEF FromPlacement, KindOf
    <2> QED
      BY <2>1, <2>2, <2>3, <2>4, <2>5
  <1>2. ASSUME NEW o \in Objects \ Placed(f)
        PROVE  /\ PoolLoad(f, old)[o] \in ObjectType
               /\ PoolLoad(f, old)[o].action # "door"
               /\ FromPlacement(f, o, PoolLoad(f, old)[o])
    <2>1. PoolLoad(f, old)[o] = [old[o] EXCEPT !.kind = None, !.item = None]
      BY DEF PoolLoad
    <2>2. "door" \notin SelfStarting /\ None \notin SelfStarting /\ None # "door"
      BY ObjectConstants DEF SelfStarting, Kinds
    <2> QED
      BY <1>0, <2>1, <2>2 DEF ObjectType, FromPlacement, KindOf, ActionsOf
  <1> QED
    BY <1>1, <1>2 DEF PoolLoad

\* What a record puts over it.
LEMMA UnstoredOne ==
    ASSUME NEW pool \in [Objects -> ObjectType], NEW stored \in {None} \cup RecordType, NEW o \in Objects
    PROVE  LET y == Unstored(pool, stored)[o]
           IN  /\ y \in ObjectType /\ y.action = pool[o].action /\ y.timer = pool[o].timer
               /\ stored = None => y = pool[o]
               /\ stored # None => /\ y.kind = stored[o].kind /\ y.item = stored[o].item
                                   /\ stored[o].block = None =>
                                        y.link = pool[o].link /\ y.items = pool[o].items /\ y.effect = pool[o].effect
                                   /\ stored[o].block # None =>
                                        /\ y.link = stored[o].block.link /\ y.items = stored[o].block.items
                                        /\ y.effect = stored[o].block.effect
  <1>1. CASE stored = None
    BY <1>1 DEF Unstored
  <1>2. CASE stored # None
    <2> DEFINE x == [pool[o] EXCEPT !.kind = stored[o].kind, !.item = stored[o].item]
    <2>1. stored[o] \in [kind : Kinds \cup {None}, item : Items \cup {None},
                         block : {None} \cup BlockType]
      BY <1>2 DEF RecordType
    <2>2. /\ x \in ObjectType /\ x.action = pool[o].action /\ x.timer = pool[o].timer
          /\ x.kind = stored[o].kind /\ x.item = stored[o].item
          /\ x.link = pool[o].link /\ x.items = pool[o].items /\ x.effect = pool[o].effect
      BY <2>1 DEF ObjectType
    <2>3. CASE stored[o].block = None
      <3>1. Unstored(pool, stored)[o] = x
        BY <1>2, <2>3 DEF Unstored
      <3> HIDE DEF x
      <3> QED
        BY <1>2, <2>2, <2>3, <3>1
    <2>4. CASE stored[o].block # None
      <3> DEFINE b == stored[o].block
                 y == [x EXCEPT !.link = b.link, !.items = b.items, !.effect = b.effect]
      <3>1. Unstored(pool, stored)[o] = y
        BY <1>2, <2>4 DEF Unstored
      <3>2. b \in BlockType
        BY <2>1, <2>4
      <3> HIDE DEF x, b
      <3>3. /\ y \in ObjectType /\ y.action = x.action /\ y.timer = x.timer
            /\ y.kind = x.kind /\ y.item = x.item
            /\ y.link = b.link /\ y.items = b.items /\ y.effect = b.effect
        BY <2>2, <3>2 DEF ObjectType, BlockType
      <3> HIDE DEF y
      <3> QED
        BY <1>2, <2>2, <2>4, <3>1, <3>3 DEF b
    <2> QED
      BY <2>3, <2>4
  <1> QED
    BY <1>1, <1>2

LEMMA UnstoredType ==
    ASSUME NEW pool \in [Objects -> ObjectType], NEW stored \in {None} \cup RecordType
    PROVE  Unstored(pool, stored) \in [Objects -> ObjectType]
  <1>1. \A o \in Objects : Unstored(pool, stored)[o] \in ObjectType
    BY UnstoredOne
  <1>2. Unstored(pool, stored) = [o \in Objects |-> Unstored(pool, stored)[o]]
    BY DEF Unstored
  <1> QED
    BY <1>1, <1>2

\* Whatever lay in the pool before, what is listed is restored alike, and the rest is empty.
LEMMA RestoredAlike ==
    ASSUME NEW f \in Floors, NEW old \in [Objects -> ObjectType],
           \A o \in Objects \ Placed(f) : old[o].action = None,
           NEW stored \in {None} \cup RecordType, OfFloor(f, Restored(f, stored))
    PROVE  LET new == Unstored(PoolLoad(f, old), stored)
           IN  /\ new \in [Objects -> ObjectType] /\ OfFloor(f, new)
               /\ \A o \in Objects : /\ new[o].action # "door"
                                     /\ Kept(Restored(f, stored)[o], new[o])
  <1> DEFINE new == Unstored(PoolLoad(f, old), stored)
             fresh == Restored(f, stored)
  <1>1. /\ PoolLoad(f, old) \in [Objects -> ObjectType]
        /\ PoolLoad(f, Cleared) \in [Objects -> ObjectType]
        /\ \A o \in Objects : PoolLoad(f, old)[o].action # "door"
        /\ \A o \in Objects : FromPlacement(f, o, PoolLoad(f, old)[o])
        /\ \A o \in Placed(f) : PoolLoad(f, old)[o] = PoolLoad(f, Cleared)[o]
    BY FreshPool, ClearedObjects
  <1>2. new \in [Objects -> ObjectType]
    BY <1>1, UnstoredType
  <1>3. ASSUME NEW o \in Placed(f)
        PROVE  new[o] = fresh[o] /\ o \in Objects
    BY <1>1, PlacedSlots DEF Unstored, Restored
  <1>4. ASSUME NEW o \in Objects \ Placed(f)
        PROVE  /\ new[o].kind = None /\ fresh[o].kind = None
               /\ FromPlacement(f, o, new[o])
    <2>1. fresh[o].kind = None
      BY DEF OfFloor, FromPlacement, KindOf
    <2>2. new[o].kind = fresh[o].kind
      <3>1. CASE stored = None
        <4>1. new[o].kind = PoolLoad(f, old)[o].kind /\ fresh[o].kind = PoolLoad(f, Cleared)[o].kind
          BY <3>1 DEF Unstored, Restored
        <4> QED
          BY <1>1, <2>1, <4>1, ObjectConstants DEF FromPlacement, KindOf
      <3>2. CASE stored # None
        BY <1>1, <3>2, UnstoredOne DEF Restored
      <3> QED
        BY <3>1, <3>2
    <2>3. new[o].action = PoolLoad(f, old)[o].action
      BY <1>1, UnstoredOne
    <2> QED
      BY <1>1, <2>1, <2>2, <2>3 DEF FromPlacement, KindOf
  <1>5. \A o \in Objects : new[o].action # "door"
    BY <1>1, UnstoredOne
  <1>6. \A o \in Objects : FromPlacement(f, o, new[o])
    BY <1>3, <1>4 DEF OfFloor
  <1>7. FiredAreGone(f, new)
    BY <1>3 DEF OfFloor, FiredAreGone
  <1>8. \A o \in Objects : Kept(fresh[o], new[o])
    <2>1. \A o \in Placed(f) : Kept(fresh[o], new[o])
      BY <1>3, GentleSelf, GentleForward DEF Kept, SameGoods, ViewOf
    <2>2. \A o \in Objects \ Placed(f) : Kept(fresh[o], new[o])
      BY <1>4 DEF Forward, ViewOf, Kept, SameGoods
    <2> QED
      BY <2>1, <2>2
  <1> QED
    BY <1>2, <1>5, <1>6, <1>7, <1>8 DEF OfFloor

\* One gentle change after another.
LEMMA GentleTwice ==
    ASSUME NEW x, NEW y, NEW z, Gentle(x, y), Gentle(y, z)
    PROVE  Gentle(x, z)
  <1>1. /\ (z.kind = x.kind /\ z.item = x.item) \/ (x.kind = "pickup" /\ z.kind = None)
    BY ObjectConstants DEF Gentle, Kinds
  <1>2. z.effect = x.effect /\ z.link \in {x.link, NoLink}
    BY DEF Gentle
  <1>3. \/ z.items = x.items
        \/ /\ x.kind \in {"chest", "box"} /\ DOMAIN z.items = DOMAIN x.items
           /\ \A k \in DOMAIN z.items : z.items[k] \in {x.items[k], None}
    BY ObjectConstants DEF Gentle, Kinds
  <1>4. z.action = x.action \/ (x.kind = "door" /\ z.action \in {None, "door"})
    BY ObjectConstants DEF Gentle, Kinds
  <1> QED
    BY <1>1, <1>2, <1>3, <1>4 DEF Gentle

\* The scripts of a floor that is entered only open and release, and start no door.
LEMMA ScriptedKeeps ==
    ASSUME NEW f \in Floors, NEW objects \in [Objects -> ObjectType], OfFloor(f, objects),
           \A o \in Objects : objects[o].action # "door", NEW marks, NEW owned
    PROVE  LET new == Scripted(objects, f, marks, owned)
           IN  /\ new \in [Objects -> ObjectType] /\ OfFloor(f, new)
               /\ \A o \in Objects : new[o].action # "door" /\ Gentle(objects[o], new[o]) /\ SameGoods(objects[o], new[o])
  <1> DEFINE swordOwned == \E s \in Swords : owned[s] > 0
             cleared == IF f \in TransformFloors /\ marks.transformed
                          THEN ClearLink(objects, TransformLink)
                        ELSE IF f = BossFloor /\ (marks.transformed \/ swordOwned)
                          THEN ClearLink(objects, SwordLink)
                        ELSE objects
             new == Scripted(objects, f, marks, owned)
  <1>1. /\ cleared \in [Objects -> ObjectType] /\ OfFloor(f, cleared)
        /\ \A o \in Objects : cleared[o].action # "door" /\ Gentle(objects[o], cleared[o]) /\ SameGoods(objects[o], cleared[o])
    <2>1. ASSUME NEW link
          PROVE  /\ ClearLink(objects, link) \in [Objects -> ObjectType] /\ OfFloor(f, ClearLink(objects, link))
                 /\ \A o \in Objects : /\ ClearLink(objects, link)[o].action # "door"
                                       /\ Gentle(objects[o], ClearLink(objects, link)[o])
                                       /\ SameGoods(objects[o], ClearLink(objects, link)[o])
      BY ClearKeeps, ClearOne
    <2>2. cleared \in {ClearLink(objects, TransformLink), ClearLink(objects, SwordLink), objects}
      OBVIOUS
    <2> HIDE DEF cleared
    <2> QED
      BY <2>1, <2>2, GentleSelf DEF SameGoods
  <1>2. new = IF f = BossFloor /\ marks.boss THEN TriggerLink(cleared, BossLink) ELSE cleared
    BY DEF Scripted
  <1> HIDE DEF cleared, new
  <1>3. CASE new = cleared
    BY <1>1, <1>3 DEF new
  <1>4. CASE new = TriggerLink(cleared, BossLink)
    <2>1. /\ new \in [Objects -> ObjectType] /\ OfFloor(f, new)
          /\ \A o \in Objects : Gentle(cleared[o], new[o])
      BY <1>1, <1>4, FireKeeps
    <2>2. \A o \in Objects : new[o] = Trigger(cleared[o], BossLink)
      BY <1>4 DEF TriggerLink
    <2>3. \A o \in Objects : new[o].action = cleared[o].action
      BY <1>1, <2>2, TriggerOne, ObjectConstants
    <2>4. \A o \in Objects : Gentle(objects[o], new[o])
      BY <1>1, <2>1, GentleTwice
    <2>5. \A o \in Objects : SameGoods(objects[o], new[o])
      <3>1. \A o \in Objects : SameGoods(cleared[o], new[o])
        BY <1>1, <2>2, TriggerOne
      <3> QED
        BY <1>1, <3>1 DEF SameGoods
    <2> QED
      BY <1>1, <2>1, <2>3, <2>4, <2>5 DEF new
  <1> QED
    BY <1>2, <1>3, <1>4

\* Each hazard and switch of the list has its effect.
LEMMA EffectsMade ==
    ASSUME NEW f \in Floors
    PROVE  /\ EffectsOf(f) \in [EffectSlots -> [owner : 0 .. Other, phase : 0 .. SwitchSteps]]
           /\ \A o \in Placed(f) : Placements[f][o].kind \in WithEffect =>
                  EffectsOf(f)[EffectIndex(f, o)].owner = o
  <1> DEFINE Owners(e) == {o \in Placed(f) : Placements[f][o].kind \in WithEffect /\ EffectIndex(f, o) = e}
  <1>1. ASSUME NEW e \in EffectSlots, Owners(e) # {}
        PROVE  /\ EffectsOf(f)[e].owner \in Owners(e)
               /\ EffectsOf(f)[e] \in [owner : 0 .. Other, phase : 0 .. SwitchSteps]
    <2> DEFINE w == CHOOSE o \in Placed(f) : Placements[f][o].kind \in WithEffect /\ EffectIndex(f, o) = e
    <2>1. w \in Owners(e)
      BY <1>1
    <2>2. EffectsOf(f)[e] = [owner |-> w, phase |-> 0]
      BY <1>1 DEF EffectsOf
    <2>3. w \in 0 .. Other /\ 0 \in 0 .. SwitchSteps
      BY <2>1, PlacedSlots, ObjectConstants DEF Objects, Other
    <2> QED
      BY <2>1, <2>2, <2>3
  <1>2. ASSUME NEW e \in EffectSlots, Owners(e) = {}
        PROVE  EffectsOf(f)[e] \in [owner : 0 .. Other, phase : 0 .. SwitchSteps]
    <2>1. EffectsOf(f)[e] = Free
      BY <1>2 DEF EffectsOf
    <2> QED
      BY <2>1, ObjectConstants DEF Free, Other
  <1>3. ASSUME NEW o \in Placed(f), Placements[f][o].kind \in WithEffect
        PROVE  EffectsOf(f)[EffectIndex(f, o)].owner = o
    <2>1. EffectIndex(f, o) \in EffectSlots /\ o \in Owners(EffectIndex(f, o))
      BY <1>3, EffectIndices
    <2>2. EffectsOf(f)[EffectIndex(f, o)].owner \in Owners(EffectIndex(f, o))
      BY <1>1, <2>1
    <2> QED
      BY <1>3, <2>2, EffectIndices
  <1>4. \A e \in EffectSlots : EffectsOf(f)[e] \in [owner : 0 .. Other, phase : 0 .. SwitchSteps]
    BY <1>1, <1>2
  <1> QED
    BY <1>3, <1>4 DEF EffectsOf

\* A floor that is entered.
LEMMA LoadKeeps ==
    ASSUME NEW f \in Floors, NEW old \in [Objects -> ObjectType],
           \A o \in Objects \ Placed(f) : old[o].action = None,
           NEW records \in RecordsType, OfFloor(f, Restored(f, records[f])),
           NEW marks, NEW owned, LoadFloor(f, old, records, marks, owned)
    PROVE  /\ object' \in [Objects -> ObjectType] /\ OfFloor(f, object') /\ floor' = f
           /\ effect' \in [EffectSlots -> [owner : 0 .. Other, phase : 0 .. SwitchSteps]]
           /\ passable' = {} /\ standing' = {} /\ regions' \subseteq {Passage}
           /\ DoorTimers' /\ DoorEdgesAgree' /\ NobodyShutIn' /\ EffectsOwned'
           /\ f = StoneFloor /\ marks.revealed = Required => Passage \in regions'
           /\ \A o \in Objects : Kept(Restored(f, records[f])[o], object'[o])
  <1> DEFINE put == Unstored(PoolLoad(f, old), records[f])
  <1>1. /\ put \in [Objects -> ObjectType] /\ OfFloor(f, put)
        /\ \A o \in Objects : put[o].action # "door"
        /\ \A o \in Objects : Kept(Restored(f, records[f])[o], put[o])
    <2>1. records[f] \in {None} \cup RecordType
      BY DEF RecordsType
    <2> QED
      BY <2>1, RestoredAlike
  <1>2. object' = Scripted(put, f, marks, owned)
    BY DEF LoadFloor
  <1> HIDE DEF put
  <1>3. /\ object' \in [Objects -> ObjectType] /\ OfFloor(f, object')
        /\ \A o \in Objects : object'[o].action # "door" /\ Gentle(put[o], object'[o])
        /\ \A o \in Objects : SameGoods(put[o], object'[o])
    BY <1>1, <1>2, ScriptedKeeps
  <1>4. \A o \in Objects : Kept(Restored(f, records[f])[o], object'[o])
    BY <1>1, <1>3 DEF Gentle, Forward, ViewOf, Unlisted, Kept, SameGoods
  <1>5. floor' = f /\ passable' = {} /\ standing' = {} /\ regions' \subseteq {Passage} /\ effect' = EffectsOf(f)
    BY DEF LoadFloor
  <1>6. f = StoneFloor /\ marks.revealed = Required => Passage \in regions'
    BY DEF LoadFloor
  <1>7. DoorTimers' /\ DoorEdgesAgree' /\ NobodyShutIn'
    BY <1>3, <1>5 DEF DoorTimers, DoorEdgesAgree, NobodyShutIn
  <1>8. EffectsOwned' /\ effect' \in [EffectSlots -> [owner : 0 .. Other, phase : 0 .. SwitchSteps]]
    BY <1>5, EffectsMade DEF EffectsOwned
  <1> QED
    BY <1>3, <1>4, <1>5, <1>6, <1>7, <1>8

-----------------------------------------------------------------------------
(* The record of a floor.                                                  *)

\* What the record keeps of one object is what it was, but for the link of a pick-up.
LEMMA StoredOne ==
    ASSUME NEW f \in Floors, floor = f, object \in [Objects -> ObjectType],
           NEW o \in Objects, FromPlacement(f, o, object[o])
    PROVE  /\ Stored \in RecordType
           /\ LET y == Restored(f, Stored)[o]
              IN  /\ FromPlacement(f, o, y)
                  /\ Kept(object[o], y)
                  /\ y.kind = object[o].kind
                  /\ o \in Placed(f) /\ Placements[f][o].kind \notin Unlisted => y.link = object[o].link
  <1> DEFINE x == object[o]
             pool == PoolLoad(f, Cleared)
             y == Unstored(pool, Stored)[o]
             block(q) == IF object[q].kind = None \/ (object[q].kind \in Unlisted /\ object[q].action = None)
                           THEN None
                         ELSE [link |-> object[q].link, items |-> object[q].items, effect |-> object[q].effect]
  <1>1. \A q \in Objects : Stored[q] = [kind |-> object[q].kind, item |-> object[q].item, block |-> block(q)]
    BY DEF Stored
  <1>2. \A q \in Objects : block(q) \in {None} \cup BlockType
    BY DEF ObjectType, BlockType
  <1>3. Stored \in RecordType
    <2>1. \A q \in Objects : Stored[q] \in [kind : Kinds \cup {None}, item : Items \cup {None}, block : {None} \cup BlockType]
      <3> SUFFICES ASSUME NEW q \in Objects
                   PROVE  Stored[q] \in [kind : Kinds \cup {None}, item : Items \cup {None}, block : {None} \cup BlockType]
        OBVIOUS
      <3>1. object[q].kind \in Kinds \cup {None} /\ object[q].item \in Items \cup {None}
        BY DEF ObjectType
      <3>2. block(q) \in {None} \cup BlockType
        BY <1>2
      <3>3. Stored[q] = [kind |-> object[q].kind, item |-> object[q].item, block |-> block(q)]
        BY <1>1
      <3> HIDE DEF block
      <3> QED
        BY <3>1, <3>2, <3>3
    <2>2. Stored = [q \in Objects |-> Stored[q]]
      BY DEF Stored
    <2> QED
      BY <2>1, <2>2 DEF RecordType
  <1>4. Stored # None
    BY <1>3, RecordAssumption DEF RecordAssumption
  <1>5. /\ pool \in [Objects -> ObjectType] /\ FromPlacement(f, o, pool[o])
    BY FreshPool, ClearedObjects
  <1>6. /\ y.kind = x.kind /\ y.item = x.item /\ y.action = pool[o].action
        /\ block(o) = None => y.link = pool[o].link /\ y.items = pool[o].items /\ y.effect = pool[o].effect
        /\ block(o) # None => y.link = x.link /\ y.items = x.items /\ y.effect = x.effect
    <2>1. block(o) # None => /\ block(o).link = x.link /\ block(o).items = x.items
                             /\ block(o).effect = x.effect
      OBVIOUS
    <2>2. Stored[o].kind = x.kind /\ Stored[o].item = x.item /\ Stored[o].block = block(o)
      <3>1. Stored[o] = [kind |-> x.kind, item |-> x.item, block |-> block(o)]
        BY <1>1
      <3> HIDE DEF block, x
      <3> QED
        BY <3>1
    <2> HIDE DEF block, pool
    <2>3. /\ y.action = pool[o].action
          /\ y.kind = Stored[o].kind /\ y.item = Stored[o].item
          /\ Stored[o].block = None => y.link = pool[o].link /\ y.items = pool[o].items /\ y.effect = pool[o].effect
          /\ Stored[o].block # None => /\ y.link = Stored[o].block.link /\ y.items = Stored[o].block.items
                                       /\ y.effect = Stored[o].block.effect
      BY <1>3, <1>4, <1>5, UnstoredOne
    <2> HIDE DEF y
    <2> QED
      BY <2>1, <2>2, <2>3
  <1>7. block(o) = None => x.kind \in Unlisted \cup {None}
    <2>1. [link |-> x.link, items |-> x.items, effect |-> x.effect] \in BlockType
      BY DEF ObjectType, BlockType
    <2> QED
      BY <2>1, RecordAssumption DEF RecordAssumption
  <1>8. x.kind \in Unlisted => block(o) = None
    BY ActionOfKind, ObjectConstants DEF FromPlacement, Unlisted, Kinds
  <1> HIDE DEF block, y, pool
  <1>9. CASE o \in Placed(f)
    <2> DEFINE p == Placements[f][o]
    <2>1. KindOf(f, o) = p.kind /\ p.kind # None
      BY <1>9, PlacedSlots, ObjectConstants DEF KindOf, Placement
    <2>2. p.kind \notin Unlisted => block(o) # None
      BY <1>7, <2>1 DEF FromPlacement, Unlisted
    <2>3. x.kind # None /\ p.kind \in Unlisted => block(o) = None
      BY <1>8, <2>1 DEF FromPlacement
    <2>4. /\ pool[o].link = p.link /\ pool[o].items = p.items
          /\ pool[o].effect = (IF p.kind \in WithEffect THEN EffectIndex(f, o) ELSE 0)
      BY <1>9, PlacedSlots DEF PoolLoad, pool
    <2>5. FromPlacement(f, o, y)
      <3>1. y.link \in {p.link, NoLink}
        BY <1>6, <1>9, <2>4 DEF FromPlacement
      <3>2. p.kind \in WithEffect => y.effect = EffectIndex(f, o)
        BY <1>6, <1>9, <2>4 DEF FromPlacement
      <3>3. p.kind \in Unlisted => y.items = p.items
        BY <1>6, <1>9, <2>4 DEF FromPlacement
      <3> QED
        BY <1>5, <1>6, <3>1, <3>2, <3>3 DEF FromPlacement
    <2>6. Kept(x, y)
      <3>1. CASE x.kind = None
        BY <1>6, <3>1 DEF Forward, ViewOf, Kept, SameGoods
      <3>2. CASE x.kind # None
        <4>1. y.items = x.items
          BY <1>6, <1>9, <2>2, <2>4 DEF FromPlacement
        <4>2. x.kind \in Unlisted \/ y.link = x.link
          BY <1>6, <1>7, <3>2
        <4> QED
          BY <1>6, <4>1, <4>2 DEF Forward, ViewOf, Kept, SameGoods
      <3> QED
        BY <3>1, <3>2
    <2>7. p.kind \notin Unlisted => y.link = x.link
      BY <1>6, <2>2
    <2> QED
      BY <1>3, <1>6, <2>5, <2>6, <2>7 DEF Restored, y, pool
  <1>10. CASE o \notin Placed(f)
    <2>1. x.kind = None /\ y.kind = None
      BY <1>6, <1>10 DEF FromPlacement, KindOf
    <2>2. FromPlacement(f, o, y)
      BY <1>5, <1>6, <1>10, <2>1 DEF FromPlacement, KindOf
    <2> QED
      BY <1>3, <1>10, <2>1, <2>2 DEF Restored, y, pool, Forward, ViewOf, Kept, SameGoods
  <1> QED
    BY <1>9, <1>10

\* A floor that is left can be entered again, and as it was left.
LEMMA StoredKeeps ==
    ASSUME TypeOK, OfFloor(floor, object)
    PROVE  /\ Stored \in RecordType /\ OfFloor(floor, Restored(floor, Stored))
           /\ \A o \in Objects : Kept(object[o], Restored(floor, Stored)[o])
  <1>1. floor \in Floors /\ object \in [Objects -> ObjectType] /\ 1 \in Objects
    BY ObjectConstants DEF TypeOK, Objects
  <1>2. \A o \in Objects : FromPlacement(floor, o, object[o])
    BY DEF OfFloor
  <1>3. Stored \in RecordType
    BY <1>1, <1>2, StoredOne
  <1>4. \A o \in Objects : LET y == Restored(floor, Stored)[o]
                           IN  /\ FromPlacement(floor, o, y)
                               /\ Kept(object[o], y)
                               /\ y.kind = object[o].kind
                               /\ o \in Placed(floor) /\ Placements[floor][o].kind \notin Unlisted => y.link = object[o].link
    BY <1>1, <1>2, StoredOne
  <1>5. FiredAreGone(floor, Restored(floor, Stored))
    <2> SUFFICES ASSUME NEW a \in Placed(floor), NEW b \in Placed(floor),
                        Placements[floor][a].kind \in {"switch", "socket"},
                        Placements[floor][a].link \in OneShot,
                        Restored(floor, Stored)[a].link = NoLink,
                        Restored(floor, Stored)[b].kind \in Released
                 PROVE  Restored(floor, Stored)[b].link # Placements[floor][a].link
      BY DEF FiredAreGone
    <2>1. a \in Objects /\ b \in Objects
      BY <1>1, PlacedSlots
    <2>2. object[a].link = NoLink
      BY <1>4, <2>1 DEF Unlisted
    <2>3. object[b].kind \in Released
      BY <1>4, <2>1
    <2>4. Placements[floor][b].kind \in Released
      BY <1>2, <2>1, <2>3, ObjectConstants DEF FromPlacement, KindOf, Released, Kinds
    <2>5. Restored(floor, Stored)[b].link = object[b].link
      BY <1>4, <2>1, <2>4 DEF Released, Unlisted
    <2> QED
      BY <2>2, <2>3, <2>5 DEF OfFloor, FiredAreGone
  <1> QED
    BY <1>3, <1>4, <1>5 DEF OfFloor

-----------------------------------------------------------------------------
(* Steps on a floor.                                                       *)

\* One object changes gently; a switch or socket loses its link only with all that wait for it.
LEMMA ChangeOne ==
    ASSUME NEW f \in Floors, NEW mid \in [Objects -> ObjectType], OfFloor(f, mid),
           NEW o \in Objects, NEW y \in ObjectType, Gentle(mid[o], y),
           \/ y.link = mid[o].link
           \/ mid[o].kind \notin {"switch", "socket"}
           \/ \A b \in Placed(f) \ {o} : mid[b].kind \in Released => mid[b].link # mid[o].link
    PROVE  /\ [mid EXCEPT ![o] = y] \in [Objects -> ObjectType]
           /\ OfFloor(f, [mid EXCEPT ![o] = y])
           /\ \A q \in Objects : Gentle(mid[q], [mid EXCEPT ![o] = y][q])
  <1> DEFINE new == [mid EXCEPT ![o] = y]
  <1>1. new \in [Objects -> ObjectType] /\ new[o] = y /\ \A q \in Objects : q # o => new[q] = mid[q]
    OBVIOUS
  <1> HIDE DEF new
  <1>2. \A q \in Objects : Gentle(mid[q], new[q])
    BY <1>1, GentleSelf
  <1>3. ASSUME NEW a \in Placed(f), Placements[f][a].kind \in {"switch", "socket"}
        PROVE  \/ new[a].link = mid[a].link
               \/ \A b \in Placed(f) : new[b].kind \in Released => new[b].link # mid[a].link
    <2>1. a \in Objects /\ mid[a].kind \in {"switch", "socket"}
      BY <1>3, PlacedSlots, ActionOfKind DEF OfFloor, SelfStarting
    <2>2. CASE a # o
      BY <1>1, <2>1, <2>2
    <2>3. CASE a = o /\ y.link = mid[o].link
      BY <1>1, <2>3
    <2>4. CASE a = o /\ \A b \in Placed(f) \ {o} : mid[b].kind \in Released => mid[b].link # mid[o].link
      <3>1. new[o].kind \notin Released
        BY <1>1, <2>1, <2>4 DEF Gentle, Released
      <3>2. \A b \in Placed(f) : b \in Objects
        BY PlacedSlots
      <3> QED
        BY <1>1, <2>4, <3>1, <3>2
    <2> QED
      BY <2>1, <2>2, <2>3, <2>4
  <1>4. OfFloor(f, new)
    BY <1>2, <1>3, FiredStayGone
  <1> QED
    BY <1>1, <1>2, <1>4 DEF new

\* The objects of the floor after a step that leaves the moving doors to the sweep.
Eased == /\ object' \in [Objects -> ObjectType] /\ OfFloor(floor, object')
         /\ \A o \in Objects : Gentle(object[o], object'[o])
Quiet == Eased /\ \A o \in Objects : Calm(object[o], object'[o])

LEMMA QuietSelf == ObjectInv /\ object' = object => Quiet
  BY GentleSelf DEF ObjectInv, TypeOK, WorldIsPlaced, Quiet, Eased, Calm

\* An object that changes gently and, if it is a door, calmly.
LEMMA QuietOne ==
    ASSUME ObjectInv, NEW o \in Objects, NEW y \in ObjectType,
           Gentle(object[o], y), Calm(object[o], y),
           y.link = object[o].link \/ object[o].kind \notin {"switch", "socket"},
           object' = [object EXCEPT ![o] = y]
    PROVE  Quiet
  <1>1. object \in [Objects -> ObjectType] /\ OfFloor(floor, object) /\ floor \in Floors
    BY DEF ObjectInv, TypeOK, WorldIsPlaced
  <1>2. Eased
    BY <1>1, ChangeOne DEF Eased
  <1>3. \A q \in Objects : Calm(object[q], object'[q])
    BY <1>1 DEF Calm
  <1> QED
    BY <1>2, <1>3 DEF Quiet

\* Doors and the grid after such a step.
LEMMA QuietDoors ==
    ASSUME ObjectInv, Quiet, UNCHANGED passable
    PROVE  DoorTimers' /\ DoorEdgesAgree'
  <1>1. 0 \notin HoldFirst .. CloseFirst /\ 0 \in 0 .. OpenLast
    BY ObjectConstants
  <1>2. ASSUME NEW o \in Objects
        PROVE  /\ object[o].action = "door" =>
                    /\ object[o].kind = "door" /\ object'[o].kind = "door"
                    /\ object'[o].action = "door" /\ object'[o].timer = object[o].timer
               /\ object[o].action # "door" /\ object'[o].action = "door" => object'[o].timer = 0
    <2>1. object[o].action = "door" => object[o].kind = "door"
      BY ActionOfKind, ObjectConstants DEF ObjectInv, TypeOK, WorldIsPlaced, OfFloor, Kinds
    <2> QED
      BY <2>1 DEF Quiet, Eased, Gentle, Calm
  <1> QED
    BY <1>1, <1>2 DEF ObjectInv, DoorTimers, DoorEdgesAgree

\* Firing the link of a place that carries it, and taking it from there, moves no door.
LEMMA QuietFire ==
    ASSUME ObjectInv, NEW o \in Objects, object[o].kind # None, object[o].link # NoLink
    PROVE  LET mid == TriggerLink(object, object[o].link)
           IN  \A y \in ObjectType :
                 /\ Gentle(mid[o], y) /\ Calm(mid[o], y)
                 /\ object' = [mid EXCEPT ![o] = y]
                 => Quiet
  <1> DEFINE link == object[o].link
             mid == TriggerLink(object, link)
  <1> SUFFICES ASSUME NEW y \in ObjectType, Gentle(mid[o], y), Calm(mid[o], y),
                      object' = [mid EXCEPT ![o] = y]
               PROVE  Quiet
    OBVIOUS
  <1>1. object \in [Objects -> ObjectType] /\ OfFloor(floor, object) /\ floor \in Floors
    BY DEF ObjectInv, TypeOK, WorldIsPlaced
  <1>2. /\ mid \in [Objects -> ObjectType] /\ OfFloor(floor, mid)
        /\ \A q \in Objects : Gentle(object[q], mid[q]) /\ Calm(object[q], mid[q])
    BY <1>1, FireKeeps
  <1>3. \A b \in Placed(floor) : mid[b].kind \in Released => mid[b].link # link
    BY <1>1, FiredIsGone
  <1>4. mid[o].kind \in {"switch", "socket"} => mid[o].link = link
    <2>1. mid[o] = Trigger(object[o], link)
      BY DEF TriggerLink
    <2>2. mid[o].kind \in {"switch", "socket"} => object[o].kind = mid[o].kind
      BY <1>2, ObjectConstants DEF Gentle, Kinds
    <2>3. object[o].kind \in {"switch", "socket"} => object[o].action \notin Released
      BY <1>1, ActionOfKind DEF OfFloor, SelfStarting, Released
    <2> QED
      BY <1>1, <2>1, <2>2, <2>3, TriggerOne
  <1> HIDE DEF mid, link
  <1>5. /\ object' \in [Objects -> ObjectType] /\ OfFloor(floor, object')
        /\ \A q \in Objects : Gentle(mid[q], object'[q])
    <2>1. \/ mid[o].kind \notin {"switch", "socket"}
          \/ \A b \in Placed(floor) \ {o} : mid[b].kind \in Released => mid[b].link # mid[o].link
      BY <1>3, <1>4
    <2>2. floor \in Floors /\ mid \in [Objects -> ObjectType] /\ OfFloor(floor, mid)
      BY <1>1, <1>2
    <2>3. /\ [mid EXCEPT ![o] = y] \in [Objects -> ObjectType]
          /\ OfFloor(floor, [mid EXCEPT ![o] = y])
          /\ \A q \in Objects : Gentle(mid[q], [mid EXCEPT ![o] = y][q])
      BY <2>1, <2>2, ChangeOne
    <2> QED
      BY <2>3
  <1>6. \A q \in Objects : Gentle(object[q], object'[q])
    BY <1>2, <1>5, GentleTwice
  <1>7. \A q \in Objects : Calm(object[q], object'[q])
    <2>1. \A q \in Objects : Calm(mid[q], object'[q])
      BY <1>2 DEF Calm
    <2> QED
      BY <1>2, <2>1 DEF Calm
  <1> QED
    BY <1>5, <1>6, <1>7 DEF Quiet, Eased

\* What the other variables must be for the invariant to hold after such a step.
LEMMA EasedKeeps ==
    ASSUME ObjectInv, Eased, DoorTimers', DoorEdgesAgree', NobodyShutIn', passable' \subseteq Objects,
           UNCHANGED <<floor, record, saved, saves>>,
           effect' \in [EffectSlots -> [owner : 0 .. Other, phase : 0 .. SwitchSteps]],
           \A e \in EffectSlots : effect[e].owner \in Objects => effect'[e].owner = effect[e].owner,
           regions \subseteq regions', regions' \subseteq Objects \cup {Passage},
           cursor' \in 0 .. Size, script' \in ScriptType, stock' \in StockType,
           script'.revealed = script.revealed \/ PassageStaysOpen'
    PROVE  ObjectInv'
  <1>1. TypeOK'
    BY DEF ObjectInv, TypeOK, Eased, NobodyShutIn
  <1>2. WorldIsPlaced'
    BY DEF ObjectInv, WorldIsPlaced, Eased
  <1>3. EffectsOwned'
    <2>1. floor \in Floors
      BY DEF ObjectInv, TypeOK
    <2> QED
      BY <2>1, EffectIndices, PlacedSlots DEF ObjectInv, EffectsOwned
  <1>4. PassageStaysOpen'
    BY DEF ObjectInv, PassageStaysOpen
  <1> QED
    BY <1>1, <1>2, <1>3, <1>4 DEF ObjectInv

LEMMA QuietKeeps ==
    ASSUME ObjectInv, Quiet, UNCHANGED <<passable, floor, record, saved, saves>>, standing' \subseteq passable,
           effect' \in [EffectSlots -> [owner : 0 .. Other, phase : 0 .. SwitchSteps]],
           \A e \in EffectSlots : effect[e].owner \in Objects => effect'[e].owner = effect[e].owner,
           regions \subseteq regions', regions' \subseteq Objects \cup {Passage},
           cursor' \in 0 .. Size, script' \in ScriptType, stock' \in StockType,
           script'.revealed = script.revealed \/ PassageStaysOpen'
    PROVE  ObjectInv'
  <1>1. Eased /\ DoorTimers' /\ DoorEdgesAgree'
    BY QuietDoors DEF Quiet
  <1>2. NobodyShutIn' /\ passable' \subseteq Objects
    BY DEF NobodyShutIn, ObjectInv, TypeOK
  <1> QED
    BY <1>1, <1>2, EasedKeeps

\* The places of a container emptied by a choice.
LEMMA TakenItems ==
    ASSUME NEW x \in ObjectType, NEW chosen
    PROVE  LET y == [x EXCEPT !.items = [k \in DOMAIN x.items |-> IF k \in chosen THEN None ELSE x.items[k]]]
           IN  /\ y \in ObjectType /\ y.link = x.link
               /\ x.kind \in {"chest", "box"} => Gentle(x, y)
               /\ x.action # "door" => Calm(x, y)
  <1> DEFINE left == [k \in DOMAIN x.items |-> IF k \in chosen THEN None ELSE x.items[k]]
             y == [x EXCEPT !.items = left]
  <1>1. x.items \in Seq(Items \cup {None})
    BY DEF ObjectType
  <1>2. /\ left \in Seq(Items \cup {None}) /\ DOMAIN left = DOMAIN x.items
        /\ \A k \in DOMAIN left : left[k] \in {x.items[k], None}
    BY <1>1
  <1> HIDE DEF left
  <1>3. /\ y \in ObjectType /\ y.items = left /\ y.kind = x.kind /\ y.item = x.item
        /\ y.link = x.link /\ y.effect = x.effect /\ y.action = x.action /\ y.timer = x.timer
    BY <1>2 DEF ObjectType
  <1> HIDE DEF y
  <1>4. (x.kind \in {"chest", "box"} => Gentle(x, y)) /\ (x.action # "door" => Calm(x, y))
    BY <1>2, <1>3 DEF Gentle, Calm
  <1> QED
    BY <1>3, <1>4 DEF y, left

LEMMA TakeKeeps ==
    ASSUME ObjectInv, NEW o \in Objects, object[o].kind \in {"chest", "box"}, TakeFrom(o)
    PROVE  Quiet /\ stock' \in StockType
  <1> DEFINE items == object[o].items
  <1>1. PICK chosen \in SUBSET {k \in DOMAIN items : items[k] # None} :
          /\ \A i \in Items : Chosen(items, chosen, i) <= Room(i)
          /\ stock' = [i \in Items |-> stock[i] + Chosen(items, chosen, i)]
          /\ object' = [object EXCEPT ![o].items =
                          [k \in DOMAIN items |-> IF k \in chosen THEN None ELSE items[k]]]
    BY DEF TakeFrom
  <1>2. object \in [Objects -> ObjectType] /\ FromPlacement(floor, o, object[o]) /\ floor \in Floors
    BY DEF ObjectInv, TypeOK, WorldIsPlaced, OfFloor
  <1>3. object[o].action # "door"
    BY <1>2, ActionOfKind, ObjectConstants DEF Kinds
  <1>4. stock' \in StockType
    <2> SUFFICES ASSUME NEW i \in Items PROVE stock[i] + Chosen(items, chosen, i) \in 0 .. StackCapacity
      BY <1>1 DEF StockType
    <2>1. stock[i] \in 0 .. StackCapacity
      BY DEF ObjectInv, TypeOK, StockType
    <2>2. Chosen(items, chosen, i) \in Nat
      <3>1. items \in Seq(Items \cup {None}) /\ Len(items) \in Int
        BY <1>2 DEF ObjectType
      <3>2. IsFiniteSet(DOMAIN items)
        BY <3>1, FS_Interval
      <3>3. {k \in chosen : items[k] = i} \subseteq DOMAIN items
        BY <1>1
      <3> QED
        BY <3>2, <3>3, FS_Subset, FS_CardinalityType DEF Chosen
    <2>3. Chosen(items, chosen, i) <= StackCapacity - stock[i]
      BY <1>1 DEF Room
    <2> QED
      BY <2>1, <2>2, <2>3, ObjectConstants
  <1>5. Quiet
    <2> DEFINE y == [object[o] EXCEPT !.items = [k \in DOMAIN items |-> IF k \in chosen THEN None ELSE items[k]]]
    <2>1. y \in ObjectType /\ y.link = object[o].link /\ Gentle(object[o], y) /\ Calm(object[o], y)
      BY <1>2, <1>3, TakenItems
    <2>2. object' = [object EXCEPT ![o] = y]
      BY <1>1
    <2> HIDE DEF y
    <2> QED
      BY <2>1, <2>2, QuietOne
  <1> QED
    BY <1>4, <1>5

LEMMA InteractKeeps ==
    ASSUME ObjectInv, NEW o \in Objects, Interact(o)
    PROVE  Quiet /\ ObjectInv'
  <1>1. /\ object \in [Objects -> ObjectType] /\ FromPlacement(floor, o, object[o]) /\ floor \in Floors
        /\ object[o] \in ObjectType /\ stock \in StockType
    BY DEF ObjectInv, TypeOK, WorldIsPlaced, OfFloor
  <1>2. Quiet /\ stock' \in StockType
    <2>1. CASE OpenDoor(o)
      <3> DEFINE y == [object[o] EXCEPT !.action = "door", !.timer = 0]
      <3>1. /\ y \in ObjectType /\ y.action = "door" /\ y.timer = 0 /\ y.kind = object[o].kind
            /\ y.item = object[o].item /\ y.link = object[o].link /\ y.items = object[o].items
            /\ y.effect = object[o].effect
        BY <1>1 DEF ObjectType, Kinds
      <3>2. object' = [object EXCEPT ![o] = y] /\ stock' = stock /\ object[o].kind = "door" /\ object[o].action # "door"
        BY <2>1, ObjectConstants DEF OpenDoor, Kinds
      <3> HIDE DEF y
      <3>3. Gentle(object[o], y) /\ Calm(object[o], y)
        BY <3>1, <3>2 DEF Gentle, Calm
      <3> QED
        BY <1>1, <3>1, <3>2, <3>3, QuietOne
    <2>2. CASE OpenChest(o) \/ OpenBox(o)
      BY <2>2, TakeKeeps DEF OpenChest, OpenBox
    <2>3. CASE PickUp(o)
      <3> DEFINE y == [object[o] EXCEPT !.kind = None, !.item = None]
                 i == object[o].item
      <3>1. /\ y \in ObjectType /\ y.action = object[o].action /\ y.timer = object[o].timer /\ y.kind = None
            /\ y.link = object[o].link /\ y.items = object[o].items /\ y.effect = object[o].effect
        BY <1>1 DEF ObjectType
      <3>2. object' = [object EXCEPT ![o] = y] /\ object[o].kind = "pickup"
        BY <2>3 DEF PickUp
      <3> HIDE DEF y
      <3>3. Gentle(object[o], y) /\ Calm(object[o], y)
        BY <3>1, <3>2 DEF Gentle, Calm
      <3>4. stock' \in StockType
        <4>1. stock' = [stock EXCEPT ![i] = stock[i] + 1] /\ StackCapacity - stock[i] > 0
          BY <2>3 DEF PickUp, Room
        <4>2. i \in Items => stock[i] + 1 \in 0 .. StackCapacity
          BY <1>1, <4>1, ObjectConstants DEF StockType
        <4> HIDE DEF i
        <4> QED
          BY <1>1, <4>1, <4>2 DEF StockType
      <3> QED
        BY <1>1, <3>1, <3>2, <3>3, <3>4, QuietOne
    <2>4. CASE PullSwitch(o)
      <3> DEFINE y == [object[o] EXCEPT !.timer = 1]
      <3>1. /\ y \in ObjectType /\ y.action = object[o].action /\ y.kind = object[o].kind
            /\ y.item = object[o].item /\ y.link = object[o].link /\ y.items = object[o].items
            /\ y.effect = object[o].effect
        BY <1>1 DEF ObjectType
      <3>2. object' = [object EXCEPT ![o] = y] /\ stock' = stock /\ object[o].kind = "switch"
        BY <2>4 DEF PullSwitch
      <3>3. object[o].action = "switch"
        BY <1>1, <3>2, ActionOfKind DEF SelfStarting
      <3> HIDE DEF y
      <3>4. Gentle(object[o], y) /\ Calm(object[o], y)
        BY <3>1, <3>3 DEF Gentle, Calm
      <3> QED
        BY <1>1, <3>1, <3>2, <3>4, QuietOne
    <2> QED
      BY <2>1, <2>2, <2>3, <2>4 DEF Interact
  <1>3. UNCHANGED <<passable, regions, effect, standing, cursor, floor, record, script, saved, saves>>
    BY DEF Interact
  <1> QED
    BY <1>2, <1>3, QuietKeeps DEF ObjectInv, TypeOK, NobodyShutIn

\* A new timer of what is no moving door, and a link taken away.
LEMMA TimerOne ==
    ASSUME NEW x \in ObjectType, NEW t \in Nat, x.action # "door"
    PROVE  LET y == [x EXCEPT !.timer = t]
           IN  y \in ObjectType /\ Gentle(x, y) /\ Calm(x, y) /\ y.link = x.link
  BY DEF ObjectType, Gentle, Calm

LEMMA UnlinkOne ==
    ASSUME NEW x \in ObjectType
    PROVE  LET y == [x EXCEPT !.link = NoLink]
           IN  y \in ObjectType /\ Gentle(x, y) /\ Calm(x, y)
  BY DEF ObjectType, Gentle, Calm

\* The sweep goes on to an object of the pool or ends.
LEMMA NextIsSlot ==
    ASSUME NEW o, NEW objects
    PROVE  NextVisit(o, objects) \in 0 .. Size
  <1> DEFINE later == {q \in Objects : q > o /\ HasWork(objects[q])}
             Less == OpToRel(<, Nat)
  <1>1. later \subseteq Objects /\ Objects \subseteq Nat
    BY ObjectConstants DEF Objects
  <1>2. CASE later = {}
    BY <1>2, ObjectConstants DEF NextVisit
  <1>3. CASE later # {}
    <2>1. IsWellFoundedOn(Less, Nat)
      BY NatLessThanWellFounded
    <2>2. \A x, y \in Nat : ~(<<y, x>> \in Less) => x <= y
      BY DEF OpToRel
    <2> HIDE DEF Less, later
    <2>3. PICK s \in later : \A t \in later : ~(<<t, s>> \in Less)
      BY <1>1, <1>3, <2>1, WFMin
    <2>4. \A t \in later : s <= t
      BY <1>1, <2>2, <2>3
    <2>5. (CHOOSE q \in later : \A p \in later : q <= p) \in later
      BY <2>3, <2>4
    <2>6. NextVisit(o, objects) = CHOOSE q \in later : \A p \in later : q <= p
      BY <1>3 DEF NextVisit, later
    <2>7. NextVisit(o, objects) \in later
      BY <2>5, <2>6
    <2>8. NextVisit(o, objects) \in Objects
      BY <1>1, <2>7
    <2> QED
      BY <2>8, ObjectConstants DEF Objects
  <1> QED
    BY <1>2, <1>3

LEMMA UseKeyKeeps ==
    ASSUME ObjectInv, NEW o \in Objects, NEW k \in Keys, UseKey(k, o)
    PROVE  Quiet /\ ObjectInv'
  <1>1. object[o] \in ObjectType
    BY DEF ObjectInv, TypeOK
  <1> DEFINE y == [object[o] EXCEPT !.link = NoLink]
  <1>2. y \in ObjectType /\ Gentle(object[o], y) /\ Calm(object[o], y)
    BY <1>1, UnlinkOne
  <1>3. object' = [object EXCEPT ![o] = y] /\ object[o].kind \notin {"switch", "socket"}
    BY DEF UseKey
  <1> HIDE DEF y
  <1>4. Quiet
    BY <1>2, <1>3, QuietOne
  <1> QED
    BY <1>4, QuietKeeps DEF UseKey, ObjectInv, TypeOK, NobodyShutIn

LEMMA UseOnItsLikeKeeps ==
    ASSUME ObjectInv, NEW o \in Objects, NEW i \in Stones \cup Keys, UseOnItsLike(i, o)
    PROVE  Quiet /\ ObjectInv'
  <1> DEFINE mid == TriggerLink(object, object[o].link)
             y == [mid[o] EXCEPT !.link = NoLink]
  <1>1. object \in [Objects -> ObjectType] /\ OfFloor(floor, object) /\ floor \in Floors
    BY DEF ObjectInv, TypeOK, WorldIsPlaced
  <1>2. mid \in [Objects -> ObjectType]
    BY <1>1, FireKeeps
  <1>3. y \in ObjectType /\ Gentle(mid[o], y) /\ Calm(mid[o], y)
    BY <1>2, UnlinkOne
  <1>4. object' = [mid EXCEPT ![o] = y] /\ object[o].kind # None /\ object[o].link # NoLink
    BY DEF UseOnItsLike
  <1>5. Quiet
    <2> HIDE DEF y
    <2> QED
      BY <1>3, <1>4, QuietFire
  <1>6. stock' \in StockType
    BY ObjectConstants DEF UseOnItsLike, ObjectInv, TypeOK, StockType
  <1> QED
    BY <1>5, <1>6, QuietKeeps DEF UseOnItsLike, ObjectInv, TypeOK, NobodyShutIn

LEMMA ScriptsKeep ==
    ASSUME ObjectInv
    PROVE  /\ TransformWeapon => Quiet /\ ObjectInv'
           /\ BossDies => Quiet /\ ObjectInv'
           /\ KeeperUnlocks => Quiet /\ ObjectInv'
  <1>1. object \in [Objects -> ObjectType] /\ OfFloor(floor, object) /\ floor \in Floors
    BY DEF ObjectInv, TypeOK, WorldIsPlaced
  <1>2. ASSUME TransformWeapon
        PROVE  Quiet /\ ObjectInv'
    <2>1. Quiet
      BY <1>2, QuietSelf DEF TransformWeapon
    <2>2. script' \in ScriptType /\ script'.revealed = script.revealed
      BY <1>2 DEF TransformWeapon, ObjectInv, TypeOK, ScriptType
    <2> QED
      BY <1>2, <2>1, <2>2, QuietKeeps DEF TransformWeapon, ObjectInv, TypeOK, NobodyShutIn
  <1>3. ASSUME BossDies
        PROVE  Quiet /\ ObjectInv'
    <2>1. Quiet
      BY <1>1, <1>3, FireKeeps DEF BossDies, Quiet, Eased
    <2>2. script' \in ScriptType /\ script'.revealed = script.revealed
      BY <1>3 DEF BossDies, ObjectInv, TypeOK, ScriptType
    <2> QED
      BY <1>3, <2>1, <2>2, QuietKeeps DEF BossDies, ObjectInv, TypeOK, NobodyShutIn
  <1>4. ASSUME KeeperUnlocks
        PROVE  Quiet /\ ObjectInv'
    <2>1. Quiet
      BY <1>1, <1>4, ClearKeeps DEF KeeperUnlocks, Quiet, Eased
    <2> QED
      BY <1>4, <2>1, QuietKeeps DEF KeeperUnlocks, ObjectInv, TypeOK, NobodyShutIn
  <1> QED
    BY <1>2, <1>3, <1>4

LEMMA OthersKeep ==
    ASSUME ObjectInv
    PROVE  /\ \A o \in Objects : EnterDoorway(o) \/ LeaveDoorway(o) => Quiet /\ ObjectInv'
           /\ \A e \in EffectSlots : OtherEffectEnds(e) => Quiet /\ ObjectInv'
           /\ BeginUpdate => Quiet /\ ObjectInv'
           /\ UNCHANGED vars => Quiet /\ ObjectInv'
  <1>1. ASSUME NEW o \in Objects, EnterDoorway(o) \/ LeaveDoorway(o)
        PROVE  Quiet /\ ObjectInv'
    <2>1. Quiet
      BY <1>1, QuietSelf DEF EnterDoorway, LeaveDoorway
    <2>2. standing' \subseteq passable
      BY <1>1 DEF EnterDoorway, LeaveDoorway, ObjectInv, NobodyShutIn
    <2> QED
      BY <1>1, <2>1, <2>2, QuietKeeps DEF EnterDoorway, LeaveDoorway, ObjectInv, TypeOK
  <1>2. ASSUME NEW e \in EffectSlots, OtherEffectEnds(e)
        PROVE  Quiet /\ ObjectInv'
    <2>1. Quiet
      BY <1>2, QuietSelf DEF OtherEffectEnds
    <2>2. effect' \in [EffectSlots -> [owner : 0 .. Other, phase : 0 .. SwitchSteps]]
      BY <1>2, ObjectConstants DEF OtherEffectEnds, Free, Other, ObjectInv, TypeOK
    <2>3. \A d \in EffectSlots : effect[d].owner \in Objects => effect'[d].owner = effect[d].owner
      BY <1>2, ObjectConstants DEF OtherEffectEnds, Other, Objects, ObjectInv, TypeOK
    <2> QED
      BY <1>2, <2>1, <2>2, <2>3, QuietKeeps DEF OtherEffectEnds, ObjectInv, TypeOK, NobodyShutIn
  <1>3. ASSUME BeginUpdate
        PROVE  Quiet /\ ObjectInv'
    <2>1. Quiet
      BY <1>3, QuietSelf DEF BeginUpdate
    <2> QED
      BY <1>3, <2>1, NextIsSlot, QuietKeeps DEF BeginUpdate, ObjectInv, TypeOK, NobodyShutIn
  <1>4. ASSUME UNCHANGED vars
        PROVE  Quiet /\ ObjectInv'
    <2>1. Quiet
      BY <1>4, QuietSelf DEF vars
    <2> QED
      BY <1>4, <2>1, QuietKeeps DEF vars, ObjectInv, TypeOK, NobodyShutIn
  <1> QED
    BY <1>1, <1>2, <1>3, <1>4

-----------------------------------------------------------------------------
(* The sweep.                                                              *)

LEMMA VisitedObject ==
    ASSUME ObjectInv, NEW o \in Objects
    PROVE  /\ object[o] \in ObjectType /\ object \in [Objects -> ObjectType] /\ floor \in Floors
           /\ object[o].action # None => object[o].kind = object[o].action
           /\ object[o].kind \in WithEffect => /\ object[o].effect = EffectIndex(floor, o)
                                               /\ object[o].effect \in EffectSlots
                                               /\ o \in Placed(floor)
                                               /\ Placements[floor][o].kind = object[o].kind
  <1>1. /\ object[o] \in ObjectType /\ object \in [Objects -> ObjectType] /\ floor \in Floors
        /\ FromPlacement(floor, o, object[o])
    BY DEF ObjectInv, TypeOK, WorldIsPlaced, OfFloor
  <1>2. object[o].kind \in WithEffect => o \in Placed(floor) /\ Placements[floor][o].kind = object[o].kind
    BY <1>1, ObjectConstants DEF FromPlacement, KindOf, WithEffect, Kinds
  <1>3. object[o].kind \in WithEffect => object[o].effect = EffectIndex(floor, o)
    BY <1>1, <1>2 DEF FromPlacement
  <1> QED
    BY <1>1, <1>2, <1>3, ActionOfKind, EffectIndices

\* A visit that only sets a timer.
LEMMA VisitTimes ==
    ASSUME ObjectInv, NEW o \in Objects, object[o].action # "door", NEW t \in Nat,
           object' = [object EXCEPT ![o].timer = t]
    PROVE  Quiet
  <1> DEFINE y == [object[o] EXCEPT !.timer = t]
  <1>1. y \in ObjectType /\ Gentle(object[o], y) /\ Calm(object[o], y) /\ y.link = object[o].link
    BY VisitedObject, TimerOne
  <1>2. object' = [object EXCEPT ![o] = y]
    OBVIOUS
  <1> HIDE DEF y
  <1> QED
    BY <1>1, <1>2, QuietOne

\* A visit that moves its own effect keeps all effects whose they are.
LEMMA PhaseKeeps ==
    ASSUME ObjectInv, NEW e \in EffectSlots, NEW p \in 0 .. SwitchSteps,
           effect' = [effect EXCEPT ![e].phase = p]
    PROVE  /\ effect' \in [EffectSlots -> [owner : 0 .. Other, phase : 0 .. SwitchSteps]]
           /\ \A d \in EffectSlots : effect'[d].owner = effect[d].owner
  BY DEF ObjectInv, TypeOK

\* A door moves, and its edge with it.
LEMMA DoorKeeps ==
    ASSUME ObjectInv, NEW o \in Objects, object[o].action = "door", DoorStep(o, object[o]),
           cursor' \in 0 .. Size, UNCHANGED <<standing, floor, record, stock, saved, saves>>
    PROVE  Eased /\ ObjectInv'
  <1> DEFINE x == object[o]
             t == x.timer
             y == IF t = CloseFirst /\ o \in standing THEN x
                  ELSE IF t >= CloseEnd THEN [x EXCEPT !.action = None, !.timer = 0]
                  ELSE IF t = OpenLast THEN [x EXCEPT !.timer = HoldFirst]
                  ELSE [x EXCEPT !.timer = t + 1]
  <1>1. /\ x \in ObjectType /\ x.action = "door" /\ x.kind = "door" /\ None # "door" /\ t \in Nat
        /\ object \in [Objects -> ObjectType] /\ floor \in Floors /\ OfFloor(floor, object)
        /\ t \in 0 .. OpenLast \cup HoldFirst .. CloseEnd
    BY VisitedObject, ObjectConstants DEF Kinds, ObjectInv, WorldIsPlaced, DoorTimers, ObjectType
  <1>2. object' = [object EXCEPT ![o] = y]
    BY DEF DoorStep
  <1>3. passable' = IF t = OpenLast THEN passable \cup {o}
                    ELSE IF t = CloseFirst /\ o \notin standing THEN passable \ {o} ELSE passable
    BY DEF DoorStep
  <1>4. o \in passable <=> t \in HoldFirst .. CloseFirst
    BY <1>1 DEF ObjectInv, DoorEdgesAgree
  <1> HIDE DEF t
  <1>5. /\ y \in ObjectType /\ y.kind = x.kind /\ y.item = x.item /\ y.link = x.link
        /\ y.items = x.items /\ y.effect = x.effect
        /\ IF t # CloseFirst /\ t >= CloseEnd THEN y.action = None /\ y.timer = 0
           ELSE /\ y.action = "door"
                /\ y.timer = IF t = CloseFirst /\ o \in standing THEN t
                             ELSE IF t = OpenLast THEN HoldFirst ELSE t + 1
    <2>1. t = x.timer /\ t \in Nat /\ t + 1 \in Nat /\ (t = CloseFirst => ~(t >= CloseEnd))
      BY <1>1, ObjectConstants DEF t
    <2>2. x \in ObjectType /\ x.action = "door"
      BY <1>1
    <2> HIDE DEF x
    <2>3. CASE t = CloseFirst /\ o \in standing
      BY <2>1, <2>2, <2>3
    <2>4. CASE t # CloseFirst /\ t >= CloseEnd
      BY <2>1, <2>2, <2>4 DEF ObjectType
    <2>5. CASE ~(t = CloseFirst /\ o \in standing) /\ ~(t >= CloseEnd) /\ t = OpenLast
      BY <2>1, <2>2, <2>5, ObjectConstants DEF ObjectType
    <2>6. CASE ~(t = CloseFirst /\ o \in standing) /\ ~(t >= CloseEnd) /\ t # OpenLast
      BY <2>1, <2>2, <2>6 DEF ObjectType
    <2> QED
      BY <2>1, <2>3, <2>4, <2>5, <2>6
  <1> HIDE DEF y, x
  <1>6. Gentle(x, y)
    BY <1>1, <1>5 DEF Gentle
  <1>7. Eased
    BY <1>1, <1>2, <1>5, <1>6, ChangeOne DEF Eased, x
  <1>8. object'[o] = y /\ \A q \in Objects : q # o => object'[q] = object[q]
    BY <1>1, <1>2
  <1>9. /\ y.action = "door" => y.timer \in 0 .. OpenLast \cup HoldFirst .. CloseEnd
        /\ o \in passable' <=> y.action = "door" /\ y.timer \in HoldFirst .. CloseFirst
    BY <1>1, <1>3, <1>4, <1>5, ObjectConstants
  <1>10. \A q \in Objects : q # o => (q \in passable' <=> q \in passable)
    BY <1>3
  <1>11. DoorTimers'
    BY <1>8, <1>9 DEF ObjectInv, DoorTimers
  <1>12. DoorEdgesAgree'
    <2> SUFFICES ASSUME NEW q \in Objects
                 PROVE  q \in passable' <=> /\ object'[q].kind = "door" /\ object'[q].action = "door"
                                            /\ object'[q].timer \in HoldFirst .. CloseFirst
      BY DEF DoorEdgesAgree
    <2>1. CASE q = o
      BY <1>1, <1>5, <1>8, <1>9, <2>1
    <2>2. CASE q # o
      BY <1>8, <1>10, <2>2 DEF ObjectInv, DoorEdgesAgree
    <2> QED
      BY <2>1, <2>2
  <1>13. NobodyShutIn' /\ passable' \subseteq Objects
    BY <1>3 DEF ObjectInv, NobodyShutIn, TypeOK
  <1> QED
    BY <1>7, <1>11, <1>12, <1>13, EasedKeeps DEF DoorStep, ObjectInv, TypeOK

\* A shot takes a record that is free.
LEMMA EmitterKeeps ==
    ASSUME ObjectInv, NEW o \in Objects, object[o].action = "emitter", EmitterStep(o, object[o]),
           cursor' \in 0 .. Size, UNCHANGED <<standing, floor, record, stock, saved, saves>>
    PROVE  Eased /\ ObjectInv'
  <1>1. Quiet
    <2>1. object[o].timer \in Nat /\ object[o].action # "door"
      BY VisitedObject DEF ObjectType
    <2>2. CASE object' = object
      BY <2>2, QuietSelf
    <2>3. CASE object' = [object EXCEPT ![o].timer = Cooldown]
      BY <2>1, <2>3, VisitTimes, ObjectConstants
    <2>4. CASE object[o].timer > 0 /\ object' = [object EXCEPT ![o].timer = object[o].timer - 1]
      <3>1. object[o].timer - 1 \in Nat
        BY <2>1, <2>4
      <3> QED
        BY <2>1, <2>4, <3>1, VisitTimes
    <2> QED
      BY <2>2, <2>3, <2>4 DEF EmitterStep
  <1>2. /\ effect' \in [EffectSlots -> [owner : 0 .. Other, phase : 0 .. SwitchSteps]]
        /\ \A e \in EffectSlots : effect[e].owner \in Objects => effect'[e].owner = effect[e].owner
    <2> DEFINE first == CHOOSE e \in FreeEffects : \A d \in FreeEffects : e <= d
    <2>1. effect' = effect \/ effect' = [effect EXCEPT ![first] = [owner |-> Other, phase |-> 0]]
      BY DEF EmitterStep
    <2>2. \A e \in EffectSlots : effect[e].owner \in Objects => e \notin FreeEffects
      BY ObjectConstants DEF FreeEffects, Free, Objects
    <2>3. FreeEffects # {} => first \in FreeEffects
      <3> DEFINE Less == OpToRel(<, Nat)
      <3>1. IsWellFoundedOn(Less, Nat)
        BY NatLessThanWellFounded
      <3>2. \A a, b \in Nat : ~(<<b, a>> \in Less) => a <= b
        BY DEF OpToRel
      <3>3. FreeEffects \subseteq Nat
        BY ObjectConstants DEF FreeEffects, EffectSlots
      <3> HIDE DEF Less
      <3> SUFFICES ASSUME FreeEffects # {} PROVE first \in FreeEffects
        OBVIOUS
      <3>4. PICK s \in FreeEffects : \A r \in FreeEffects : ~(<<r, s>> \in Less)
        BY <3>1, <3>3, WFMin
      <3>5. \A r \in FreeEffects : s <= r
        BY <3>2, <3>3, <3>4
      <3> QED
        BY <3>4, <3>5
    <2>4. FreeEffects = {} => effect' = effect
      BY DEF EmitterStep
    <2> HIDE DEF first
    <2>5. effect \in [EffectSlots -> [owner : 0 .. Other, phase : 0 .. SwitchSteps]]
      BY DEF ObjectInv, TypeOK
    <2>6. Other \in 0 .. Other /\ 0 \in 0 .. SwitchSteps
      BY ObjectConstants DEF Other
    <2> QED
      BY <2>1, <2>2, <2>3, <2>4, <2>5, <2>6
  <1> QED
    BY <1>1, <1>2, QuietKeeps DEF EmitterStep, Quiet, ObjectInv, TypeOK, NobodyShutIn

LEMMA HazardKeeps ==
    ASSUME ObjectInv, NEW o \in Objects, object[o].action = "hazard", HazardStep(o, object[o]),
           cursor' \in 0 .. Size, UNCHANGED <<standing, floor, record, stock, saved, saves>>
    PROVE  Eased /\ ObjectInv'
  <1>1. Quiet
    BY VisitTimes DEF HazardStep
  <1>2. object[o].effect \in EffectSlots /\ SwitchSteps \in 0 .. SwitchSteps
    BY VisitedObject, ObjectConstants DEF WithEffect, Kinds
  <1>3. /\ effect' \in [EffectSlots -> [owner : 0 .. Other, phase : 0 .. SwitchSteps]]
        /\ \A d \in EffectSlots : effect'[d].owner = effect[d].owner
    BY <1>2, PhaseKeeps DEF HazardStep
  <1> QED
    BY <1>1, <1>3, QuietKeeps DEF HazardStep, Quiet, ObjectInv, TypeOK, NobodyShutIn

LEMMA GraveKeeps ==
    ASSUME ObjectInv, NEW o \in Objects, object[o].action = "grave", GraveStep(o, object[o]),
           cursor' \in 0 .. Size, UNCHANGED <<standing, floor, record, stock, saved, saves>>
    PROVE  Eased /\ ObjectInv'
  <1>1. Quiet
    BY VisitTimes DEF GraveStep
  <1> QED
    BY <1>1, QuietKeeps DEF GraveStep, Quiet, ObjectInv, TypeOK, NobodyShutIn

\* A stone that settles is counted up to the number that opens the passage, and no further.
LEMMA RevealKeeps ==
    ASSUME ObjectInv, NEW o \in Objects, object[o].action = "socket", RevealStep(o, object[o]),
           cursor' \in 0 .. Size, UNCHANGED <<standing, floor, record, stock, saved, saves>>
    PROVE  Eased /\ ObjectInv'
  <1> DEFINE x == object[o]
             counted == x.timer = SettleEnd /\ floor = StoneFloor /\ script.revealed # Required
             opens == counted /\ script.revealed + 1 >= Required
  <1>1. Quiet
    <2>1. x.timer + 1 \in Nat
      BY VisitedObject DEF ObjectType
    <2> QED
      BY <2>1, VisitTimes DEF RevealStep
  <1>2. script \in ScriptType /\ script.revealed \in 0 .. Required
    BY DEF ObjectInv, TypeOK, ScriptType
  <1>3. /\ script' = IF counted THEN [script EXCEPT !.revealed = script.revealed + 1] ELSE script
        /\ regions' = IF opens THEN regions \cup {Passage} ELSE regions
        /\ UNCHANGED <<passable, effect>>
    BY DEF RevealStep
  <1>4. script' \in ScriptType
    <2>1. counted => script.revealed + 1 \in 0 .. Required
      BY <1>2, ObjectConstants
    <2> HIDE DEF counted
    <2> QED
      BY <1>2, <1>3, <2>1 DEF ScriptType
  <1>5. script'.revealed = script.revealed \/ PassageStaysOpen'
    <2>1. CASE counted
      <3>1. script'.revealed = script.revealed + 1
        BY <1>2, <1>3, <2>1 DEF ScriptType
      <3>2. script'.revealed = Required => Passage \in regions'
        BY <1>2, <1>3, <2>1, <3>1, ObjectConstants
      <3> QED
        BY <3>2 DEF PassageStaysOpen
    <2>2. CASE ~counted
      BY <1>3, <2>2
    <2> QED
      BY <2>1, <2>2
  <1>6. regions \subseteq regions' /\ regions' \subseteq Objects \cup {Passage}
    BY <1>3 DEF ObjectInv, TypeOK
  <1> QED
    BY <1>1, <1>3, <1>4, <1>5, <1>6, QuietKeeps DEF Quiet, ObjectInv, TypeOK, NobodyShutIn

\* A switch turns, and fires its link when it has turned; its object keeps its effect.
LEMMA SwitchKeeps ==
    ASSUME ObjectInv, NEW o \in Objects, object[o].action = "switch", SwitchStep(o, object[o]),
           cursor' \in 0 .. Size, UNCHANGED <<standing, floor, record, stock, saved, saves>>
    PROVE  Eased /\ ObjectInv'
  <1> DEFINE x == object[o]
             phase == effect[x.effect].phase
             Turn(p, t) == /\ effect' = [effect EXCEPT ![x.effect].phase = p]
                           /\ object' = [object EXCEPT ![o].timer = t]
  <1>1. /\ x \in ObjectType /\ x.kind = "switch" /\ x.effect \in EffectSlots
        /\ object \in [Objects -> ObjectType]
    BY VisitedObject, ObjectConstants DEF WithEffect, Kinds
  <1>2. phase \in 0 .. SwitchSteps
    BY <1>1 DEF ObjectInv, TypeOK
  <1>3. UNCHANGED <<passable, regions, script>>
    BY DEF SwitchStep
  <1>4. ASSUME NEW p \in 0 .. SwitchSteps, NEW t \in Nat, Turn(p, t)
        PROVE  Quiet /\ \E q \in 0 .. SwitchSteps : effect' = [effect EXCEPT ![x.effect].phase = q]
    BY <1>4, VisitTimes
  <1>5. ASSUME x.link # NoLink,
               effect' = [effect EXCEPT ![x.effect].phase = SwitchSteps],
               object' = [TriggerLink(object, x.link) EXCEPT ![o] =
                            IF x.link \in Reusable THEN [x EXCEPT !.timer = 3]
                                                  ELSE [x EXCEPT !.link = NoLink]]
        PROVE  Quiet /\ \E q \in 0 .. SwitchSteps : effect' = [effect EXCEPT ![x.effect].phase = q]
    <2> DEFINE mid == TriggerLink(object, x.link)
               y == IF x.link \in Reusable THEN [x EXCEPT !.timer = 3] ELSE [x EXCEPT !.link = NoLink]
    <2>1. mid[o] = x
      BY <1>1 DEF TriggerLink, Trigger, Released
    <2>2. y \in ObjectType /\ Gentle(x, y) /\ Calm(x, y)
      BY <1>1, TimerOne, UnlinkOne
    <2>3. object' = [mid EXCEPT ![o] = y] /\ x.kind # None
      BY <1>1, <1>5, ObjectConstants DEF Kinds
    <2>4. Quiet
      <3> HIDE DEF y
      <3> QED
        BY <1>5, <2>1, <2>2, <2>3, QuietFire
    <2>5. SwitchSteps \in 0 .. SwitchSteps
      BY ObjectConstants
    <2> HIDE DEF x
    <2> QED
      BY <1>5, <2>4, <2>5
  <1>6. Quiet /\ \E q \in 0 .. SwitchSteps : effect' = [effect EXCEPT ![x.effect].phase = q]
    <2>1. /\ SwitchSteps \in 0 .. SwitchSteps /\ 0 \in 0 .. SwitchSteps
          /\ phase + 1 < SwitchSteps => phase + 1 \in 0 .. SwitchSteps
          /\ phase > 1 => phase - 1 \in 0 .. SwitchSteps
      BY <1>2, ObjectConstants
    <2>2. \/ Turn(SwitchSteps, 2)
          \/ phase + 1 < SwitchSteps /\ Turn(phase + 1, 1)
          \/ /\ x.link # NoLink
             /\ effect' = [effect EXCEPT ![x.effect].phase = SwitchSteps]
             /\ object' = [TriggerLink(object, x.link) EXCEPT ![o] =
                             IF x.link \in Reusable THEN [x EXCEPT !.timer = 3]
                                                   ELSE [x EXCEPT !.link = NoLink]]
          \/ phase > 1 /\ Turn(phase - 1, 3)
          \/ Turn(0, 0)
      BY DEF SwitchStep
    <2> HIDE DEF Turn, phase, x
    <2> QED
      BY <1>4, <1>5, <2>1, <2>2
  <1>7. /\ effect' \in [EffectSlots -> [owner : 0 .. Other, phase : 0 .. SwitchSteps]]
        /\ \A d \in EffectSlots : effect'[d].owner = effect[d].owner
    BY <1>1, <1>6, PhaseKeeps
  <1> QED
    BY <1>3, <1>6, <1>7, QuietKeeps DEF Quiet, ObjectInv, TypeOK, NobodyShutIn

LEMMA UpdateKeeps ==
    ASSUME ObjectInv, NEW o \in Objects, Update(o)
    PROVE  Eased /\ ObjectInv'
  <1>1. cursor' \in 0 .. Size /\ UNCHANGED <<standing, floor, record, stock, saved, saves>>
    BY NextIsSlot DEF Update
  <1>2. \/ object[o].action = "door" /\ DoorStep(o, object[o])
        \/ object[o].action = "emitter" /\ EmitterStep(o, object[o])
        \/ object[o].action = "hazard" /\ HazardStep(o, object[o])
        \/ object[o].action = "switch" /\ SwitchStep(o, object[o])
        \/ object[o].action = "grave" /\ GraveStep(o, object[o])
        \/ object[o].action = "socket" /\ RevealStep(o, object[o])
    BY DEF Update
  <1> QED
    BY <1>1, <1>2, DoorKeeps, EmitterKeeps, HazardKeeps, SwitchKeeps, GraveKeeps, RevealKeeps

-----------------------------------------------------------------------------
(* Floors, saves and loads.                                                *)

\* What a floor's list does not reach has no action there.
LEMMA BeyondIsQuiet ==
    ASSUME ObjectInv, NEW f \in Floors
    PROVE  \A o \in Objects \ Placed(f) : object[o].action = None
  <1> SUFFICES ASSUME NEW o \in Objects \ Placed(f) PROVE object[o].action = None
    OBVIOUS
  <1>1. floor \in Floors /\ FromPlacement(floor, o, object[o])
    BY DEF ObjectInv, TypeOK, WorldIsPlaced, OfFloor
  <1>2. KindOf(floor, o) \in {"chest", "box", "pickup", "savepoint", None}
    BY <1>1, BeyondTheList DEF KindOf
  <1> QED
    BY <1>1, <1>2, ActionOfKind

\* The records with that of this floor.
LEMMA PersistedKeeps ==
    ASSUME ObjectInv
    PROVE  /\ Persisted \in RecordsType /\ AllOfFloors(Persisted)
           /\ Persisted[floor] = Stored /\ \A f \in Floors : f # floor => Persisted[f] = record[f]
           /\ \A o \in Objects : Kept(object[o], Restored(floor, Stored)[o])
  <1>1. TypeOK /\ OfFloor(floor, object) /\ AllOfFloors(record)
    BY DEF ObjectInv, WorldIsPlaced
  <1>2. floor \in Floors /\ record \in [Floors -> {None} \cup RecordType]
    BY <1>1 DEF TypeOK, RecordsType
  <1>3. /\ Stored \in RecordType /\ OfFloor(floor, Restored(floor, Stored))
        /\ \A o \in Objects : Kept(object[o], Restored(floor, Stored)[o])
    BY <1>1, StoredKeeps
  <1>4. Persisted[floor] = Stored /\ \A f \in Floors : f # floor => Persisted[f] = record[f]
    BY <1>2 DEF Persisted
  <1>5. Persisted \in RecordsType
    BY <1>2, <1>3 DEF Persisted, RecordsType
  <1>6. AllOfFloors(Persisted)
    BY <1>1, <1>3, <1>4 DEF AllOfFloors
  <1> QED
    BY <1>3, <1>4, <1>5, <1>6

\* A floor entered with sound records, scripts and stock is sound.
LEMMA EnteredIsSound ==
    ASSUME NEW f \in Floors, NEW old \in [Objects -> ObjectType],
           \A o \in Objects \ Placed(f) : old[o].action = None,
           record' \in RecordsType, AllOfFloors(record'), script' \in ScriptType, stock' \in StockType,
           LoadFloor(f, old, record', script', stock'), cursor' = 0, saves' \in 0 .. MaxSaves,
           saved' \in {None} \cup [floor : Floors, record : RecordsType, script : ScriptType, stock : StockType],
           saved' # None => AllOfFloors(saved'.record)
    PROVE  /\ ObjectInv' /\ floor' = f
           /\ \A o \in Objects : Kept(Restored(f, record'[f])[o], object'[o])
  <1>1. OfFloor(f, Restored(f, record'[f]))
    BY DEF AllOfFloors
  <1>2. /\ object' \in [Objects -> ObjectType] /\ OfFloor(f, object') /\ floor' = f
        /\ effect' \in [EffectSlots -> [owner : 0 .. Other, phase : 0 .. SwitchSteps]]
        /\ passable' = {} /\ standing' = {} /\ regions' \subseteq {Passage}
        /\ DoorTimers' /\ DoorEdgesAgree' /\ NobodyShutIn' /\ EffectsOwned'
        /\ f = StoneFloor /\ script'.revealed = Required => Passage \in regions'
        /\ \A o \in Objects : Kept(Restored(f, record'[f])[o], object'[o])
    BY <1>1, LoadKeeps
  <1>3. TypeOK'
    BY <1>2, ObjectConstants DEF TypeOK
  <1>4. WorldIsPlaced' /\ PassageStaysOpen'
    BY <1>2 DEF WorldIsPlaced, PassageStaysOpen
  <1> QED
    BY <1>2, <1>3, <1>4 DEF ObjectInv

LEMMA ChangeFloorKeeps ==
    ASSUME ObjectInv, NEW f \in Floors, ChangeFloor(f)
    PROVE  /\ ObjectInv' /\ floor' = f /\ f # floor /\ record' = Persisted
           /\ \A o \in Objects : Kept(Restored(f, record'[f])[o], object'[o])
  <1>1. Persisted \in RecordsType /\ AllOfFloors(Persisted)
    BY PersistedKeeps
  <1>2. /\ record' = Persisted /\ f # floor /\ cursor' = 0 /\ UNCHANGED <<script, stock, saved, saves>>
        /\ LoadFloor(f, object, record', script', stock')
    BY DEF ChangeFloor
  <1>3. \A o \in Objects \ Placed(f) : object[o].action = None
    BY BeyondIsQuiet
  <1> QED
    BY <1>1, <1>2, <1>3, EnteredIsSound DEF ObjectInv, TypeOK, WorldIsPlaced

LEMMA UseSavePointKeeps ==
    ASSUME ObjectInv, NEW o \in Objects, UseSavePoint(o)
    PROVE  Eased /\ ObjectInv' /\ record' = Persisted /\ floor' = floor
  <1>1. /\ record' = Persisted
        /\ UNCHANGED <<object, passable, regions, effect, standing, cursor, floor, script, stock>>
    BY DEF UseSavePoint
  <1>2. Persisted \in RecordsType /\ AllOfFloors(Persisted)
    BY PersistedKeeps
  <1>3. /\ saves' \in 0 .. MaxSaves
        /\ saved' \in {None} \cup [floor : Floors, record : RecordsType, script : ScriptType, stock : StockType]
        /\ saved' # None => AllOfFloors(saved'.record)
    <2>1. CASE UNCHANGED <<saved, saves>>
      BY <2>1 DEF ObjectInv, TypeOK, WorldIsPlaced
    <2>2. CASE /\ saves < MaxSaves /\ saves' = saves + 1
               /\ saved' = [floor |-> floor, record |-> Persisted, script |-> script, stock |-> stock]
      BY <1>2, <2>2, ObjectConstants DEF ObjectInv, TypeOK
    <2> QED
      BY <2>1, <2>2 DEF UseSavePoint
  <1>4. TypeOK'
    BY <1>1, <1>2, <1>3 DEF ObjectInv, TypeOK
  <1>5. WorldIsPlaced'
    BY <1>1, <1>2, <1>3 DEF ObjectInv, WorldIsPlaced
  <1>6. DoorTimers' /\ DoorEdgesAgree' /\ NobodyShutIn' /\ EffectsOwned' /\ PassageStaysOpen'
    BY <1>1 DEF ObjectInv, DoorTimers, DoorEdgesAgree, NobodyShutIn, EffectsOwned, PassageStaysOpen
  <1>7. Eased
    BY <1>1, QuietSelf DEF Quiet
  <1> QED
    BY <1>1, <1>4, <1>5, <1>6, <1>7 DEF ObjectInv

LEMMA LoadGameKeeps ==
    ASSUME ObjectInv, LoadGame
    PROVE  /\ ObjectInv' /\ saved # None /\ floor' = saved.floor /\ saved.floor \in Floors /\ record' = saved.record
           /\ \A o \in Objects : Kept(Restored(floor', record'[floor'])[o], object'[o])
  <1>1. /\ saved # None /\ record' = saved.record /\ script' = saved.script /\ stock' = saved.stock
        /\ LoadFloor(saved.floor, object, record', script', stock')
        /\ cursor' = 0 /\ UNCHANGED <<saved, saves>>
    BY DEF LoadGame
  <1>2. saved \in [floor : Floors, record : RecordsType, script : ScriptType, stock : StockType]
    BY <1>1 DEF ObjectInv, TypeOK
  <1>3. AllOfFloors(saved.record)
    BY <1>1 DEF ObjectInv, WorldIsPlaced
  <1>4. \A o \in Objects \ Placed(saved.floor) : object[o].action = None
    BY <1>2, BeyondIsQuiet
  <1> QED
    BY <1>1, <1>2, <1>3, <1>4, EnteredIsSound DEF ObjectInv, TypeOK, WorldIsPlaced

\* The records and the scripts of a new game.
LEMMA NewGameIsSound ==
    /\ [f \in Floors |-> None] \in RecordsType /\ AllOfFloors([f \in Floors |-> None])
    /\ NewScript \in ScriptType /\ Nothing \in StockType
  <1>1. [f \in Floors |-> None] \in RecordsType /\ NewScript \in ScriptType /\ Nothing \in StockType
    BY ObjectConstants DEF RecordsType, NewScript, ScriptType, Nothing, StockType
  <1>2. ASSUME NEW f \in Floors
        PROVE  OfFloor(f, Restored(f, None))
    <2> DEFINE fresh == PoolLoad(f, Cleared)
    <2>1. Restored(f, None) = fresh
      BY DEF Restored, Unstored
    <2>2. \A o \in Objects : FromPlacement(f, o, fresh[o])
      BY FreshPool, ClearedObjects
    <2>3. \A a \in Placed(f) : fresh[a].link = Placements[f][a].link
      BY PlacedSlots DEF PoolLoad
    <2> HIDE DEF fresh
    <2>4. FiredAreGone(f, fresh)
      BY <2>3, ObjectConstants DEF FiredAreGone, Links
    <2> QED
      BY <2>1, <2>2, <2>4 DEF OfFloor
  <1>3. AllOfFloors([f \in Floors |-> None])
    BY <1>2 DEF AllOfFloors
  <1> QED
    BY <1>1, <1>3

LEMMA NewGameKeeps ==
    ASSUME ObjectInv, NewGameAfterDeath \/ NewSession
    PROVE  ObjectInv' /\ \A o \in Objects : Kept(Restored(floor', record'[floor'])[o], object'[o])
  <1>1. PICK old \in {object, Cleared} : NewGame(old)
    BY DEF NewGameAfterDeath, NewSession
  <1>2. FirstFloor \in Floors /\ old \in [Objects -> ObjectType]
        /\ \A o \in Objects \ Placed(FirstFloor) : old[o].action = None
    BY <1>1, ObjectConstants, ClearedObjects, BeyondIsQuiet DEF ObjectInv, TypeOK
  <1>3. /\ record' = [f \in Floors |-> None] /\ script' = NewScript /\ stock' = Nothing
        /\ LoadFloor(FirstFloor, old, record', script', stock')
        /\ cursor' = 0 /\ UNCHANGED <<saved, saves>>
    BY <1>1 DEF NewGame
  <1> QED
    BY <1>2, <1>3, NewGameIsSound, EnteredIsSound DEF ObjectInv, TypeOK, WorldIsPlaced

-----------------------------------------------------------------------------
(* The invariant.                                                          *)

LEMMA ObjectInit == Init => ObjectInv
  <1> SUFFICES ASSUME Init PROVE ObjectInv
    OBVIOUS
  <1>1. /\ floor = FirstFloor /\ object = PoolLoad(FirstFloor, Cleared) /\ effect = EffectsOf(FirstFloor)
        /\ passable = {} /\ regions = {} /\ standing = {} /\ cursor = 0
        /\ record = [f \in Floors |-> None] /\ script = NewScript /\ stock = Nothing
        /\ saved = None /\ saves = 0
    BY DEF Init
  <1>2. /\ FirstFloor \in Floors /\ object \in [Objects -> ObjectType]
        /\ \A o \in Objects : object[o].action # "door"
    BY <1>1, FreshPool, ClearedObjects, ObjectConstants
  <1>3. effect \in [EffectSlots -> [owner : 0 .. Other, phase : 0 .. SwitchSteps]] /\ EffectsOwned
    BY <1>1, <1>2, EffectsMade DEF EffectsOwned
  <1>4. record \in RecordsType /\ AllOfFloors(record) /\ script \in ScriptType /\ stock \in StockType
    BY <1>1, NewGameIsSound
  <1>5. TypeOK
    BY <1>1, <1>2, <1>3, <1>4, ObjectConstants DEF TypeOK
  <1>6. WorldIsPlaced
    <2>1. record[FirstFloor] = None
      BY <1>1, <1>2
    <2>2. Restored(FirstFloor, None) = object
      BY <1>1 DEF Restored, Unstored
    <2> QED
      BY <1>1, <1>2, <1>4, <2>1, <2>2 DEF WorldIsPlaced, AllOfFloors
  <1>7. DoorTimers /\ DoorEdgesAgree /\ NobodyShutIn
    BY <1>1, <1>2 DEF DoorTimers, DoorEdgesAgree, NobodyShutIn
  <1>8. PassageStaysOpen
    BY <1>1, ObjectConstants DEF PassageStaysOpen, NewScript
  <1> QED
    BY <1>3, <1>5, <1>6, <1>7, <1>8 DEF ObjectInv

\* What a step does: it changes the objects of the floor, or enters a floor.
Stays == /\ Eased /\ floor' = floor
         /\ record' = record \/ record' = Persisted
LEMMA ObjectStep ==
    ASSUME ObjectInv, [Next]_vars
    PROVE  ObjectInv' /\ (Stays \/ (\E f \in Floors : ChangeFloor(f)) \/ LoadGame \/ Restarts)
  <1>1. ASSUME NEW o \in Objects, Interact(o)
        PROVE  ObjectInv' /\ Stays
    <2>1. Quiet /\ ObjectInv'
      BY <1>1, InteractKeeps
    <2> QED
      BY <1>1, <2>1 DEF Interact, Quiet, Stays
  <1>2. ASSUME NEW o \in Objects, NEW k \in Keys, UseKey(k, o)
        PROVE  ObjectInv' /\ Stays
    <2>1. Quiet /\ ObjectInv'
      BY <1>2, UseKeyKeeps
    <2> QED
      BY <1>2, <2>1 DEF UseKey, Quiet, Stays
  <1>3. ASSUME NEW o \in Objects, NEW i \in Stones \cup Keys, UseOnItsLike(i, o)
        PROVE  ObjectInv' /\ Stays
    <2>1. Quiet /\ ObjectInv'
      BY <1>3, UseOnItsLikeKeeps
    <2> QED
      BY <1>3, <2>1 DEF UseOnItsLike, Quiet, Stays
  <1>4. ASSUME TransformWeapon \/ BossDies \/ KeeperUnlocks
        PROVE  ObjectInv' /\ Stays
    <2>1. Quiet /\ ObjectInv'
      BY <1>4, ScriptsKeep
    <2> QED
      BY <1>4, <2>1 DEF TransformWeapon, BossDies, KeeperUnlocks, Quiet, Stays
  <1>5. ASSUME NEW o \in Objects, EnterDoorway(o) \/ LeaveDoorway(o)
        PROVE  ObjectInv' /\ Stays
    <2>1. Quiet /\ ObjectInv'
      BY <1>5, OthersKeep
    <2> QED
      BY <1>5, <2>1 DEF EnterDoorway, LeaveDoorway, Quiet, Stays
  <1>6. ASSUME NEW o \in Objects, UseSavePoint(o)
        PROVE  ObjectInv' /\ Stays
    BY <1>6, UseSavePointKeeps DEF Stays
  <1>7. ASSUME NEW e \in EffectSlots, OtherEffectEnds(e)
        PROVE  ObjectInv' /\ Stays
    <2>1. Quiet /\ ObjectInv'
      BY <1>7, OthersKeep
    <2> QED
      BY <1>7, <2>1 DEF OtherEffectEnds, Quiet, Stays
  <1>8. ASSUME NEW o \in Objects, Update(o)
        PROVE  ObjectInv' /\ Stays
    <2>1. Eased /\ ObjectInv'
      BY <1>8, UpdateKeeps
    <2> QED
      BY <1>8, <2>1 DEF Update, Stays
  <1>9. ASSUME BeginUpdate \/ UNCHANGED vars
        PROVE  ObjectInv' /\ Stays
    <2>1. Quiet /\ ObjectInv'
      BY <1>9, OthersKeep
    <2> QED
      BY <1>9, <2>1 DEF BeginUpdate, vars, Quiet, Stays
  <1>10. ASSUME NEW f \in Floors, ChangeFloor(f)
         PROVE  ObjectInv'
    BY <1>10, ChangeFloorKeeps
  <1>11. LoadGame => ObjectInv'
    BY LoadGameKeeps
  <1>12. Restarts => ObjectInv'
    BY NewGameKeeps DEF Restarts
  <1> QED
    BY <1>1, <1>2, <1>3, <1>4, <1>5, <1>6, <1>7, <1>8, <1>9, <1>10, <1>11, <1>12 DEF Next, Restarts

\* Whatever the placements, the objects, the records of all floors and the saved game are
\* made of them, and the grid, the effects and the passage follow the objects.
THEOREM ObjectInvariant == Spec => []ObjectInv
  <1>1. Init => ObjectInv
    BY ObjectInit
  <1>2. ObjectInv /\ [Next]_vars => ObjectInv'
    BY ObjectStep
  <1> QED
    BY <1>1, <1>2, PTL DEF Spec

\* The grid lets a walker through a door exactly while the door holds itself open.
THEOREM DoorsAndGridAgree == Spec => []DoorEdgesAgree
  <1>1. ObjectInv => DoorEdgesAgree
    BY DEF ObjectInv
  <1> QED
    BY <1>1, ObjectInvariant, PTL

\* No door shuts on whoever stands in it.
THEOREM DoorsWait == Spec => []NobodyShutIn
  <1>1. ObjectInv => NobodyShutIn
    BY DEF ObjectInv
  <1> QED
    BY <1>1, ObjectInvariant, PTL

\* The effect a hazard or switch lists is its own, whatever records say and emitters make.
THEOREM EffectsStayWithTheirObjects == Spec => []LinkedEffectIsOwn
  <1>1. ASSUME ObjectInv
        PROVE  LinkedEffectIsOwn
    <2> SUFFICES ASSUME NEW o \in Objects, object[o].kind \in WithEffect
                 PROVE  object[o].effect # 0 /\ effect[object[o].effect].owner = o
      BY DEF LinkedEffectIsOwn
    <2>1. /\ object[o].effect = EffectIndex(floor, o) /\ object[o].effect \in EffectSlots
          /\ o \in Placed(floor) /\ FromPlacement(floor, o, object[o])
      BY <1>1, VisitedObject DEF ObjectInv, WorldIsPlaced, OfFloor
    <2>2. object[o].effect # 0
      BY <2>1, ObjectConstants DEF EffectSlots
    <2>3. Placements[floor][o].kind \in WithEffect
      BY <2>1, ObjectConstants DEF FromPlacement, KindOf, WithEffect, Kinds
    <2> QED
      BY <1>1, <2>1, <2>2, <2>3 DEF ObjectInv, EffectsOwned
  <1> QED
    BY <1>1, ObjectInvariant, PTL

\* The passage of the seals is open whenever it counts as open, on every visit.
THEOREM PassageIsOpen == Spec => []PassageStaysOpen
  <1>1. ObjectInv => PassageStaysOpen
    BY DEF ObjectInv
  <1> QED
    BY <1>1, ObjectInvariant, PTL

-----------------------------------------------------------------------------
(* What the player sees of a floor.                                        *)

LEMMA ViewHere == ASSUME NEW o \in Objects PROVE View(floor)[o] = ViewOf(object[o])
  BY DEF View
LEMMA ViewThere ==
    ASSUME NEW f \in Floors, f # floor, NEW o \in Objects
    PROVE  View(f)[o] = ViewOf(Restored(f, record[f])[o])
  BY DEF View, Recorded, Restored

\* A one-shot switch or socket that has fired has released all that hangs on its link,
\* also on the floors that are only recorded.
THEOREM FiredLinksAreGone == Spec => []FiredLinkIsGone
  <1>1. ASSUME ObjectInv
        PROVE  FiredLinkIsGone
    <2> SUFFICES ASSUME NEW f \in Floors, NEW a \in Placed(f), NEW b \in Placed(f),
                        Placements[f][a].kind \in {"switch", "socket"}, Placements[f][a].link \in OneShot,
                        View(f)[a].link = NoLink, View(f)[b].kind \in Released
                 PROVE  View(f)[b].link # Placements[f][a].link
      BY DEF FiredLinkIsGone
    <2> DEFINE objects == IF f = floor THEN object ELSE Restored(f, record[f])
    <2>1. FiredAreGone(f, objects)
      BY <1>1 DEF ObjectInv, WorldIsPlaced, AllOfFloors, OfFloor
    <2>2. \A o \in Placed(f) : View(f)[o] = ViewOf(objects[o])
      BY PlacedSlots, ViewHere, ViewThere
    <2> HIDE DEF objects
    <2>3. /\ View(f)[a].link = objects[a].link /\ View(f)[b].link = objects[b].link
          /\ View(f)[b].kind = objects[b].kind
      <3>1. View(f)[a] = ViewOf(objects[a]) /\ View(f)[b] = ViewOf(objects[b])
        BY <2>2
      <3> QED
        BY <3>1 DEF ViewOf
    <2> QED
      BY <2>1, <2>3 DEF FiredAreGone
  <1> QED
    BY <1>1, ObjectInvariant, PTL

-----------------------------------------------------------------------------
(* The floors after a step.                                                *)

KeptView(a, b) == Forward(a, b) /\ SameGoods(a, b)

LEMMA KeptSelf == \A x : KeptView(ViewOf(x), ViewOf(x))
  BY GentleSelf, GentleForward DEF KeptView, SameGoods

\* On the floor the player stays on only the objects of the step change.
LEMMA ViewsWhileStaying ==
    ASSUME ObjectInv, Stays, NEW f \in Floors, NEW o \in Objects
    PROVE  IF f = floor THEN View(f)[o] = ViewOf(object[o]) /\ View(f)'[o] = ViewOf(object'[o])
                        ELSE View(f)[o] = View(f)'[o] /\ KeptView(View(f)[o], View(f)'[o])
  <1>1. CASE f = floor
    BY <1>1 DEF View, Stays
  <1>2. CASE f # floor
    <2>1. record'[f] = record[f]
      BY <1>2, PersistedKeeps DEF Stays
    <2>2. View(f)[o] = ViewOf(Restored(f, record[f])[o]) /\ View(f)'[o] = ViewOf(Restored(f, record[f])[o])
      BY <1>2, <2>1 DEF View, Recorded, Restored, Stays
    <2> QED
      BY <1>2, <2>2, KeptSelf
  <1> QED
    BY <1>1, <1>2

\* The floor that is left and the one that is entered hold what they held.
LEMMA ViewsAfterChange ==
    ASSUME ObjectInv, NEW g \in Floors, ChangeFloor(g), NEW f \in Floors, NEW o \in Objects
    PROVE  KeptView(View(f)[o], View(f)'[o])
  <1>1. /\ floor' = g /\ g # floor /\ record' = Persisted
        /\ KeptView(ViewOf(Restored(g, record'[g])[o]), ViewOf(object'[o]))
    BY ChangeFloorKeeps DEF Kept, KeptView
  <1>2. /\ record'[floor] = Stored /\ (f # floor => record'[f] = record[f])
        /\ KeptView(ViewOf(object[o]), ViewOf(Restored(floor, Stored)[o]))
    BY <1>1, PersistedKeeps DEF Kept, KeptView
  <1>3. CASE f = g
    <2>1. View(f)[o] = ViewOf(Restored(g, record'[g])[o]) /\ View(f)'[o] = ViewOf(object'[o])
      BY <1>1, <1>2, <1>3 DEF View, Recorded, Restored
    <2> QED
      BY <1>1, <2>1
  <1>4. CASE f = floor
    <2>1. View(f)[o] = ViewOf(object[o]) /\ View(f)'[o] = ViewOf(Restored(floor, Stored)[o])
      BY <1>1, <1>2, <1>4 DEF View, Recorded, Restored
    <2> QED
      BY <1>2, <2>1
  <1>5. CASE f # g /\ f # floor
    <2>1. View(f)[o] = ViewOf(Restored(f, record[f])[o]) /\ View(f)'[o] = ViewOf(Restored(f, record[f])[o])
      BY <1>1, <1>2, <1>5 DEF View, Recorded, Restored
    <2> QED
      BY <2>1, KeptSelf
  <1> QED
    BY <1>3, <1>4, <1>5

\* A floor that is entered over given records, and the others as these say.
LEMMA ViewsOfRecords ==
    ASSUME NEW records, record' = records, NEW f \in Floors, NEW o \in Objects,
           Kept(Restored(floor', records[floor'])[o], object'[o])
    PROVE  KeptView(Recorded(f, records[f])[o], View(f)'[o])
  <1>1. Recorded(f, records[f])[o] = ViewOf(Restored(f, records[f])[o])
    BY DEF Recorded, Restored
  <1>2. CASE f = floor'
    <2>1. View(f)'[o] = ViewOf(object'[o])
      BY <1>2 DEF View
    <2> QED
      BY <1>1, <1>2, <2>1 DEF Kept, KeptView
  <1>3. CASE f # floor'
    <2>1. View(f)'[o] = ViewOf(Restored(f, records[f])[o])
      BY <1>3 DEF View, Recorded, Restored
    <2> QED
      BY <1>1, <2>1, KeptSelf
  <1> QED
    BY <1>2, <1>3

LEMMA ViewsAfterLoad ==
    ASSUME ObjectInv, LoadGame, NEW f \in Floors, NEW o \in Objects
    PROVE  KeptView(Recorded(f, saved.record[f])[o], View(f)'[o])
  BY LoadGameKeeps, ViewsOfRecords

\* What was opened, released or taken stays so over every step that is no new game; a loaded
\* game goes on from the saved one.
THEOREM WorldOnlyMovesForward == Spec => WorldMovesForward
  <1> DEFINE Ahead == \/ \A f \in Floors : AllForward(View(f), View(f)')
                      \/ LoadGame /\ \A f \in Floors : AllForward(Recorded(f, saved.record[f]), View(f)')
                      \/ Restarts
  <1>1. ASSUME ObjectInv, Stays
        PROVE  \A f \in Floors : AllForward(View(f), View(f)')
    <2> SUFFICES ASSUME NEW f \in Floors, NEW o \in Objects
                 PROVE  Forward(View(f)[o], View(f)'[o])
      BY DEF AllForward
    <2>1. Forward(ViewOf(object[o]), ViewOf(object'[o]))
      BY <1>1, GentleForward DEF Stays, Eased
    <2> QED
      BY <1>1, <2>1, ViewsWhileStaying DEF KeptView
  <1>2. ASSUME ObjectInv, NEW g \in Floors, ChangeFloor(g)
        PROVE  \A f \in Floors : AllForward(View(f), View(f)')
    BY <1>2, ViewsAfterChange DEF AllForward, KeptView
  <1>3. ASSUME ObjectInv, LoadGame
        PROVE  \A f \in Floors : AllForward(Recorded(f, saved.record[f]), View(f)')
    BY <1>3, ViewsAfterLoad DEF AllForward, KeptView
  <1>4. ObjectInv /\ [Next]_vars => [Ahead]_<<object, record, floor>>
    <2>1. SUFFICES ASSUME ObjectInv, [Next]_vars PROVE Ahead
      OBVIOUS
    <2>2. Stays \/ (\E f \in Floors : ChangeFloor(f)) \/ LoadGame \/ Restarts
      BY <2>1, ObjectStep
    <2> QED
      BY <2>1, <2>2, <1>1, <1>2, <1>3
  <1>5. WorldMovesForward <=> [][Ahead]_<<object, record, floor>>
    BY DEF WorldMovesForward
  <1> HIDE DEF Ahead
  <1> QED
    BY <1>4, <1>5, ObjectInvariant, PTL DEF Spec

-----------------------------------------------------------------------------
(* Where items lie.                                                        *)

LEMMA LyingAt ==
    ASSUME NEW i, NEW views, NEW f \in Floors, NEW o \in Objects, NEW k
    PROVE  <<<<f, o>>, k>> \in Lying(i, views) <=> k \in PlacesOf(i, views[f][o])
  <1> DEFINE Block(at) == {at} \X PlacesOf(i, views[at[1]][at[2]])
  <1>1. Lying(i, views) = UNION {Block(at) : at \in Floors \X Objects}
    BY DEF Lying
  <1>2. <<f, o>> \in Floors \X Objects /\ <<f, o>>[1] = f /\ <<f, o>>[2] = o
    OBVIOUS
  <1>3. \A at : <<<<f, o>>, k>> \in Block(at) <=> at = <<f, o>> /\ k \in PlacesOf(i, views[f][o])
    BY <1>2
  <1> HIDE DEF Block
  <1> QED
    BY <1>1, <1>2, <1>3

LEMMA LyingIsPlaces ==
    ASSUME NEW i, NEW views, NEW e \in Lying(i, views)
    PROVE  \E f, o, k : f \in Floors /\ o \in Objects /\ k \in PlacesOf(i, views[f][o]) /\ e = <<<<f, o>>, k>>
  <1>1. PICK at \in Floors \X Objects : e \in {at} \X PlacesOf(i, views[at[1]][at[2]])
    BY DEF Lying
  <1>2. PICK k \in PlacesOf(i, views[at[1]][at[2]]) : e = <<at, k>>
    BY <1>1
  <1>3. PICK f \in Floors, o \in Objects : at = <<f, o>>
    OBVIOUS
  <1> QED
    BY <1>2, <1>3

\* Objects that hold the same give the same places.
LEMMA SamePlaces ==
    ASSUME NEW i, NEW x, NEW y, SameGoods(x, y)
    PROVE  PlacesOf(i, y) = PlacesOf(i, x)
  <1>1. CASE x.kind = None
    <2>1. x.kind \notin {"pickup", "chest", "box"} /\ y.kind \notin {"pickup", "chest", "box"}
      BY <1>1, ObjectConstants DEF SameGoods, Kinds
    <2> QED
      BY <2>1 DEF PlacesOf
  <1>2. CASE x.kind # None
    BY <1>2 DEF PlacesOf, SameGoods
  <1> QED
    BY <1>1, <1>2

LEMMA LyingSame ==
    ASSUME NEW i, NEW v, NEW w, \A f \in Floors, o \in Objects : SameGoods(v[f][o], w[f][o])
    PROVE  Lying(i, w) = Lying(i, v)
  <1>1. \A f \in Floors, o \in Objects : PlacesOf(i, w[f][o]) = PlacesOf(i, v[f][o])
    BY SamePlaces
  <1>2. ASSUME NEW a, NEW b, \A f \in Floors, o \in Objects : PlacesOf(i, b[f][o]) = PlacesOf(i, a[f][o]),
               NEW e \in Lying(i, a)
        PROVE  e \in Lying(i, b)
    <2>1. PICK f, o, k : f \in Floors /\ o \in Objects /\ k \in PlacesOf(i, a[f][o]) /\ e = <<<<f, o>>, k>>
      BY <1>2, LyingIsPlaces
    <2> QED
      BY <1>2, <2>1, LyingAt
  <1> QED
    BY <1>1, <1>2

Sound(views) == \A f \in Floors, o \in Objects : views[f][o].items \in Seq(Items \cup {None})

LEMMA LyingFinite ==
    ASSUME NEW i, NEW views, Sound(views)
    PROVE  IsFiniteSet(Lying(i, views)) /\ Cardinality(Lying(i, views)) \in Nat
  <1> DEFINE Block(at) == {at} \X PlacesOf(i, views[at[1]][at[2]])
             Blocks == {Block(at) : at \in Floors \X Objects}
             h == [at \in Floors \X Objects |-> Block(at)]
  <1>1. IsFiniteSet(Floors \X Objects)
    <2>1. IsFiniteSet(Floors) /\ IsFiniteSet(Objects)
      BY ObjectConstants, MapObjectAssumption, FS_Interval DEF MapObjectAssumption, Objects
    <2> QED
      BY <2>1, FS_Product
  <1>2. ASSUME NEW at \in Floors \X Objects
        PROVE  IsFiniteSet(Block(at))
    <2>1. views[at[1]][at[2]].items \in Seq(Items \cup {None})
      BY DEF Sound
    <2>2. PICK n \in Nat : DOMAIN views[at[1]][at[2]].items = 1 .. n
      BY <2>1
    <2>3. PlacesOf(i, views[at[1]][at[2]]) \subseteq 0 .. n
      BY <2>2 DEF PlacesOf
    <2>4. IsFiniteSet(PlacesOf(i, views[at[1]][at[2]]))
      <3>1. IsFiniteSet(0 .. n)
        BY <2>2, FS_Interval
      <3> QED
        BY <2>3, <3>1, FS_Subset
    <2> QED
      BY <2>4, FS_Singleton, FS_Product
  <1> HIDE DEF Block
  <1>3. h \in Surjection(Floors \X Objects, Blocks)
    BY DEF Surjection
  <1>4. IsFiniteSet(Blocks) /\ \A T \in Blocks : IsFiniteSet(T)
    BY <1>1, <1>2, <1>3, FS_Surjection
  <1>5. Lying(i, views) = UNION Blocks
    BY DEF Lying, Block
  <1> HIDE DEF Blocks
  <1> QED
    BY <1>4, <1>5, FS_UNION, FS_CardinalityType

\* What leaves one object leaves its floor.
LEMMA LyingLess ==
    ASSUME NEW i, NEW v, NEW w, Sound(v), NEW g \in Floors, NEW q \in Objects, NEW lost,
           lost \subseteq PlacesOf(i, v[g][q]), IsFiniteSet(lost),
           PlacesOf(i, w[g][q]) = PlacesOf(i, v[g][q]) \ lost,
           \A f \in Floors, o \in Objects : f # g \/ o # q => PlacesOf(i, w[f][o]) = PlacesOf(i, v[f][o])
    PROVE  Cardinality(Lying(i, w)) = Cardinality(Lying(i, v)) - Cardinality(lost)
  <1> DEFINE T == {<<g, q>>} \X lost
  <1>1. T \subseteq Lying(i, v)
    <2> SUFFICES ASSUME NEW k \in lost PROVE <<<<g, q>>, k>> \in Lying(i, v)
      OBVIOUS
    <2> QED
      BY LyingAt
  <1>2. ASSUME NEW e \in Lying(i, w)
        PROVE  e \in Lying(i, v) \ T
    <2>1. PICK f, o, k : f \in Floors /\ o \in Objects /\ k \in PlacesOf(i, w[f][o]) /\ e = <<<<f, o>>, k>>
      BY LyingIsPlaces
    <2> QED
      BY <2>1, LyingAt
  <1>3. ASSUME NEW e \in Lying(i, v) \ T
        PROVE  e \in Lying(i, w)
    <2>1. PICK f, o, k : f \in Floors /\ o \in Objects /\ k \in PlacesOf(i, v[f][o]) /\ e = <<<<f, o>>, k>>
      BY LyingIsPlaces
    <2>2. k \in PlacesOf(i, w[f][o])
      <3>1. CASE f = g /\ o = q
        <4>1. k \notin lost
          BY <1>3, <2>1, <3>1
        <4> QED
          BY <2>1, <3>1, <4>1
      <3>2. CASE f # g \/ o # q
        BY <2>1, <3>2
      <3> QED
        BY <3>1, <3>2
    <2> QED
      BY <2>1, <2>2, LyingAt
  <1>4. Lying(i, w) = Lying(i, v) \ T /\ Lying(i, v) \cap T = T
    BY <1>1, <1>2, <1>3
  <1>5. Cardinality(T) = Cardinality(lost)
    <2>1. IsFiniteSet({<<g, q>>}) /\ Cardinality({<<g, q>>}) = 1 /\ Cardinality(lost) \in Nat
      BY FS_Singleton, FS_CardinalityType
    <2>2. Cardinality(T) = Cardinality({<<g, q>>}) * Cardinality(lost)
      BY <2>1, FS_Product
    <2> QED
      BY <2>1, <2>2
  <1>6. IsFiniteSet(Lying(i, v))
    BY LyingFinite
  <1> HIDE DEF T
  <1>7. Cardinality(Lying(i, v) \ T) = Cardinality(Lying(i, v)) - Cardinality(Lying(i, v) \cap T)
    BY <1>6, FS_Difference
  <1> QED
    BY <1>4, <1>5, <1>7

-----------------------------------------------------------------------------
(* The balance of an item.                                                 *)

Fair(i, n, views) ==
    /\ n + Cardinality(Lying(i, views)) <= Cardinality(Lying(i, PlacedViews))
    /\ n + Cardinality(Lying(i, views)) < Cardinality(Lying(i, PlacedViews)) => Spent(i, views)
LEMMA BalancedIsFair ==
    \A owned, views : Balanced(owned, views) <=> \A i \in Items : Fair(i, owned[i], views)
  BY DEF Balanced, Fair

\* The views of a floor are of its placements.
OfPlacements(views) ==
    \A f \in Floors : \A o \in Placed(f) :
        views[f][o].kind = Placements[f][o].kind \/ Placements[f][o].kind = "pickup"

LEMMA OneView ==
    ASSUME NEW f \in Floors, NEW o, NEW x \in ObjectType, FromPlacement(f, o, x)
    PROVE  /\ ViewOf(x).items \in Seq(Items \cup {None})
           /\ o \in Placed(f) => \/ ViewOf(x).kind = Placements[f][o].kind
                                \/ Placements[f][o].kind = "pickup"
  <1>1. ViewOf(x).items = x.items /\ ViewOf(x).kind = x.kind
    BY DEF ViewOf
  <1>2. x.items \in Seq(Items \cup {None})
    BY DEF ObjectType
  <1>3. o \in Placed(f) => KindOf(f, o) = Placements[f][o].kind
    BY DEF KindOf
  <1>4. x.kind = KindOf(f, o) \/ KindOf(f, o) = "pickup"
    BY DEF FromPlacement
  <1> QED
    BY <1>1, <1>2, <1>3, <1>4

LEMMA RecordsAreSound ==
    ASSUME NEW records \in RecordsType, AllOfFloors(records)
    PROVE  Sound(RecordedViews(records)) /\ OfPlacements(RecordedViews(records))
  <1>1. ASSUME NEW f \in Floors, NEW o \in Objects
        PROVE  /\ RecordedViews(records)[f][o] = ViewOf(Restored(f, records[f])[o])
               /\ Restored(f, records[f])[o] \in ObjectType /\ FromPlacement(f, o, Restored(f, records[f])[o])
    <2>1. PoolLoad(f, Cleared) \in [Objects -> ObjectType] /\ records[f] \in {None} \cup RecordType
      BY FreshPool, ClearedObjects DEF RecordsType
    <2> QED
      BY <2>1, UnstoredOne DEF RecordedViews, Recorded, Restored, AllOfFloors, OfFloor
  <1>2. Sound(RecordedViews(records))
    <2> SUFFICES ASSUME NEW f \in Floors, NEW o \in Objects
                 PROVE  RecordedViews(records)[f][o].items \in Seq(Items \cup {None})
      BY DEF Sound
    <2> QED
      BY <1>1, OneView
  <1>3. OfPlacements(RecordedViews(records))
    <2> SUFFICES ASSUME NEW f \in Floors, NEW o \in Placed(f)
                 PROVE  RecordedViews(records)[f][o].kind = Placements[f][o].kind \/ Placements[f][o].kind = "pickup"
      BY DEF OfPlacements
    <2> QED
      BY <1>1, OneView, PlacedSlots
  <1> QED
    BY <1>2, <1>3

LEMMA ViewsAreSound ==
    ASSUME ObjectInv
    PROVE  Sound(Views) /\ OfPlacements(Views)
  <1>1. Sound(RecordedViews(record)) /\ OfPlacements(RecordedViews(record))
    BY RecordsAreSound DEF ObjectInv, TypeOK, WorldIsPlaced
  <1>2. /\ object \in [Objects -> ObjectType] /\ floor \in Floors
        /\ \A o \in Objects : FromPlacement(floor, o, object[o])
    BY DEF ObjectInv, TypeOK, WorldIsPlaced, OfFloor
  <1>3. ASSUME NEW f \in Floors, NEW o \in Objects
        PROVE  Views[f][o] = IF f = floor THEN ViewOf(object[o]) ELSE RecordedViews(record)[f][o]
    BY DEF Views, View, RecordedViews
  <1>4. Sound(Views)
    <2> SUFFICES ASSUME NEW f \in Floors, NEW o \in Objects
                 PROVE  Views[f][o].items \in Seq(Items \cup {None})
      BY DEF Sound
    <2>1. CASE f = floor
      <3>1. Views[f][o] = ViewOf(object[o]) /\ object[o] \in ObjectType
        BY <1>2, <1>3, <2>1
      <3> QED
        BY <1>2, <2>1, <3>1, OneView
    <2>2. CASE f # floor
      BY <1>1, <1>3, <2>2 DEF Sound
    <2> QED
      BY <2>1, <2>2
  <1>5. OfPlacements(Views)
    <2> SUFFICES ASSUME NEW f \in Floors, NEW o \in Placed(f)
                 PROVE  Views[f][o].kind = Placements[f][o].kind \/ Placements[f][o].kind = "pickup"
      BY DEF OfPlacements
    <2>1. o \in Objects
      BY PlacedSlots
    <2>2. CASE f = floor
      <3>1. Views[f][o] = ViewOf(object[o]) /\ object[o] \in ObjectType
        BY <1>2, <1>3, <2>1, <2>2
      <3> QED
        BY <1>2, <2>1, <2>2, <3>1, OneView
    <2>3. CASE f # floor
      BY <1>1, <1>3, <2>1, <2>3 DEF OfPlacements
    <2> QED
      BY <2>2, <2>3
  <1> QED
    BY <1>4, <1>5

\* What has taken an item goes on showing.
LEMMA SpentStays ==
    ASSUME NEW i, NEW v, NEW w, Spent(i, v), OfPlacements(v),
           \A f \in Floors, o \in Objects : Forward(v[f][o], w[f][o])
    PROVE  Spent(i, w)
  <1>1. PICK f \in Floors : \E o \in Placed(f) :
          LET p == Placements[f][o]
          IN  /\ p.item = i /\ p.link # NoLink
              /\ p.kind \in Unlisted \/ v[f][o].link = NoLink
    BY DEF Spent
  <1>2. PICK o \in Placed(f) : LET p == Placements[f][o]
                               IN  /\ p.item = i /\ p.link # NoLink
                                   /\ p.kind \in Unlisted \/ v[f][o].link = NoLink
    BY <1>1
  <1>3. /\ Forward(v[f][o], w[f][o]) /\ Placements[f][o].kind # None
        /\ v[f][o].kind = Placements[f][o].kind \/ Placements[f][o].kind = "pickup"
    BY PlacedSlots, ObjectConstants DEF OfPlacements, Placement
  <1>4. Placements[f][o].kind \in Unlisted \/ w[f][o].link = NoLink
    BY <1>2, <1>3 DEF Forward, Unlisted
  <1> QED
    BY <1>2, <1>4 DEF Spent

\* Floors that hold what they held are as balanced as before.
LEMMA BalancedSame ==
    ASSUME NEW owned, NEW v, NEW w, Balanced(owned, v), OfPlacements(v),
           \A f \in Floors, o \in Objects : KeptView(v[f][o], w[f][o])
    PROVE  Balanced(owned, w)
  <1> SUFFICES ASSUME NEW i \in Items PROVE Fair(i, owned[i], w)
    BY BalancedIsFair
  <1>1. Fair(i, owned[i], v)
    BY BalancedIsFair
  <1>2. Lying(i, w) = Lying(i, v)
    BY LyingSame DEF KeptView
  <1>3. Spent(i, v) => Spent(i, w)
    BY SpentStays DEF KeptView
  <1> QED
    BY <1>1, <1>2, <1>3 DEF Fair

\* At the start everything lies where it was placed.
LEMMA PlacedIsBalanced ==
    /\ Sound(PlacedViews) /\ OfPlacements(PlacedViews) /\ Balanced(Nothing, PlacedViews)
  <1>1. Sound(PlacedViews) /\ OfPlacements(PlacedViews)
    BY NewGameIsSound, RecordsAreSound DEF PlacedViews
  <1>2. ASSUME NEW i \in Items
        PROVE  Fair(i, Nothing[i], PlacedViews)
    <2>1. Nothing[i] = 0 /\ Cardinality(Lying(i, PlacedViews)) \in Nat
      BY <1>1, LyingFinite DEF Nothing
    <2> QED
      BY <2>1 DEF Fair
  <1> QED
    BY <1>1, <1>2, BalancedIsFair

-----------------------------------------------------------------------------
(* Steps that take nothing.                                                *)

SameHere == \A q \in Objects : SameGoods(object[q], object'[q])

LEMMA FieldGoods ==
    ASSUME NEW x \in ObjectType, NEW l, NEW a, NEW t
    PROVE  /\ SameGoods(x, [x EXCEPT !.link = l]) /\ SameGoods(x, [x EXCEPT !.timer = t])
           /\ SameGoods(x, [x EXCEPT !.action = a, !.timer = t])
  BY DEF ObjectType, SameGoods

LEMMA SameOne ==
    ASSUME object \in [Objects -> ObjectType], NEW o \in Objects, NEW mid \in [Objects -> ObjectType],
           \A q \in Objects : SameGoods(object[q], mid[q]),
           NEW y, SameGoods(mid[o], y), object' = [mid EXCEPT ![o] = y]
    PROVE  SameHere
  <1>1. \A q \in Objects : object'[q] = IF q = o THEN y ELSE mid[q]
    OBVIOUS
  <1> QED
    BY <1>1 DEF SameHere, SameGoods

LEMMA SameFire ==
    ASSUME object \in [Objects -> ObjectType], NEW link
    PROVE  /\ TriggerLink(object, link) \in [Objects -> ObjectType]
           /\ \A q \in Objects : SameGoods(object[q], TriggerLink(object, link)[q])
  BY TriggerOne DEF TriggerLink

LEMMA SameSwitches ==
    ASSUME ObjectInv, NEW o \in Objects, SwitchStep(o, object[o])
    PROVE  SameHere
  <1> DEFINE x == object[o]
             mid == TriggerLink(object, x.link)
  <1>1. x \in ObjectType /\ object \in [Objects -> ObjectType]
    BY VisitedObject
  <1>2. \/ \E t \in 0 .. 3 : object' = [object EXCEPT ![o].timer = t]
        \/ object' = [mid EXCEPT ![o] = [x EXCEPT !.timer = 3]]
        \/ object' = [mid EXCEPT ![o] = [x EXCEPT !.link = NoLink]]
    BY DEF SwitchStep
  <1>3. ASSUME NEW t \in 0 .. 3, object' = [object EXCEPT ![o].timer = t]
        PROVE  SameHere
    <2>1. object' = [object EXCEPT ![o] = [x EXCEPT !.timer = t]] /\ SameGoods(x, [x EXCEPT !.timer = t])
      BY <1>1, <1>3, FieldGoods
    <2>2. \A q \in Objects : SameGoods(object[q], object[q])
      BY DEF SameGoods
    <2> QED
      BY <1>1, <2>1, <2>2, SameOne
  <1>4. mid \in [Objects -> ObjectType] /\ \A q \in Objects : SameGoods(object[q], mid[q])
    BY <1>1, SameFire
  <1>5. \A y : SameGoods(x, y) => SameGoods(mid[o], y)
    <2>1. SameGoods(x, mid[o])
      BY <1>4
    <2> QED
      BY <2>1 DEF SameGoods
  <1>6. SameGoods(x, [x EXCEPT !.timer = 3]) /\ SameGoods(x, [x EXCEPT !.link = NoLink])
    BY <1>1, FieldGoods
  <1> HIDE DEF mid, x
  <1> QED
    BY <1>1, <1>2, <1>3, <1>4, <1>5, <1>6, SameOne DEF x

LEMMA SameUpdate ==
    ASSUME ObjectInv, NEW o \in Objects, Update(o)
    PROVE  SameHere
  <1> DEFINE x == object[o]
  <1>1. x \in ObjectType /\ object \in [Objects -> ObjectType]
    BY VisitedObject
  <1>2. \A q \in Objects : SameGoods(object[q], object[q])
    BY DEF SameGoods
  <1>3. ASSUME NEW y, SameGoods(x, y), object' = [object EXCEPT ![o] = y]
        PROVE  SameHere
    BY <1>1, <1>2, <1>3, SameOne
  <1>4. ASSUME NEW t, object' = [object EXCEPT ![o].timer = t]
        PROVE  SameHere
    <2>1. object' = [object EXCEPT ![o] = [x EXCEPT !.timer = t]]
      BY <1>4
    <2> QED
      BY <1>1, <1>3, <2>1, FieldGoods
  <1>5. CASE DoorStep(o, x)
    <2> DEFINE t == x.timer
               y == IF t = CloseFirst /\ o \in standing THEN x
                    ELSE IF t >= CloseEnd THEN [x EXCEPT !.action = None, !.timer = 0]
                    ELSE IF t = OpenLast THEN [x EXCEPT !.timer = HoldFirst]
                    ELSE [x EXCEPT !.timer = t + 1]
    <2>1. object' = [object EXCEPT ![o] = y]
      BY <1>5 DEF DoorStep
    <2>2. SameGoods(x, y)
      BY <1>1, <1>2, FieldGoods
    <2> HIDE DEF y
    <2> QED
      BY <1>3, <2>1, <2>2
  <1>6. CASE EmitterStep(o, x)
    <2>1. object' = object \/ object' = [object EXCEPT ![o].timer = Cooldown]
          \/ object' = [object EXCEPT ![o].timer = object[o].timer - 1]
      BY <1>6 DEF EmitterStep
    <2> QED
      BY <1>2, <1>4, <2>1 DEF SameHere
  <1>7. CASE HazardStep(o, x) \/ GraveStep(o, x) \/ RevealStep(o, x)
    <2>1. object' = [object EXCEPT ![o].timer = 1] \/ object' = [object EXCEPT ![o].timer = x.timer + 1]
      BY <1>7 DEF HazardStep, GraveStep, RevealStep
    <2> QED
      BY <1>4, <2>1
  <1> QED
    BY <1>5, <1>6, <1>7, SameSwitches DEF Update

LEMMA SameOthers ==
    ASSUME ObjectInv, NEW o \in Objects
    PROVE  /\ OpenDoor(o) \/ PullSwitch(o) => SameHere
           /\ \A k \in Keys : UseKey(k, o) => SameHere
           /\ \A i \in Stones \cup Keys : UseOnItsLike(i, o) => SameHere
           /\ TransformWeapon \/ BossDies \/ KeeperUnlocks => SameHere
           /\ EnterDoorway(o) \/ LeaveDoorway(o) \/ UseSavePoint(o) => SameHere
           /\ \A e \in EffectSlots : OtherEffectEnds(e) => SameHere
           /\ BeginUpdate \/ UNCHANGED vars => SameHere
  <1>1. object[o] \in ObjectType /\ object \in [Objects -> ObjectType]
    BY VisitedObject
  <1>2. \A q \in Objects : SameGoods(object[q], object[q])
    BY DEF SameGoods
  <1>3. object' = object => SameHere
    BY <1>2 DEF SameHere
  <1>4. ASSUME NEW y, SameGoods(object[o], y), object' = [object EXCEPT ![o] = y]
        PROVE  SameHere
    BY <1>1, <1>2, <1>4, SameOne
  <1>5. OpenDoor(o) \/ PullSwitch(o) => SameHere
    <2>1. OpenDoor(o) => object' = [object EXCEPT ![o] = [object[o] EXCEPT !.action = "door", !.timer = 0]]
      BY DEF OpenDoor
    <2>2. PullSwitch(o) => object' = [object EXCEPT ![o] = [object[o] EXCEPT !.timer = 1]]
      BY DEF PullSwitch
    <2> QED
      BY <1>1, <1>4, <2>1, <2>2, FieldGoods
  <1>6. ASSUME NEW k \in Keys, UseKey(k, o)
        PROVE  SameHere
    <2>1. object' = [object EXCEPT ![o] = [object[o] EXCEPT !.link = NoLink]]
      BY <1>6 DEF UseKey
    <2> QED
      BY <1>1, <1>4, <2>1, FieldGoods
  <1>7. ASSUME NEW i \in Stones \cup Keys, UseOnItsLike(i, o)
        PROVE  SameHere
    <2> DEFINE mid == TriggerLink(object, object[o].link)
    <2>1. object' = [mid EXCEPT ![o] = [mid[o] EXCEPT !.link = NoLink]]
      BY <1>7 DEF UseOnItsLike
    <2>2. mid \in [Objects -> ObjectType] /\ \A q \in Objects : SameGoods(object[q], mid[q])
      BY <1>1, SameFire
    <2> HIDE DEF mid
    <2>3. SameGoods(mid[o], [mid[o] EXCEPT !.link = NoLink])
      BY <2>2, FieldGoods
    <2> QED
      BY <1>1, <2>1, <2>2, <2>3, SameOne
  <1>8. TransformWeapon \/ BossDies \/ KeeperUnlocks => SameHere
    BY <1>1, <1>3, SameFire, ClearOne DEF TransformWeapon, BossDies, KeeperUnlocks, SameHere
  <1> QED
    BY <1>3, <1>5, <1>6, <1>7, <1>8
       DEF EnterDoorway, LeaveDoorway, UseSavePoint, OtherEffectEnds, BeginUpdate, vars

-----------------------------------------------------------------------------
(* The balance after a step.                                               *)

LEMMA ViewsAt ==
    \A f \in Floors, o \in Objects : Views[f][o] = View(f)[o] /\ Views'[f][o] = View(f)'[o]
  BY DEF Views

LEMMA StayForward ==
    ASSUME ObjectInv, Stays
    PROVE  \A f \in Floors, o \in Objects : Forward(Views[f][o], Views'[f][o])
  <1> SUFFICES ASSUME NEW f \in Floors, NEW o \in Objects
               PROVE  Forward(View(f)[o], View(f)'[o])
    BY ViewsAt
  <1>1. Forward(ViewOf(object[o]), ViewOf(object'[o]))
    BY GentleForward DEF Stays, Eased
  <1> QED
    BY <1>1, ViewsWhileStaying DEF KeptView

LEMMA StaySame ==
    ASSUME ObjectInv, Stays, SameHere
    PROVE  \A f \in Floors, o \in Objects : KeptView(Views[f][o], Views'[f][o])
  <1> SUFFICES ASSUME NEW f \in Floors, NEW o \in Objects
               PROVE  SameGoods(Views[f][o], Views'[f][o])
    BY StayForward DEF KeptView
  <1>1. SameGoods(ViewOf(object[o]), ViewOf(object'[o]))
    BY DEF SameHere, SameGoods, ViewOf
  <1> QED
    BY <1>1, ViewsAt, ViewsWhileStaying DEF KeptView

LEMMA NothingTaken ==
    ASSUME ObjectInv, EveryItemIsSomewhere, Stays, SameHere, stock' = stock
    PROVE  EveryItemIsSomewhere'
  <1>1. \A f \in Floors, o \in Objects : KeptView(Views[f][o], Views'[f][o])
    BY StaySame
  <1>2. OfPlacements(Views) /\ Balanced(stock, Views)
    BY ViewsAreSound DEF EveryItemIsSomewhere
  <1>3. Balanced(stock, Views')
    BY <1>1, <1>2, BalancedSame
  <1> QED
    BY <1>3 DEF EveryItemIsSomewhere

\* What leaves one object of the floor goes to the player.
LEMMA TakenFromOne ==
    ASSUME ObjectInv, EveryItemIsSomewhere, Stays, NEW o \in Objects,
           \A q \in Objects : q # o => object'[q] = object[q],
           \A i \in Items : \E lost :
               /\ lost \subseteq PlacesOf(i, object[o]) /\ IsFiniteSet(lost)
               /\ PlacesOf(i, object'[o]) = PlacesOf(i, object[o]) \ lost
               /\ stock'[i] = stock[i] + Cardinality(lost)
    PROVE  EveryItemIsSomewhere'
  <1>1. ASSUME NEW i \in Items
        PROVE  Fair(i, stock'[i], Views')
    <2>1. PICK lost : /\ lost \subseteq PlacesOf(i, object[o]) /\ IsFiniteSet(lost)
                      /\ PlacesOf(i, object'[o]) = PlacesOf(i, object[o]) \ lost
                      /\ stock'[i] = stock[i] + Cardinality(lost)
      OBVIOUS
    <2>2. \A x : PlacesOf(i, ViewOf(x)) = PlacesOf(i, x)
      BY DEF PlacesOf, ViewOf
    <2>3. floor \in Floors /\ Views[floor][o] = ViewOf(object[o]) /\ Views'[floor][o] = ViewOf(object'[o])
      BY ViewsAt, ViewsWhileStaying DEF ObjectInv, TypeOK
    <2>4. \A f \in Floors, q \in Objects : f # floor \/ q # o =>
              PlacesOf(i, Views'[f][q]) = PlacesOf(i, Views[f][q])
      BY ViewsAt, ViewsWhileStaying
    <2>5. Cardinality(Lying(i, Views')) = Cardinality(Lying(i, Views)) - Cardinality(lost)
      <3>1. /\ lost \subseteq PlacesOf(i, Views[floor][o])
            /\ PlacesOf(i, Views'[floor][o]) = PlacesOf(i, Views[floor][o]) \ lost
        BY <2>1, <2>2, <2>3
      <3> QED
        BY <2>1, <2>3, <2>4, <3>1, LyingLess, ViewsAreSound
    <2>6. Spent(i, Views) => Spent(i, Views')
      BY SpentStays, StayForward, ViewsAreSound
    <2>7. Fair(i, stock[i], Views)
      BY BalancedIsFair DEF EveryItemIsSomewhere
    <2>8. /\ stock[i] \in Nat /\ Cardinality(lost) \in Nat
          /\ Cardinality(Lying(i, Views)) \in Nat /\ Cardinality(Lying(i, PlacedViews)) \in Nat
      <3>1. stock[i] \in Nat
        BY ObjectConstants DEF ObjectInv, TypeOK, StockType
      <3>2. Cardinality(lost) \in Nat
        BY <2>1, FS_CardinalityType
      <3> QED
        BY <3>1, <3>2, LyingFinite, ViewsAreSound, PlacedIsBalanced
    <2>9. stock'[i] + Cardinality(Lying(i, Views')) = stock[i] + Cardinality(Lying(i, Views))
      BY <2>1, <2>5, <2>8
    <2> QED
      BY <2>6, <2>7, <2>9 DEF Fair
  <1> QED
    BY <1>1, BalancedIsFair DEF EveryItemIsSomewhere

LEMMA TakeBalances ==
    ASSUME ObjectInv, EveryItemIsSomewhere, Stays, NEW o \in Objects,
           object[o].kind \in {"chest", "box"}, TakeFrom(o)
    PROVE  EveryItemIsSomewhere'
  <1> DEFINE x == object[o]
             items == x.items
  <1>1. PICK chosen \in SUBSET {k \in DOMAIN items : items[k] # None} :
          /\ stock' = [i \in Items |-> stock[i] + Chosen(items, chosen, i)]
          /\ object' = [object EXCEPT ![o].items =
                          [k \in DOMAIN items |-> IF k \in chosen THEN None ELSE items[k]]]
    BY DEF TakeFrom
  <1> DEFINE left == [k \in DOMAIN items |-> IF k \in chosen THEN None ELSE items[k]]
  <1>2. x \in ObjectType /\ object \in [Objects -> ObjectType] /\ items \in Seq(Items \cup {None})
    BY VisitedObject DEF ObjectType
  <1>3. object' = [object EXCEPT ![o] = [x EXCEPT !.items = left]]
    BY <1>1
  <1>4. [x EXCEPT !.items = left].items = left /\ [x EXCEPT !.items = left].kind = x.kind
    BY <1>2 DEF ObjectType
  <1>5. object'[o].items = left /\ object'[o].kind = x.kind /\ \A q \in Objects : q # o => object'[q] = object[q]
    BY <1>2, <1>3, <1>4
  <1>6. ASSUME NEW i \in Items
        PROVE  \E lost : /\ lost \subseteq PlacesOf(i, x) /\ IsFiniteSet(lost)
                         /\ PlacesOf(i, object'[o]) = PlacesOf(i, x) \ lost
                         /\ stock'[i] = stock[i] + Cardinality(lost)
    <2> DEFINE lost == {k \in chosen : items[k] = i}
    <2>1. stock'[i] = stock[i] + Cardinality(lost)
      BY <1>1 DEF Chosen
    <2>2. DOMAIN items \subseteq Nat \ {0} /\ IsFiniteSet(DOMAIN items)
      <3>1. PICK n \in Nat : DOMAIN items = 1 .. n
        BY <1>2
      <3>2. n \in Int /\ 1 \in Int /\ 1 .. n \subseteq Nat \ {0}
        BY <3>1
      <3>3. IsFiniteSet(1 .. n)
        BY <3>2, FS_Interval
      <3> HIDE DEF items
      <3> QED
        BY <3>1, <3>2, <3>3
    <2>3. lost \subseteq DOMAIN items
      BY <1>1
    <2>4. IsFiniteSet(lost)
      BY <2>2, <2>3, FS_Subset
    <2>5. None # i /\ x.kind # "pickup" /\ object'[o].kind # "pickup"
      BY <1>5, ObjectConstants
    <2>6. PlacesOf(i, x) = {k \in DOMAIN items : items[k] = i}
      BY <2>2, <2>5 DEF PlacesOf
    <2>7. PlacesOf(i, object'[o]) = {k \in DOMAIN left : left[k] = i}
      BY <1>5, <2>2, <2>5 DEF PlacesOf
    <2>8. PlacesOf(i, object'[o]) = PlacesOf(i, x) \ lost
      BY <1>1, <2>5, <2>6, <2>7
    <2>9. lost \subseteq PlacesOf(i, x)
      BY <2>3, <2>6
    <2> HIDE DEF lost
    <2> QED
      BY <2>1, <2>4, <2>8, <2>9
  <1> HIDE DEF x
  <1> QED
    BY <1>5, <1>6, TakenFromOne DEF x

LEMMA PickUpBalances ==
    ASSUME ObjectInv, EveryItemIsSomewhere, Stays, NEW o \in Objects, PickUp(o)
    PROVE  EveryItemIsSomewhere'
  <1> DEFINE x == object[o]
  <1>1. /\ x.kind = "pickup" /\ stock' = [stock EXCEPT ![x.item] = stock[x.item] + 1]
        /\ object' = [object EXCEPT ![o] = [x EXCEPT !.kind = None, !.item = None]]
    BY DEF PickUp
  <1>2. x \in ObjectType /\ object \in [Objects -> ObjectType] /\ stock \in StockType
    BY VisitedObject DEF ObjectInv, TypeOK
  <1>3. [x EXCEPT !.kind = None, !.item = None].kind = None
    BY <1>2 DEF ObjectType
  <1>4. object'[o].kind = None /\ \A q \in Objects : q # o => object'[q] = object[q]
    BY <1>1, <1>2, <1>3
  <1>5. ASSUME NEW i \in Items
        PROVE  \E lost : /\ lost \subseteq PlacesOf(i, x) /\ IsFiniteSet(lost)
                         /\ PlacesOf(i, object'[o]) = PlacesOf(i, x) \ lost
                         /\ stock'[i] = stock[i] + Cardinality(lost)
    <2> DEFINE lost == IF x.item = i THEN {0} ELSE {}
    <2>1. PlacesOf(i, object'[o]) = {} /\ PlacesOf(i, x) = lost
      BY <1>1, <1>4, ObjectConstants DEF PlacesOf, Kinds
    <2>2. IsFiniteSet(lost) /\ Cardinality(lost) = IF x.item = i THEN 1 ELSE 0
      BY FS_EmptySet, FS_Singleton
    <2>3. stock'[i] = stock[i] + Cardinality(lost)
      BY <1>1, <1>2, <2>2, ObjectConstants DEF StockType
    <2> HIDE DEF lost
    <2> QED
      BY <2>1, <2>2, <2>3
  <1> HIDE DEF x
  <1> QED
    BY <1>4, <1>5, TakenFromOne DEF x

\* A stone or key that is used up has taken the link of its place.
LEMMA UseBalances ==
    ASSUME ObjectInv, EveryItemIsSomewhere, Stays,
           NEW o \in Objects, NEW i \in Stones \cup Keys, UseOnItsLike(i, o)
    PROVE  EveryItemIsSomewhere'
  <1>1. /\ object[o].kind # None /\ object[o].item = i /\ object[o].link # NoLink
        /\ stock' = [stock EXCEPT ![i] = 0]
        /\ object' = [TriggerLink(object, object[o].link) EXCEPT ![o].link = NoLink]
    BY DEF UseOnItsLike
  <1>2. SameHere
    BY SameOthers
  <1>3. floor \in Floors /\ stock \in StockType /\ FromPlacement(floor, o, object[o]) /\ i \in Items
    BY ObjectConstants DEF ObjectInv, TypeOK, WorldIsPlaced, OfFloor
  <1>4. Spent(i, Views')
    <2> DEFINE p == Placements[floor][o]
    <2>1. o \in Placed(floor)
      BY <1>1, <1>3 DEF FromPlacement, KindOf
    <2>2. p.item = i /\ p.link # NoLink
      BY <1>1, <1>3, <2>1 DEF FromPlacement
    <2>3. TriggerLink(object, object[o].link)[o] \in ObjectType
          /\ TriggerLink(object, object[o].link) \in [Objects -> ObjectType]
      BY SameFire, VisitedObject
    <2>4. object'[o].link = NoLink
      BY <1>1, <2>3 DEF ObjectType
    <2>5. Views'[floor][o].link = NoLink
      <3>1. Views'[floor][o] = ViewOf(object'[o])
        BY <1>3, ViewsAt, ViewsWhileStaying
      <3> QED
        BY <2>4, <3>1 DEF ViewOf
    <2> QED
      BY <1>3, <2>1, <2>2, <2>5 DEF Spent
  <1>5. ASSUME NEW j \in Items
        PROVE  Fair(j, stock'[j], Views')
    <2>1. Lying(j, Views') = Lying(j, Views)
      BY <1>2, StaySame, LyingSame DEF KeptView
    <2>2. Fair(j, stock[j], Views)
      BY BalancedIsFair DEF EveryItemIsSomewhere
    <2>3. CASE j = i
      <3>1. stock'[j] = 0 /\ stock[j] \in Nat
        BY <1>1, <1>3, <2>3, ObjectConstants DEF StockType
      <3>2. Cardinality(Lying(j, Views)) \in Nat /\ Cardinality(Lying(j, PlacedViews)) \in Nat
        BY LyingFinite, ViewsAreSound, PlacedIsBalanced
      <3>3. stock[j] + Cardinality(Lying(j, Views)) <= Cardinality(Lying(j, PlacedViews))
        BY <2>2 DEF Fair
      <3>4. stock'[j] + Cardinality(Lying(j, Views')) <= Cardinality(Lying(j, PlacedViews))
        BY <2>1, <3>1, <3>2, <3>3
      <3>5. Spent(j, Views')
        BY <1>4, <2>3
      <3> QED
        BY <3>4, <3>5 DEF Fair
    <2>4. CASE j # i
      <3>1. stock'[j] = stock[j]
        BY <1>1, <1>3, <2>4 DEF StockType
      <3>2. Spent(j, Views) => Spent(j, Views')
        BY SpentStays, StayForward, ViewsAreSound
      <3> QED
        BY <2>1, <2>2, <3>1, <3>2 DEF Fair
    <2> QED
      BY <2>3, <2>4
  <1> QED
    BY <1>5, BalancedIsFair DEF EveryItemIsSomewhere

\* What happens while the player stays on a floor.
LEMMA StayBalances ==
    ASSUME ObjectInv, EveryItemIsSomewhere, [Next]_vars, Stays,
           ~(\E f \in Floors : ChangeFloor(f)), ~LoadGame, ~Restarts
    PROVE  EveryItemIsSomewhere'
  <1>1. ASSUME NEW o \in Objects, Interact(o)
        PROVE  EveryItemIsSomewhere'
    <2>1. CASE OpenDoor(o) \/ PullSwitch(o)
      <3>1. SameHere /\ stock' = stock
        BY <2>1, SameOthers DEF OpenDoor, PullSwitch
      <3> QED
        BY <3>1, NothingTaken
    <2>2. CASE OpenChest(o) \/ OpenBox(o)
      BY <2>2, TakeBalances DEF OpenChest, OpenBox
    <2>3. CASE PickUp(o)
      BY <2>3, PickUpBalances
    <2> QED
      BY <1>1, <2>1, <2>2, <2>3 DEF Interact
  <1>2. ASSUME NEW o \in Objects, NEW k \in Keys, UseKey(k, o)
        PROVE  EveryItemIsSomewhere'
    <2>1. SameHere /\ stock' = stock
      BY <1>2, SameOthers DEF UseKey
    <2> QED
      BY <2>1, NothingTaken
  <1>3. ASSUME NEW o \in Objects, NEW i \in Stones \cup Keys, UseOnItsLike(i, o)
        PROVE  EveryItemIsSomewhere'
    BY <1>3, UseBalances
  <1>4. ASSUME TransformWeapon \/ BossDies \/ KeeperUnlocks \/ BeginUpdate \/ UNCHANGED vars
        PROVE  EveryItemIsSomewhere'
    <2>1. 1 \in Objects
      BY ObjectConstants DEF Objects
    <2>2. SameHere /\ stock' = stock
      BY <1>4, <2>1, SameOthers DEF TransformWeapon, BossDies, KeeperUnlocks, BeginUpdate, vars
    <2> QED
      BY <2>2, NothingTaken
  <1>5. ASSUME NEW o \in Objects, EnterDoorway(o) \/ LeaveDoorway(o) \/ UseSavePoint(o)
        PROVE  EveryItemIsSomewhere'
    <2>1. SameHere /\ stock' = stock
      BY <1>5, SameOthers DEF EnterDoorway, LeaveDoorway, UseSavePoint
    <2> QED
      BY <2>1, NothingTaken
  <1>6. ASSUME NEW e \in EffectSlots, OtherEffectEnds(e)
        PROVE  EveryItemIsSomewhere'
    <2>1. 1 \in Objects
      BY ObjectConstants DEF Objects
    <2>2. SameHere /\ stock' = stock
      BY <1>6, <2>1, SameOthers DEF OtherEffectEnds
    <2> QED
      BY <2>2, NothingTaken
  <1>7. ASSUME NEW o \in Objects, Update(o)
        PROVE  EveryItemIsSomewhere'
    <2>1. SameHere /\ stock' = stock
      BY <1>7, SameUpdate DEF Update
    <2> QED
      BY <2>1, NothingTaken
  <1> QED
    BY <1>1, <1>2, <1>3, <1>4, <1>5, <1>6, <1>7 DEF Next, Restarts

\* The game on the card is as balanced as the one that was saved.
LEMMA SavedBalances ==
    ASSUME ItemsInv, [Next]_vars, saved' # None
    PROVE  Balanced(saved'.stock, RecordedViews(saved'.record))
  <1>1. CASE saved' = saved
    BY <1>1 DEF ItemsInv
  <1>2. ASSUME NEW o \in Objects, UseSavePoint(o), saved' # saved
        PROVE  Balanced(saved'.stock, RecordedViews(saved'.record))
    <2>1. saved' = [floor |-> floor, record |-> Persisted, script |-> script, stock |-> stock]
      BY <1>2 DEF UseSavePoint
    <2>2. ObjectInv /\ Balanced(stock, Views)
      BY DEF ItemsInv, EveryItemIsSomewhere
    <2>3. ASSUME NEW f \in Floors, NEW q \in Objects
          PROVE  KeptView(Views[f][q], RecordedViews(Persisted)[f][q])
      <3>1. RecordedViews(Persisted)[f][q] = ViewOf(Restored(f, Persisted[f])[q])
        BY DEF RecordedViews, Recorded, Restored
      <3>2. CASE f = floor
        <4>1. Views[f][q] = ViewOf(object[q])
          BY <3>2, ViewsAt, ViewHere
        <4> QED
          BY <2>2, <3>1, <3>2, <4>1, PersistedKeeps DEF Kept, KeptView
      <3>3. CASE f # floor
        <4>1. Views[f][q] = ViewOf(Restored(f, record[f])[q]) /\ Persisted[f] = record[f]
          BY <2>2, <3>3, ViewsAt, ViewThere, PersistedKeeps
        <4> QED
          BY <3>1, <4>1, KeptSelf
      <3> QED
        BY <3>2, <3>3
    <2>4. Balanced(stock, RecordedViews(Persisted))
      BY <2>2, <2>3, ViewsAreSound, BalancedSame
    <2> QED
      BY <2>1, <2>4
  <1>3. saved' = saved \/ \E o \in Objects : UseSavePoint(o)
    BY DEF Next, vars, Interact, UseKey, UseOnItsLike, TransformWeapon, BossDies, KeeperUnlocks,
           EnterDoorway, LeaveDoorway, OtherEffectEnds, ChangeFloor, LoadGame, NewGameAfterDeath,
           NewSession, NewGame, BeginUpdate, Update
  <1> QED
    BY <1>1, <1>2, <1>3

\* No item is doubled or lost: what lies on the floors and what the player owns are together
\* what was placed, on every floor, in every save and after every load; only a stone or a key
\* is gone, and the link it took shows it.
THEOREM ItemsAreSomewhere == Spec => []EveryItemIsSomewhere
  <1>1. Init => ItemsInv
    <2> SUFFICES ASSUME Init PROVE ItemsInv
      OBVIOUS
    <2>1. ObjectInv /\ stock = Nothing /\ saved = None /\ floor = FirstFloor
          /\ object = PoolLoad(FirstFloor, Cleared) /\ record = [f \in Floors |-> None]
      BY ObjectInit DEF Init
    <2>2. \A f \in Floors, o \in Objects : Views[f][o] = PlacedViews[f][o]
      <3> SUFFICES ASSUME NEW f \in Floors, NEW o \in Objects PROVE View(f)[o] = PlacedViews[f][o]
        BY ViewsAt
      <3>1. PlacedViews[f][o] = ViewOf(Restored(f, None)[o])
        BY DEF PlacedViews, RecordedViews, Recorded, Restored
      <3>2. Restored(f, None) = PoolLoad(f, Cleared) /\ record[f] = None
        BY <2>1 DEF Restored, Unstored
      <3>3. CASE f = floor
        BY <2>1, <3>1, <3>2, <3>3, ViewHere
      <3>4. CASE f # floor
        BY <3>1, <3>2, <3>4, ViewThere
      <3> QED
        BY <3>3, <3>4
    <2>3. \A f \in Floors, o \in Objects : KeptView(PlacedViews[f][o], Views[f][o])
      <3> SUFFICES ASSUME NEW f \in Floors, NEW o \in Objects
                   PROVE  KeptView(PlacedViews[f][o], PlacedViews[f][o])
        BY <2>2
      <3>1. PlacedViews[f][o] = ViewOf(Restored(f, None)[o])
        BY DEF PlacedViews, RecordedViews, Recorded, Restored
      <3> QED
        BY <3>1, KeptSelf
    <2>4. EveryItemIsSomewhere
      BY <2>1, <2>3, PlacedIsBalanced, BalancedSame DEF EveryItemIsSomewhere
    <2> QED
      BY <2>1, <2>4 DEF ItemsInv
  <1>2. ItemsInv /\ [Next]_vars => ItemsInv'
    <2> SUFFICES ASSUME ItemsInv, [Next]_vars PROVE ItemsInv'
      OBVIOUS
    <2>1. /\ ObjectInv /\ EveryItemIsSomewhere /\ ObjectInv'
          /\ Stays \/ (\E f \in Floors : ChangeFloor(f)) \/ LoadGame \/ Restarts
      BY ObjectStep DEF ItemsInv
    <2>2. ASSUME NEW g \in Floors, ChangeFloor(g)
          PROVE  EveryItemIsSomewhere'
      <3>1. stock' = stock /\ Balanced(stock, Views) /\ OfPlacements(Views)
        BY <2>1, <2>2, ViewsAreSound DEF ChangeFloor, EveryItemIsSomewhere
      <3>2. \A f \in Floors, o \in Objects : KeptView(Views[f][o], Views'[f][o])
        BY <2>1, <2>2, ViewsAfterChange, ViewsAt
      <3> QED
        BY <3>1, <3>2, BalancedSame DEF EveryItemIsSomewhere
    <2>3. ASSUME LoadGame
          PROVE  EveryItemIsSomewhere'
      <3>1. /\ stock' = saved.stock /\ saved # None
            /\ Balanced(saved.stock, RecordedViews(saved.record))
        BY <2>3 DEF LoadGame, ItemsInv
      <3>2. OfPlacements(RecordedViews(saved.record))
        BY <2>1, <3>1, RecordsAreSound DEF ObjectInv, TypeOK, WorldIsPlaced
      <3>3. \A f \in Floors, o \in Objects : KeptView(RecordedViews(saved.record)[f][o], Views'[f][o])
        BY <2>1, <2>3, ViewsAfterLoad, ViewsAt DEF RecordedViews
      <3> QED
        BY <3>1, <3>2, <3>3, BalancedSame DEF EveryItemIsSomewhere
    <2>4. ASSUME Restarts
          PROVE  EveryItemIsSomewhere'
      <3>1. stock' = Nothing /\ record' = [f \in Floors |-> None]
        BY <2>4 DEF Restarts, NewGameAfterDeath, NewSession, NewGame
      <3>2. \A f \in Floors, o \in Objects : KeptView(PlacedViews[f][o], Views'[f][o])
        <4>1. \A f \in Floors, o \in Objects :
                KeptView(Recorded(f, [g \in Floors |-> None][f])[o], View(f)'[o])
          BY <2>1, <2>4, <3>1, NewGameKeeps, ViewsOfRecords DEF Restarts
        <4> QED
          BY <4>1, ViewsAt DEF PlacedViews, RecordedViews
      <3> QED
        BY <3>1, <3>2, PlacedIsBalanced, BalancedSame DEF EveryItemIsSomewhere
    <2>5. EveryItemIsSomewhere'
      BY <2>1, <2>2, <2>3, <2>4, StayBalances
    <2>6. saved' # None => Balanced(saved'.stock, RecordedViews(saved'.record))
      BY SavedBalances
    <2> QED
      BY <2>1, <2>5, <2>6 DEF ItemsInv
  <1>3. ItemsInv => EveryItemIsSomewhere
    BY DEF ItemsInv
  <1> QED
    BY <1>1, <1>2, <1>3, PTL DEF Spec

=============================================================================
