--------------------------- MODULE DropPoolsProofs ---------------------------
(***************************************************************************)
(* Conservation of dropped objects for pools of any capacity, sequences of *)
(* any width and any number of floors.  DropInv is shown inductive over    *)
(* the layout of the ground: a spawn puts a drop into one place and takes  *)
(* away what lay there, picking up empties one, and changing floors,       *)
(* saving and loading leave the layout as it is.                           *)
(***************************************************************************)
EXTENDS DropPools, SequenceTheorems, WellFoundedInduction, TLAPS

\* The constants in the form the steps below use them.
LEMMA Constants ==
    /\ Capacity \in Nat /\ Capacity > 0 /\ Modulus \in Nat /\ Modulus > 0
    /\ Byte \in Nat /\ Byte > 0 /\ Slots \subseteq Nat /\ 0 \in Slots
    /\ FirstFloor \in Floors /\ SwordCell \in Cells /\ Sword \in Ids
    /\ None \notin Ids /\ None \notin Nat /\ None \notin Floors /\ None \notin Slots
    /\ GoldCoin \in Ids /\ Items \subseteq Ids
    /\ Amounts \cup {0} \subseteq 0 .. Byte * Byte - 1
    /\ None \notin Record /\ None \notin Snapshot /\ None \notin Contents
  <1>1. 0 \in 0 .. Byte * Byte - 1
    BY DropAssumption DEF DropAssumption
  <1> QED
    BY <1>1, DropAssumption, RecordAssumption DEF DropAssumption, RecordAssumption, Slots, Ids

\* None is no drop and no identifier.
LEMMA NoneIsNew == None \notin Nat /\ None \notin Ids
  BY DropAssumption DEF DropAssumption, Ids

LEMMA IndexIsDrop == \A n \in Nat : \A d \in 1 .. n : d \in Nat /\ d # None
  BY NoneIsNew

\* An amount is the sum of its two bytes.
LEMMA BytesOfAmount ==
  ASSUME NEW a \in 0 .. Byte * Byte - 1
  PROVE  /\ a % Byte \in 0 .. Byte - 1
         /\ a \div Byte \in 0 .. Byte - 1
         /\ (a % Byte) + Byte * (a \div Byte) = a
  <1>0. Byte \in Nat \ {0}
    BY Constants
  <1>1. a % Byte \in 0 .. Byte - 1
    BY <1>0
  <1>2. a \div Byte \in Int /\ (a % Byte) + Byte * (a \div Byte) = a
    BY <1>0
  <1>3. a \div Byte >= 0
    BY <1>0
  <1>4. a \div Byte < Byte
    BY <1>0, <1>1, <1>2, <1>3
  <1> QED
    BY <1>0, <1>1, <1>2, <1>3, <1>4

\* Two bytes make an amount.
LEMMA AmountOfBytes ==
  ASSUME NEW l \in 0 .. Byte - 1, NEW h \in 0 .. Byte - 1
  PROVE  l + Byte * h \in 0 .. Byte * Byte - 1
  BY Constants

\* A set of numbers that is not empty has a first one.
LEMMA FirstIsIn ==
  ASSUME NEW S \in SUBSET Nat, S # {}
  PROVE  First(S) \in S /\ \A t \in S : First(S) <= t
  <1> DEFINE Less == OpToRel(<, Nat)
  <1>1. IsWellFoundedOn(Less, Nat)
    BY NatLessThanWellFounded
  <1>2. \A x, y \in Nat : ~(<<y, x>> \in Less) => x <= y
    BY DEF OpToRel
  <1> HIDE DEF Less
  <1>3. PICK s \in S : \A t \in S : ~(<<t, s>> \in Less)
    BY <1>1, WFMin
  <1>4. \A t \in S : s <= t
    BY <1>2, <1>3
  <1> QED
    BY <1>4 DEF First

\* The pool yields one of its slots or none at all; with no slot free it is the oldest.
LEMMA AcquiredIsSlot ==
  ASSUME TypeOK, NEW p \in Pools
  PROVE  /\ Acquired(p) \in Slots \cup {None}
         /\ Acquired(p) # None =>
               \/ Acquired(p) \in Free(p)
               \/ Free(p) = {} /\ \A t \in Slots : Age(p, t) <= Age(p, Acquired(p))
  <1>1. CASE Free(p) # {}
    <2>1. Free(p) \in SUBSET Nat /\ Free(p) \subseteq Slots
      BY Constants DEF Free
    <2> QED
      BY <1>1, <2>1, FirstIsIn DEF Acquired
  <1>2. CASE Free(p) = {} /\ Aged(p) # {}
    <2> DEFINE Left == {Modulus - Age(p, s) : s \in Aged(p)}
               Best == {s \in Aged(p) : \A t \in Slots : Age(p, t) <= Age(p, s)}
    <2>1. \A s \in Slots : Age(p, s) \in 0 .. Modulus - 1
      BY Constants DEF Age, TypeOK, Live
    <2>a. \A s \in Aged(p) : Modulus - Age(p, s) \in Nat
      BY <2>1, Constants DEF Aged
    <2>2. Left \in SUBSET Nat /\ Left # {}
      BY <2>a, <1>2
    <2>3. PICK s \in Aged(p) : First(Left) = Modulus - Age(p, s)
      BY <2>2, FirstIsIn
    <2>4. \A t \in Aged(p) : Modulus - Age(p, s) <= Modulus - Age(p, t)
      <3>1. \A m \in Left : First(Left) <= m
        BY <2>2, FirstIsIn
      <3> QED
        BY <2>3, <3>1
    <2>5. \A t \in Slots : Age(p, t) <= Age(p, s)
      BY <2>1, <2>4, Constants DEF Aged
    <2>6. Best \in SUBSET Nat /\ Best # {} /\ Best \subseteq Slots
      BY <2>3, <2>5, Constants DEF Aged
    <2> QED
      BY <1>2, <2>6, FirstIsIn DEF Acquired, Oldest
  <1>3. CASE Free(p) = {} /\ Aged(p) = {}
    BY <1>3 DEF Acquired
  <1> QED
    BY <1>1, <1>2, <1>3

-----------------------------------------------------------------------------
\* Layouts.

\* The records tell of every place what lies there, and so does the ground.
LEMMA RecordedType ==
  ASSUME NEW records \in [Floors -> Record \cup {None}]
  PROVE  Recorded(records) \in [Places -> Lying]
  <1> SUFFICES ASSUME NEW x \in Places PROVE Recorded(records)[x] \in Lying
    BY DEF Recorded
  <1>0. x[1] \in Floors /\ x[2] \in Pools /\ x[3] \in Slots
    BY DEF Places
  <1>1. Nowhere \in Lying
    BY Constants DEF Nowhere, Lying
  <1>2. ASSUME records[x[1]] # None PROVE InRecord(records[x[1]][x[2]][x[3]]) \in Lying
    <2>1. records[x[1]][x[2]][x[3]] \in Stored
      BY <1>0, <1>2 DEF Record
    <2> QED
      BY <2>1, Constants DEF InRecord, Stored, Lying, Ids
  <1> QED
    BY <1>1, <1>2 DEF Recorded

Layout(here, slots, records) ==
    [x \in Places |-> IF x[1] = here THEN InSlot(slots[x[2]][x[3]]) ELSE Recorded(records)[x]]

LEMMA LayoutType ==
  ASSUME NEW here, NEW slots \in [Pools -> [Slots -> Live]],
         NEW records \in [Floors -> Record \cup {None}]
  PROVE  Layout(here, slots, records) \in [Places -> Lying]
  <1> SUFFICES ASSUME NEW x \in Places
               PROVE  InSlot(slots[x[2]][x[3]]) \in Lying /\ Recorded(records)[x] \in Lying
    BY DEF Layout
  <1>0. x[1] \in Floors /\ x[2] \in Pools /\ x[3] \in Slots
    BY DEF Places
  <1>1. InSlot(slots[x[2]][x[3]]) \in Lying
    <2>1. slots[x[2]][x[3]] \in Live
      BY <1>0
    <2> QED
      BY <2>1, Constants DEF InSlot, Live, Lying, Ids
  <1>2. Recorded(records)[x] \in Lying
    BY RecordedType
  <1> QED
    BY <1>1, <1>2

LEMMA GroundType == ASSUME TypeOK PROVE Ground \in [Places -> Lying]
  <1>1. Ground = Layout(floor, pool, record)
    BY DEF Ground, Layout
  <1> QED
    BY <1>1, LayoutType DEF TypeOK

LEMMA NextGroundType == ASSUME TypeOK' PROVE Ground' \in [Places -> Lying]
  <1>1. Ground' = Layout(floor', pool', record')
    BY DEF Ground, Layout
  <1> QED
    BY <1>1, LayoutType DEF TypeOK

\* Layouts that differ only in what an empty place remembers.
Alike(g, h) == \A x \in Places : /\ g[x].id = h[x].id /\ g[x].drop = h[x].drop
                                 /\ g[x].drop # None => g[x] = h[x]

\* Such layouts are sound together.
LEMMA AlikeSound ==
  ASSUME NEW ds \in Seq(Drop), NEW g \in [Places -> Lying], NEW h \in [Places -> Lying],
         Alike(g, h), Sound(ds, g)
  PROVE  Sound(ds, h)
  <1>1. Once(ds, h)
    BY DEF Sound, Alike, Once
  <1>2. Unchanged(ds, h)
    BY DEF Sound, Alike, Unchanged
  <1>3. Vacant(h)
    BY DEF Sound, Alike, Vacant
  <1> QED
    BY <1>1, <1>2, <1>3 DEF Sound

\* Putting a new drop into one place displaces what lay there.
Puts(ds, g, after, h, x, made) ==
    /\ x \in Places /\ made \in Contents /\ after \in Seq(Drop)
    /\ \A y \in Places \ {x} : h[y] = g[y]
    /\ h[x] = [id |-> made.id, amount |-> made.amount, cell |-> made.cell, drop |-> Len(ds) + 1]
    /\ Len(after) = Len(ds) + 1
    /\ after[Len(ds) + 1].made = made /\ after[Len(ds) + 1].fate = "ground"
    /\ after[Len(ds) + 1].floor = x[1] /\ after[Len(ds) + 1].pool = x[2]
    /\ \A d \in 1 .. Len(ds) :
          after[d] = IF g[x].drop = d THEN [ds[d] EXCEPT !.fate = "evicted"] ELSE ds[d]

LEMMA PutSound ==
  ASSUME NEW ds \in Seq(Drop), NEW g \in [Places -> Lying], NEW h \in [Places -> Lying],
         NEW after, NEW x, NEW made, Sound(ds, g), Puts(ds, g, after, h, x, made)
  PROVE  Sound(after, h)
  <1> USE DEF Puts
  <1>0. Len(ds) \in Nat /\ \A d \in 1 .. Len(ds) : ds[d] \in Drop
    BY ElementOfSeq, LenProperties
  <1>1. \A y \in Places : g[y].drop # Len(ds) + 1 /\ (g[y].drop # None => g[y].drop \in 1 .. Len(ds))
    BY <1>0, Constants DEF Sound, Unchanged
  <1>2. \A d \in 1 .. Len(ds), y \in Places : h[y].drop = d <=> (g[y].drop = d /\ y # x)
    BY <1>0
  <1>3. Once(after, h)
    <2> SUFFICES ASSUME NEW d \in 1 .. Len(after)
                 PROVE  IF after[d].fate = "ground"
                        THEN \E z \in Places : /\ z[1] = after[d].floor /\ z[2] = after[d].pool
                                               /\ \A y \in Places : h[y].drop = d <=> y = z
                        ELSE \A y \in Places : h[y].drop # d
      BY DEF Once
    <2>1. CASE d = Len(ds) + 1
      BY <2>1, <1>1
    <2>2. CASE d \in 1 .. Len(ds) /\ g[x].drop = d
      <3>1. after[d].fate = "evicted"
        BY <2>2, <1>0 DEF Drop
      <3>2. PICK z \in Places : \A y \in Places : g[y].drop = d <=> y = z
        <4>1. ds[d].fate = "ground"
          BY <2>2 DEF Sound, Once
        <4> QED
          BY <2>2, <4>1 DEF Sound, Once
      <3> QED
        BY <1>2, <2>2, <3>1, <3>2
    <2>3. CASE d \in 1 .. Len(ds) /\ g[x].drop # d
      <3>1. after[d] = ds[d]
        BY <2>3
      <3>2. \A y \in Places : h[y].drop = d <=> g[y].drop = d
        BY <2>3, <1>2
      <3> QED
        BY <2>3, <3>1, <3>2 DEF Sound, Once
    <2> QED
      BY <1>0, <2>1, <2>2, <2>3
  <1>4. Unchanged(after, h)
    <2>1. \A d \in 1 .. Len(ds) : /\ after[d].made = ds[d].made /\ after[d].paid = ds[d].paid
                                  /\ after[d].fate = "taken" => ds[d].fate = "taken"
      BY <1>0 DEF Drop
    <2>2. ASSUME NEW y \in Places, h[y].drop # None
          PROVE  /\ h[y].drop \in 1 .. Len(after)
                 /\ h[y].id = after[h[y].drop].made.id /\ h[y].cell = after[h[y].drop].made.cell
                 /\ h[y].amount = after[h[y].drop].made.amount
      <3>1. CASE y = x
        BY <3>1, <1>0
      <3>2. CASE y # x
        <4>1. h[y] = g[y] /\ g[y].drop \in 1 .. Len(ds)
          BY <3>2, <2>2, <1>1
        <4>2. g[y].id = ds[g[y].drop].made.id /\ g[y].cell = ds[g[y].drop].made.cell
              /\ g[y].amount = ds[g[y].drop].made.amount
          BY <2>2, <4>1 DEF Sound, Unchanged
        <4> QED
          BY <4>1, <4>2, <2>1, <1>0
      <3> QED
        BY <3>1, <3>2
    <2>3. ASSUME NEW d \in 1 .. Len(after), after[d].fate = "taken"
          PROVE  after[d].paid = after[d].made
      <3>1. d \in 1 .. Len(ds)
        BY <2>3, <1>0
      <3>2. ds[d].fate = "taken" => ds[d].paid = ds[d].made
        BY <3>1 DEF Sound, Unchanged
      <3> QED
        BY <3>1, <3>2, <2>3, <2>1
    <2> QED
      BY <2>2, <2>3 DEF Unchanged
  <1>5. Vacant(h)
    <2>1. made.id # None
      BY Constants DEF Contents
    <2> QED
      BY <2>1, <1>0, Constants DEF Vacant, Sound
  <1> QED
    BY <1>3, <1>4, <1>5 DEF Sound

\* A drop that found no slot changes nothing on the ground.
LEMMA StraySound ==
  ASSUME NEW ds \in Seq(Drop), NEW g \in [Places -> Lying], Sound(ds, g),
         NEW after \in Seq(Drop), Len(after) = Len(ds) + 1, after[Len(ds) + 1].fate = "stray",
         \A d \in 1 .. Len(ds) : after[d] = ds[d]
  PROVE  Sound(after, g)
  <1>0. Len(ds) \in Nat
    BY LenProperties
  <1>1. \A y \in Places : g[y].drop # Len(ds) + 1 /\ (g[y].drop # None => g[y].drop \in 1 .. Len(ds))
    BY <1>0, Constants DEF Sound, Unchanged
  <1>2. Once(after, g)
    <2> SUFFICES ASSUME NEW d \in 1 .. Len(after)
                 PROVE  IF after[d].fate = "ground"
                        THEN \E z \in Places : /\ z[1] = after[d].floor /\ z[2] = after[d].pool
                                               /\ \A y \in Places : g[y].drop = d <=> y = z
                        ELSE \A y \in Places : g[y].drop # d
      BY DEF Once
    <2>1. CASE d = Len(ds) + 1
      BY <2>1, <1>1
    <2>2. CASE d \in 1 .. Len(ds)
      BY <2>2 DEF Sound, Once
    <2> QED
      BY <1>0, <2>1, <2>2
  <1>3. Unchanged(after, g)
    <2>1. ASSUME NEW d \in 1 .. Len(after), after[d].fate = "taken"
          PROVE  after[d].paid = after[d].made
      BY <2>1, <1>0 DEF Sound, Unchanged
    <2>2. ASSUME NEW y \in Places, g[y].drop # None
          PROVE  /\ g[y].drop \in 1 .. Len(after) /\ after[g[y].drop] = ds[g[y].drop]
      BY <2>2, <1>0, <1>1
    <2> QED
      BY <2>1, <2>2 DEF Sound, Unchanged
  <1> QED
    BY <1>2, <1>3 DEF Sound

\* Picking up empties the one place of a drop.
Takes(ds, g, after, h, x) ==
    /\ x \in Places /\ g[x].drop # None /\ after \in Seq(Drop)
    /\ \A y \in Places \ {x} : h[y] = g[y]
    /\ h[x].id = None /\ h[x].drop = None
    /\ Len(after) = Len(ds)
    /\ \A d \in 1 .. Len(ds) :
          after[d] = IF g[x].drop = d
                     THEN [ds[d] EXCEPT !.fate = "taken",
                                        !.paid = [id |-> g[x].id, cell |-> g[x].cell, amount |-> g[x].amount]]
                     ELSE ds[d]

LEMMA TakeSound ==
  ASSUME NEW ds \in Seq(Drop), NEW g \in [Places -> Lying], NEW h \in [Places -> Lying],
         NEW after, NEW x, Sound(ds, g), Takes(ds, g, after, h, x)
  PROVE  Sound(after, h)
  <1> USE DEF Takes
  <1>0. Len(ds) \in Nat /\ \A d \in 1 .. Len(ds) : ds[d] \in Drop
    BY ElementOfSeq, LenProperties
  <1>1. \A d \in 1 .. Len(ds), y \in Places : h[y].drop = d <=> (g[y].drop = d /\ y # x)
    <2> SUFFICES ASSUME NEW d \in 1 .. Len(ds), NEW y \in Places
                 PROVE  h[y].drop = d <=> (g[y].drop = d /\ y # x)
      OBVIOUS
    <2>1. d # None
      BY <1>0, IndexIsDrop
    <2>2. CASE y = x
      BY <2>1, <2>2
    <2>3. CASE y # x
      BY <2>3
    <2> QED
      BY <2>2, <2>3
  <1>2. Once(after, h)
    <2> SUFFICES ASSUME NEW d \in 1 .. Len(ds)
                 PROVE  IF after[d].fate = "ground"
                        THEN \E z \in Places : /\ z[1] = after[d].floor /\ z[2] = after[d].pool
                                               /\ \A y \in Places : h[y].drop = d <=> y = z
                        ELSE \A y \in Places : h[y].drop # d
      BY DEF Once
    <2>1. CASE g[x].drop = d
      <3>1. after[d].fate = "taken"
        BY <2>1, <1>0 DEF Drop
      <3>2. ds[d].fate = "ground"
        BY <2>1 DEF Sound, Once
      <3>3. PICK z \in Places : \A y \in Places : g[y].drop = d <=> y = z
        BY <3>2 DEF Sound, Once
      <3> QED
        BY <1>1, <2>1, <3>1, <3>3
    <2>2. CASE g[x].drop # d
      <3>1. after[d] = ds[d]
        BY <2>2
      <3>2. \A y \in Places : h[y].drop = d <=> g[y].drop = d
        BY <2>2, <1>1
      <3>3. IF ds[d].fate = "ground"
            THEN \E z \in Places : /\ z[1] = ds[d].floor /\ z[2] = ds[d].pool
                                   /\ \A y \in Places : g[y].drop = d <=> y = z
            ELSE \A y \in Places : g[y].drop # d
        BY DEF Sound, Once
      <3> QED
        BY <3>1, <3>2, <3>3
    <2> QED
      BY <2>1, <2>2
  <1>3. Unchanged(after, h)
    <2>1. \A d \in 1 .. Len(ds) : after[d].made = ds[d].made
      BY <1>0 DEF Drop
    <2>2. ASSUME NEW y \in Places, h[y].drop # None
          PROVE  /\ h[y].drop \in 1 .. Len(after)
                 /\ h[y].id = after[h[y].drop].made.id /\ h[y].cell = after[h[y].drop].made.cell
                 /\ h[y].amount = after[h[y].drop].made.amount
      <3>1. h[y] = g[y]
        BY <2>2
      <3>2. /\ g[y].drop \in 1 .. Len(ds)
            /\ g[y].id = ds[g[y].drop].made.id /\ g[y].cell = ds[g[y].drop].made.cell
            /\ g[y].amount = ds[g[y].drop].made.amount
        BY <2>2, <3>1 DEF Sound, Unchanged
      <3> QED
        BY <2>1, <3>1, <3>2
    <2>3. ASSUME NEW d \in 1 .. Len(after), after[d].fate = "taken"
          PROVE  after[d].paid = after[d].made
      <3>1. CASE g[x].drop = d
        <4>1. g[x].id = ds[d].made.id /\ g[x].cell = ds[d].made.cell /\ g[x].amount = ds[d].made.amount
          BY <3>1 DEF Sound, Unchanged
        <4>2. ds[d].made \in Contents /\ after[d].made = ds[d].made
          BY <2>1, <1>0 DEF Drop
        <4>3. after[d].paid = [id |-> g[x].id, cell |-> g[x].cell, amount |-> g[x].amount]
          BY <3>1, <1>0 DEF Drop
        <4> QED
          BY <4>1, <4>2, <4>3 DEF Contents
      <3>2. CASE g[x].drop # d
        BY <3>2, <2>3 DEF Sound, Unchanged
      <3> QED
        BY <3>1, <3>2
    <2> QED
      BY <2>2, <2>3 DEF Unchanged
  <1>4. Vacant(h)
    BY DEF Sound, Vacant
  <1> QED
    BY <1>2, <1>3, <1>4 DEF Sound

-----------------------------------------------------------------------------
\* The types of what the actions build.

LEMMA SlotTypes ==
  ASSUME NEW live \in Live
  PROVE  /\ Emptied(live) \in Live /\ Emptied(live).id = None /\ Emptied(live).drop = None
         /\ Stow(live) \in Stored
         /\ InRecord(Stow(live)) = InSlot(live)
         /\ \A stored \in Stored : /\ Unstow(live, stored) \in Live
                                   /\ InSlot(Unstow(live, stored)) = InRecord(stored)
  <1>0. live.amount \in 0 .. Byte * Byte - 1
    BY DEF Live
  <1>1. Emptied(live) \in Live /\ Emptied(live).id = None /\ Emptied(live).drop = None
    <2>1. 0 \in 0 .. Byte * Byte - 1
      BY Constants
    <2> QED
      BY <2>1 DEF Live, Emptied
  <1>2. Stow(live) \in Stored
    BY <1>0, BytesOfAmount DEF Live, Stow, Stored
  <1>3. InRecord(Stow(live)) = InSlot(live)
    BY <1>0, BytesOfAmount DEF Stow, InRecord, InSlot
  <1>4. ASSUME NEW stored \in Stored
        PROVE  /\ Unstow(live, stored) \in Live
               /\ InSlot(Unstow(live, stored)) = InRecord(stored)
    <2>1. stored.low + Byte * stored.high \in 0 .. Byte * Byte - 1
      BY AmountOfBytes DEF Stored
    <2>2. 0 \in 0 .. Modulus - 1
      BY Constants
    <2> QED
      BY <2>1, <2>2 DEF Live, Stored, Unstow, InSlot, InRecord
  <1> QED
    BY <1>1, <1>2, <1>3, <1>4

\* A spawner appends one drop to the history and marks the one it displaced.
NewDrop(p, s, made) == [pool |-> p, made |-> made, floor |-> floor, paid |-> None,
                        fate |-> IF s = None THEN "stray" ELSE "ground"]

LEMMA MintedFacts ==
  ASSUME TypeOK, NEW p \in Pools, NEW s \in Slots \cup {None}, NEW made \in Contents
  PROVE  /\ Minted(p, s, made) \in Seq(Drop)
         /\ Len(Minted(p, s, made)) = Len(drops) + 1
         /\ Minted(p, s, made)[Len(drops) + 1] = NewDrop(p, s, made)
         /\ \A d \in 1 .. Len(drops) :
               Minted(p, s, made)[d] =
                  IF s # None /\ pool[p][s].drop = d
                  THEN [drops[d] EXCEPT !.fate = "evicted"] ELSE drops[d]
  <1> DEFINE past == Displaced(p, s)
  <1>0. Len(drops) \in Nat /\ \A d \in 1 .. Len(drops) : drops[d] \in Drop
    BY ElementOfSeq, LenProperties DEF TypeOK
  <1>1. past \in [1 .. Len(drops) -> Drop]
    <2>1. \A d \in Drop : [d EXCEPT !.fate = "evicted"] \in Drop
      BY DEF Drop
    <2> QED
      BY <1>0, <2>1 DEF Displaced
  <1>2. past \in Seq(Drop) /\ Len(past) = Len(drops)
    BY <1>0, <1>1, SeqDef
  <1>3. NewDrop(p, s, made) \in Drop
    BY DEF NewDrop, Drop, TypeOK
  <1>4. /\ Append(past, NewDrop(p, s, made)) \in Seq(Drop)
        /\ Len(Append(past, NewDrop(p, s, made))) = Len(past) + 1
        /\ \A i \in 1 .. Len(past) : Append(past, NewDrop(p, s, made))[i] = past[i]
        /\ Append(past, NewDrop(p, s, made))[Len(past) + 1] = NewDrop(p, s, made)
    <2> HIDE DEF past
    <2> QED
      BY <1>2, <1>3, AppendProperties
  <1>5. Minted(p, s, made) = Append(past, NewDrop(p, s, made))
    BY DEF Minted, NewDrop
  <1>6. \A d \in 1 .. Len(drops) :
           past[d] = IF s # None /\ pool[p][s].drop = d
                     THEN [drops[d] EXCEPT !.fate = "evicted"] ELSE drops[d]
    BY DEF Displaced
  <1> HIDE DEF past
  <1> QED
    BY <1>2, <1>4, <1>5, <1>6

\* Persisting records what lies on the floor.
LEMMA PersistKeepsGround ==
  ASSUME TypeOK
  PROVE  /\ Persisted \in [Floors -> Record \cup {None}]
         /\ Recorded(Persisted) = Ground
  <1>1. [p \in Pools |-> [s \in Slots |-> Stow(pool[p][s])]] \in Record
    BY SlotTypes DEF TypeOK, Record
  <1>2. Persisted \in [Floors -> Record \cup {None}]
    BY <1>1 DEF Persisted, TypeOK
  <1>3. ASSUME NEW x \in Places PROVE Recorded(Persisted)[x] = Ground[x]
    <2>0. x[1] \in Floors /\ x[2] \in Pools /\ x[3] \in Slots
      BY DEF Places
    <2>1. CASE x[1] = floor
      <3>1. /\ Persisted[x[1]] # None
            /\ Persisted[x[1]][x[2]][x[3]] = Stow(pool[x[2]][x[3]])
        BY <1>1, <2>0, <2>1, Constants DEF Persisted, TypeOK
      <3>2. pool[x[2]][x[3]] \in Live
        BY <2>0 DEF TypeOK
      <3> QED
        BY <2>1, <3>1, <3>2, SlotTypes DEF Recorded, Ground
    <2>2. CASE x[1] # floor
      BY <2>0, <2>2 DEF Persisted, Recorded, Ground, TypeOK
    <2> QED
      BY <2>1, <2>2
  <1>4. Recorded(Persisted) = Ground
    BY <1>3 DEF Recorded, Ground
  <1> QED
    BY <1>2, <1>4

\* Loading a floor lays out what its record tells.
LEMMA LoadKeepsGround ==
  ASSUME TypeOK, NEW f \in Floors, LoadFloor(f, record'),
         record' \in [Floors -> Record \cup {None}]
  PROVE  /\ pool' \in [Pools -> [Slots -> Live]] /\ floor' \in Floors /\ visit' \subseteq Nat
         /\ Alike(Recorded(record'), Ground')
  <1>1. ASSUME NEW p \in Pools, NEW s \in Slots
        PROVE  /\ pool'[p][s] \in Live
               /\ record'[f] = None => pool'[p][s].id = None /\ pool'[p][s].drop = None
               /\ record'[f] # None => InSlot(pool'[p][s]) = InRecord(record'[f][p][s])
    <2>1. pool[p][s] \in Live /\ Emptied(pool[p][s]) \in Live
      BY SlotTypes DEF TypeOK
    <2>2. CASE record'[f] = None
      BY <2>1, <2>2, SlotTypes DEF LoadFloor
    <2>3. CASE record'[f] # None
      <3>1. record'[f][p][s] \in Stored
        BY <2>3 DEF Record
      <3> QED
        BY <2>1, <2>3, <3>1, SlotTypes DEF LoadFloor
    <2> QED
      BY <2>2, <2>3
  <1>2. pool' \in [Pools -> [Slots -> Live]] /\ floor' \in Floors /\ visit' \subseteq Nat
    <2>1. pool' = [p \in Pools |-> [s \in Slots |-> pool'[p][s]]]
      BY DEF LoadFloor
    <2> QED
      BY <1>1, <2>1 DEF LoadFloor
  <1>3. ASSUME NEW x \in Places
        PROVE  /\ Recorded(record')[x].id = Ground'[x].id
               /\ Recorded(record')[x].drop = Ground'[x].drop
               /\ Recorded(record')[x].drop # None => Recorded(record')[x] = Ground'[x]
    <2>0. x[1] \in Floors /\ x[2] \in Pools /\ x[3] \in Slots /\ floor' = f
      BY DEF Places, LoadFloor
    <2>1. CASE x[1] # f
      BY <2>0, <2>1 DEF Recorded, Ground
    <2>2. CASE x[1] = f /\ record'[f] = None
      BY <1>1, <2>0, <2>2 DEF Recorded, Ground, Nowhere, InSlot
    <2>3. CASE x[1] = f /\ record'[f] # None
      BY <1>1, <2>0, <2>3 DEF Recorded, Ground
    <2> QED
      BY <2>1, <2>2, <2>3
  <1> QED
    BY <1>2, <1>3 DEF Alike

-----------------------------------------------------------------------------
\* The inductive step, action by action.

IInv == TypeOK /\ DropInv

\* With no drop and nothing recorded the ground is sound.
LEMMA EmptySound ==
  ASSUME NEW g \in [Places -> Lying], \A x \in Places : g[x].id = None /\ g[x].drop = None
  PROVE  Sound(<< >>, g)
  BY DEF Sound, Once, Unchanged, Vacant

LEMMA InitInv == Init => IInv
  <1> SUFFICES ASSUME Init PROVE IInv
    OBVIOUS
  <1>1. TypeOK
    <2>1. Blank(SwordCell) \in Live
      <3>1. 0 \in 0 .. Byte * Byte - 1 /\ 0 \in 0 .. Modulus - 1
        BY Constants
      <3> QED
        BY <3>1, Constants DEF Blank, Live
    <2>2. 0 \in 0 .. Modulus - 1
      BY Constants
    <2> QED
      BY <2>1, <2>2, Constants DEF Init, TypeOK
  <1>2. \A x \in Places : Ground[x].id = None /\ Ground[x].drop = None
    BY DEF Init, Places, Ground, Recorded, Nowhere, InSlot, Blank
  <1>3. Sound(drops, Ground)
    BY <1>1, <1>2, GroundType, EmptySound DEF Init
  <1> QED
    BY <1>1, <1>3 DEF IInv, DropInv, Init

\* A step that keeps the card keeps what it holds sound.
LEMMA CardKept ==
  ASSUME IInv, UNCHANGED saved
  PROVE  saved' # None => Sound(saved'.drops, Recorded(saved'.record))
  BY DEF IInv, DropInv

\* Giving a new drop to the slot of a pool; stamp is what the slot is stamped with.
LEMMA PlaceInv ==
  ASSUME IInv, TypeOK', NEW p \in Pools, NEW s \in Slots \cup {None}, NEW made \in Contents,
         NEW stamp,
         pool' = IF s = None THEN pool
                 ELSE [pool EXCEPT ![p][s] = Filled(pool[p][s], made, stamp)],
         drops' = Minted(p, s, made), UNCHANGED <<floor, record, saved>>
  PROVE  IInv'
  <1>1. CASE s = None
    <2>1. Ground' = Ground
      BY <1>1 DEF Ground, Recorded
    <2>2. drops'[Len(drops) + 1].fate = "stray"
      <3>1. drops'[Len(drops) + 1] = NewDrop(p, s, made)
        BY MintedFacts DEF IInv
      <3> QED
        BY <1>1, <3>1 DEF NewDrop
    <2>3. \A d \in 1 .. Len(drops) : drops'[d] = drops[d]
      BY <1>1, MintedFacts DEF IInv
    <2>4. Len(drops') = Len(drops) + 1
      BY MintedFacts DEF IInv
    <2>5. Sound(drops', Ground)
      BY <2>2, <2>3, <2>4, StraySound, GroundType DEF IInv, DropInv, TypeOK
    <2> QED
      BY <2>1, <2>5, CardKept DEF IInv, DropInv
  <1>2. CASE s # None
    <2> DEFINE x == <<floor, p, s>>
    <2>0. x \in Places /\ s \in Slots
      BY <1>2 DEF Places, IInv, TypeOK
    <2>1. pool' \in [Pools -> [Slots -> Live]]
          /\ pool'[p][s] = Filled(pool[p][s], made, stamp)
          /\ pool[p][s] \in Live
      BY <1>2, <2>0 DEF IInv, TypeOK
    <2>2. Ground'[x] = [id |-> made.id, amount |-> made.amount, cell |-> made.cell, drop |-> Len(drops) + 1]
      BY <2>0, <2>1 DEF Ground, InSlot, Filled, Live
    <2>3. \A y \in Places \ {x} : Ground'[y] = Ground[y]
      <3> SUFFICES ASSUME NEW y \in Places, y # x PROVE Ground'[y] = Ground[y]
        OBVIOUS
      <3>0. y[1] \in Floors /\ y[2] \in Pools /\ y[3] \in Slots /\ y = <<y[1], y[2], y[3]>>
        BY DEF Places
      <3>1. CASE y[1] # floor
        BY <3>1 DEF Ground, Recorded
      <3>2. CASE y[1] = floor
        <4>1. pool'[y[2]][y[3]] = pool[y[2]][y[3]]
          BY <1>2, <2>0, <3>0, <3>2 DEF IInv, TypeOK
        <4> QED
          BY <3>2, <4>1 DEF Ground
      <3> QED
        BY <3>1, <3>2
    <2>4. Ground[x].drop = pool[p][s].drop
      BY <2>0 DEF Ground, InSlot
    <2>5. /\ drops'[Len(drops) + 1].made = made /\ drops'[Len(drops) + 1].fate = "ground"
          /\ drops'[Len(drops) + 1].floor = x[1] /\ drops'[Len(drops) + 1].pool = x[2]
      <3>1. drops'[Len(drops) + 1] = NewDrop(p, s, made)
        BY MintedFacts DEF IInv
      <3> QED
        BY <1>2, <3>1 DEF NewDrop
    <2>6. \A d \in 1 .. Len(drops) :
             drops'[d] = IF Ground[x].drop = d THEN [drops[d] EXCEPT !.fate = "evicted"] ELSE drops[d]
      BY <1>2, <2>4, MintedFacts DEF IInv
    <2>7. Len(drops') = Len(drops) + 1 /\ drops' \in Seq(Drop) /\ drops \in Seq(Drop)
      BY MintedFacts DEF IInv, TypeOK
    <2>8. Ground \in [Places -> Lying] /\ Ground' \in [Places -> Lying] /\ Sound(drops, Ground)
      BY GroundType, NextGroundType DEF IInv, DropInv
    <2> HIDE DEF x
    <2>9. Puts(drops, Ground, drops', Ground', x, made)
      BY <2>0, <2>2, <2>3, <2>5, <2>6, <2>7 DEF Puts
    <2>10. Sound(drops', Ground')
      BY <2>7, <2>8, <2>9, PutSound
    <2> QED
      BY <2>10, CardKept DEF IInv, DropInv
  <1> QED
    BY <1>1, <1>2

\* Filling a slot keeps the types.
LEMMA PlaceTypes ==
  ASSUME TypeOK, NEW p \in Pools, NEW s \in Slots \cup {None}, NEW made \in Contents,
         NEW stamp \in 0 .. Modulus - 1,
         pool' = IF s = None THEN pool
                 ELSE [pool EXCEPT ![p][s] = Filled(pool[p][s], made, stamp)],
         drops' = Minted(p, s, made)
  PROVE  pool' \in [Pools -> [Slots -> Live]] /\ drops' \in Seq(Drop)
  <1>1. drops' \in Seq(Drop)
    BY MintedFacts
  <1>2. ASSUME s # None PROVE Filled(pool[p][s], made, stamp) \in Live
    <2>1. pool[p][s] \in Live
      BY <1>2 DEF TypeOK
    <2>2. Len(drops) + 1 \in Nat
      BY LenProperties DEF TypeOK
    <2>3. made.id \in Ids /\ made.cell \in Cells /\ made.amount \in 0 .. Byte * Byte - 1
      BY Constants DEF Contents
    <2> QED
      BY <2>1, <2>2, <2>3 DEF Filled, Live
  <1>3. pool' \in [Pools -> [Slots -> Live]]
    BY <1>2 DEF TypeOK
  <1> QED
    BY <1>1, <1>3

LEMMA SpawnInv == ASSUME IInv, NEW p \in Pools, NEW made \in Contents, Spawn(p, made) PROVE IInv'
  <1> DEFINE s == Acquired(p)
  <1>1. s \in Slots \cup {None}
    BY AcquiredIsSlot DEF IInv
  <1>2. sequence[p] \in 0 .. Modulus - 1
    BY DEF IInv, TypeOK
  <1>3. /\ pool' = IF s = None THEN pool
                   ELSE [pool EXCEPT ![p][s] = Filled(pool[p][s], made, sequence[p])]
        /\ drops' = Minted(p, s, made) /\ UNCHANGED <<floor, record, saved>>
    BY DEF Spawn
  <1> HIDE DEF s
  <1>4. TypeOK'
    <2>1. pool' \in [Pools -> [Slots -> Live]] /\ drops' \in Seq(Drop)
      BY <1>1, <1>2, <1>3, PlaceTypes DEF IInv
    <2>2. sequence' \in [Pools -> 0 .. Modulus - 1]
      <3>1. NextStamp(sequence[p]) \in 0 .. Modulus - 1
        BY <1>2, Constants DEF NextStamp
      <3> QED
        BY <3>1 DEF Spawn, IInv, TypeOK
    <2>3. visit' \subseteq Nat /\ wrapped' \subseteq Pools
      <3>1. Len(drops) + 1 \in Nat
        BY LenProperties DEF IInv, TypeOK
      <3> QED
        BY <3>1 DEF Spawn, IInv, TypeOK
    <2> QED
      BY <1>3, <2>1, <2>2, <2>3 DEF IInv, TypeOK
  <1> QED
    BY <1>1, <1>3, <1>4, PlaceInv

LEMMA SwordInv == ASSUME IInv, LaySword PROVE IInv'
  <1> DEFINE p == "placement"
             s == Acquired(p)
             made == [id |-> Sword, amount |-> 0, cell |-> SwordCell]
             stamp == IF s = None THEN 0 ELSE pool[p][s].sequence
  <1>0. p \in Pools
    BY DEF LaySword
  <1>1. s \in Slots \cup {None}
    BY <1>0, AcquiredIsSlot DEF IInv
  <1>2. made \in Contents
    BY Constants DEF Contents
  <1>3. stamp \in 0 .. Modulus - 1
    <2>1. 0 \in 0 .. Modulus - 1
      BY Constants
    <2>2. ASSUME s # None PROVE pool[p][s] \in Live
      BY <1>0, <1>1, <2>2 DEF IInv, TypeOK
    <2> QED
      BY <2>1, <2>2 DEF Live
  <1>4. /\ pool' = IF s = None THEN pool
                   ELSE [pool EXCEPT ![p][s] = Filled(pool[p][s], made, stamp)]
        /\ drops' = Minted(p, s, made) /\ UNCHANGED <<sequence, floor, record, saved, visit, wrapped>>
    <2>1. CASE s = None
      BY <2>1 DEF LaySword
    <2>2. CASE s # None
      BY <2>2, <1>0, <1>1 DEF LaySword, IInv, TypeOK
    <2> QED
      BY <2>1, <2>2
  <1> HIDE DEF p, s, made, stamp
  <1>5. TypeOK'
    <2>1. pool' \in [Pools -> [Slots -> Live]] /\ drops' \in Seq(Drop)
      BY <1>0, <1>1, <1>2, <1>3, <1>4, PlaceTypes DEF IInv
    <2> QED
      BY <1>4, <2>1 DEF IInv, TypeOK
  <1> QED
    BY <1>0, <1>1, <1>2, <1>4, <1>5, PlaceInv

LEMMA PickUpInv == ASSUME IInv, NEW p \in Pools, NEW s \in Slots, PickUp(p, s) PROVE IInv'
  <1> DEFINE x == <<floor, p, s>>
             n == pool[p][s].drop
  <1>0. x \in Places /\ pool[p][s] \in Live
    BY DEF Places, IInv, TypeOK
  <1>1. Ground[x] = InSlot(pool[p][s]) /\ n # None
    <2>1. Ground[x] = InSlot(pool[p][s])
      BY <1>0 DEF Ground
    <2> QED
      BY <1>0, <2>1 DEF PickUp, IInv, DropInv, Sound, Vacant, InSlot
  <1>2. n \in 1 .. Len(drops) /\ drops[n] \in Drop /\ drops \in Seq(Drop) /\ Len(drops) \in Nat
    <2>1. n \in 1 .. Len(drops)
      BY <1>0, <1>1 DEF IInv, DropInv, Sound, Unchanged, InSlot
    <2> QED
      BY <2>1, ElementOfSeq, LenProperties DEF IInv, TypeOK
  <1> DEFINE taken == [drops[n] EXCEPT !.fate = "taken",
                          !.paid = [id |-> pool[p][s].id, cell |-> pool[p][s].cell,
                                    amount |-> pool[p][s].amount]]
  <1>3. taken \in Drop
    <2>1. drops[n].made = [id |-> pool[p][s].id, cell |-> pool[p][s].cell, amount |-> pool[p][s].amount]
      <3>1. /\ pool[p][s].id = drops[n].made.id /\ pool[p][s].cell = drops[n].made.cell
            /\ pool[p][s].amount = drops[n].made.amount
        BY <1>0, <1>1 DEF IInv, DropInv, Sound, Unchanged, InSlot
      <3> QED
        BY <3>1, <1>2 DEF Drop, Contents
    <2>2. drops[n].made \in Contents
      BY <1>2 DEF Drop
    <2> QED
      BY <1>2, <2>1, <2>2 DEF Drop
  <1>4. drops' = [drops EXCEPT ![n] = taken]
    BY DEF PickUp, PaidOut
  <1> HIDE DEF taken
  <1>5. drops' \in Seq(Drop) /\ Len(drops') = Len(drops)
        /\ \A d \in 1 .. Len(drops) : drops'[d] = IF n = d THEN taken ELSE drops[d]
    BY <1>2, <1>3, <1>4, ExceptSeq
  <1>6. TypeOK'
    BY <1>0, <1>5, SlotTypes DEF PickUp, IInv, TypeOK
  <1>7. Ground'[x].id = None /\ Ground'[x].drop = None
    <2>1. pool'[p][s] = Emptied(pool[p][s]) /\ floor' = floor
      BY DEF PickUp, IInv, TypeOK
    <2> QED
      BY <1>0, <2>1, SlotTypes DEF Ground, InSlot
  <1>8. \A y \in Places \ {x} : Ground'[y] = Ground[y]
    <2> SUFFICES ASSUME NEW y \in Places, y # x PROVE Ground'[y] = Ground[y]
      OBVIOUS
    <2>0. y[1] \in Floors /\ y[2] \in Pools /\ y[3] \in Slots /\ y = <<y[1], y[2], y[3]>>
      BY DEF Places
    <2>1. CASE y[1] # floor
      BY <2>1 DEF Ground, Recorded, PickUp
    <2>2. CASE y[1] = floor
      <3>1. pool'[y[2]][y[3]] = pool[y[2]][y[3]]
        BY <2>0, <2>2 DEF PickUp, IInv, TypeOK
      <3> QED
        BY <2>2, <3>1 DEF Ground, PickUp
    <2> QED
      BY <2>1, <2>2
  <1>9. Sound(drops', Ground')
    <2>1. /\ Ground[x].drop = n /\ Ground[x].id = pool[p][s].id
          /\ Ground[x].cell = pool[p][s].cell /\ Ground[x].amount = pool[p][s].amount
      BY <1>1 DEF InSlot
    <2>2. \A d \in 1 .. Len(drops) :
             drops'[d] = IF Ground[x].drop = d
                         THEN [drops[d] EXCEPT !.fate = "taken",
                                 !.paid = [id |-> Ground[x].id, cell |-> Ground[x].cell,
                                           amount |-> Ground[x].amount]]
                         ELSE drops[d]
      BY <1>5, <2>1 DEF taken
    <2>3. Ground \in [Places -> Lying] /\ Ground' \in [Places -> Lying] /\ Sound(drops, Ground)
      BY <1>6, GroundType, NextGroundType DEF IInv, DropInv
    <2> HIDE DEF x, n
    <2>4. Takes(drops, Ground, drops', Ground', x)
      BY <1>0, <1>1, <1>5, <1>7, <1>8, <2>1, <2>2 DEF Takes
    <2> QED
      BY <1>2, <2>3, <2>4, TakeSound
  <1> QED
    BY <1>6, <1>9, CardKept DEF IInv, DropInv, PickUp

\* Loading a floor whose records are sound for the history leaves the game sound.
LEMMA LoadInv ==
  ASSUME IInv, NEW f \in Floors, LoadFloor(f, record'),
         record' \in [Floors -> Record \cup {None}], drops' \in Seq(Drop),
         Sound(drops', Recorded(record')),
         UNCHANGED <<sequence, saved, wrapped>>
  PROVE  IInv'
  <1>1. TypeOK'
    BY LoadKeepsGround DEF IInv, TypeOK
  <1>2. Sound(drops', Ground')
    <2>1. Ground' \in [Places -> Lying] /\ Recorded(record') \in [Places -> Lying]
      BY <1>1, NextGroundType, RecordedType
    <2> QED
      BY <2>1, LoadKeepsGround, AlikeSound DEF IInv
  <1> QED
    BY <1>1, <1>2, CardKept DEF IInv, DropInv

LEMMA ChangeFloorInv == ASSUME IInv, NEW f \in Floors, ChangeFloor(f) PROVE IInv'
  <1>1. record' \in [Floors -> Record \cup {None}] /\ Recorded(record') = Ground
    BY PersistKeepsGround DEF ChangeFloor, IInv
  <1>2. drops' = drops /\ drops \in Seq(Drop) /\ Sound(drops, Ground)
    BY DEF ChangeFloor, IInv, DropInv, TypeOK
  <1>3. LoadFloor(f, record') /\ UNCHANGED <<sequence, saved, wrapped>>
    BY DEF ChangeFloor
  <1> QED
    BY <1>1, <1>2, <1>3, LoadInv

LEMMA SaveInv == ASSUME IInv, UseSavePoint PROVE IInv'
  <1>1. record' = Persisted /\ record' \in [Floors -> Record \cup {None}] /\ Recorded(record') = Ground
    BY PersistKeepsGround DEF UseSavePoint, IInv
  <1>2. UNCHANGED <<pool, sequence, floor, drops, visit, wrapped>>
    BY DEF UseSavePoint
  <1>3. saved' \in Snapshot \cup {None}
    BY <1>1 DEF UseSavePoint, IInv, TypeOK, Snapshot
  <1>4. TypeOK'
    BY <1>1, <1>2, <1>3 DEF IInv, TypeOK
  <1>5. Sound(drops, Ground)
    BY DEF IInv, DropInv
  <1>6. Ground' = Ground
    <2>1. \A x \in Places : x[1] # floor => Recorded(record')[x] = Recorded(record)[x]
      <3> SUFFICES ASSUME NEW x \in Places, x[1] # floor PROVE record'[x[1]] = record[x[1]]
        BY DEF Recorded
      <3>1. x[1] \in Floors
        BY DEF Places
      <3> QED
        BY <1>1, <3>1 DEF Persisted, IInv, TypeOK
    <2> QED
      BY <1>2, <2>1 DEF Ground
  <1>7. saved' # None => Sound(saved'.drops, Recorded(saved'.record))
    <2>1. CASE UNCHANGED saved
      BY <2>1, CardKept
    <2>2. CASE saved' = [floor |-> floor, record |-> Persisted, drops |-> drops]
      BY <2>2, <1>1, <1>5
    <2> QED
      BY <2>1, <2>2 DEF UseSavePoint
  <1> QED
    BY <1>2, <1>4, <1>5, <1>6, <1>7 DEF IInv, DropInv

LEMMA LoadGameInv == ASSUME IInv, LoadGame PROVE IInv'
  <1>1. saved \in Snapshot /\ Sound(saved.drops, Recorded(saved.record))
    BY DEF LoadGame, IInv, DropInv, TypeOK
  <1>2. /\ saved.floor \in Floors /\ saved.record \in [Floors -> Record \cup {None}]
        /\ saved.drops \in Seq(Drop)
    BY <1>1 DEF Snapshot
  <1>3. /\ record' = saved.record /\ drops' = saved.drops /\ LoadFloor(saved.floor, record')
        /\ UNCHANGED <<sequence, saved, wrapped>>
    BY DEF LoadGame
  <1> QED
    BY <1>1, <1>2, <1>3, LoadInv

\* Nothing recorded is nothing on the ground.
LEMMA NothingRecorded ==
  ASSUME NEW records, records = [f \in Floors |-> None]
  PROVE  /\ records \in [Floors -> Record \cup {None}]
         /\ Sound(<< >>, Recorded(records))
  <1>1. records \in [Floors -> Record \cup {None}]
    OBVIOUS
  <1>2. \A x \in Places : Recorded(records)[x].id = None /\ Recorded(records)[x].drop = None
    BY DEF Recorded, Places, Nowhere
  <1> QED
    BY <1>1, <1>2, RecordedType, EmptySound

LEMMA NewGameInv == ASSUME IInv, NewGameAfterDeath PROVE IInv'
  <1>1. record' \in [Floors -> Record \cup {None}] /\ Sound(<< >>, Recorded(record'))
    BY NothingRecorded DEF NewGameAfterDeath
  <1>2. /\ drops' = << >> /\ LoadFloor(FirstFloor, record') /\ FirstFloor \in Floors
        /\ UNCHANGED <<sequence, saved, wrapped>>
    BY Constants DEF NewGameAfterDeath
  <1> QED
    BY <1>1, <1>2, LoadInv

LEMMA NewSessionInv == ASSUME IInv, NewSession PROVE IInv'
  <1>1. Init' \/ saved' # None
    BY DEF NewSession, Init
  <1>2. TypeOK'
    <2>1. Blank(SwordCell) \in Live /\ 0 \in 0 .. Modulus - 1
      <3>1. 0 \in 0 .. Byte * Byte - 1 /\ 0 \in 0 .. Modulus - 1
        BY Constants
      <3> QED
        BY <3>1, Constants DEF Blank, Live
    <2> QED
      BY <2>1, Constants DEF NewSession, IInv, TypeOK
  <1>3. \A x \in Places : Ground'[x].id = None /\ Ground'[x].drop = None
    BY DEF NewSession, Places, Ground, Recorded, Nowhere, InSlot, Blank
  <1>4. Sound(drops', Ground')
    BY <1>2, <1>3, NextGroundType, EmptySound DEF NewSession
  <1> QED
    BY <1>2, <1>4, CardKept DEF IInv, DropInv, NewSession

LEMMA NextInv == IInv /\ [Next]_vars => IInv'
  <1> SUFFICES ASSUME IInv, [Next]_vars PROVE IInv'
    OBVIOUS
  <1>1. CASE UNCHANGED vars
    <2>1. Ground' = Ground
      BY <1>1 DEF vars, Ground, Recorded
    <2> QED
      BY <1>1, <2>1 DEF vars, IInv, DropInv, TypeOK
  <1>2. CASE Next
    BY <1>2, SpawnInv, SwordInv, PickUpInv, ChangeFloorInv, SaveInv, LoadGameInv, NewGameInv, NewSessionInv
    DEF Next
  <1> QED
    BY <1>1, <1>2

-----------------------------------------------------------------------------
\* The theorems.

\* Every state of the pools has its type, and what lies on the ground and what the card
\* remembers of it stay sound, whatever the capacity, the widths and the floors.
THEOREM DropInvariant == Spec => [](TypeOK /\ DropInv)
  <1>1. Init => IInv
    BY InitInv
  <1>2. IInv /\ [Next]_vars => IInv'
    BY NextInv
  <1>3. IInv => TypeOK /\ DropInv
    BY DEF IInv
  <1> QED
    BY <1>1, <1>2, <1>3, PTL DEF Spec

\* map_object.c, map_events.c and map_load.c neither lose nor double a dropped object.
THEOREM DropsStay == Spec => []DropsConserved
  <1>1. TypeOK /\ DropInv => DropsConserved
    BY DEF DropInv, Sound, DropsConserved
  <1> QED
    BY <1>1, DropInvariant, PTL

\* A drop keeps its identifier, its cell and its gold until it is picked up.
THEOREM DropsKeep == Spec => []DropsKeepWorth
  <1>1. TypeOK /\ DropInv => DropsKeepWorth
    BY DEF DropInv, Sound, DropsKeepWorth
  <1> QED
    BY <1>1, DropInvariant, PTL

-----------------------------------------------------------------------------
\* Which drop gives way.

\* An occupied slot holds a drop of the history, and what that was made of.
LEMMA SlotDrops ==
  ASSUME IInv, NEW p \in Pools, NEW s \in Slots
  PROVE  /\ pool[p][s] \in Live /\ pool[p][s].drop \in 1 .. Len(drops) \cup {None}
         /\ pool[p][s].id = None <=> pool[p][s].drop = None
         /\ pool[p][s].drop # None => pool[p][s].id = drops[pool[p][s].drop].made.id
  <1> DEFINE x == <<floor, p, s>>
  <1>1. x \in Places /\ Ground[x] = InSlot(pool[p][s]) /\ pool[p][s] \in Live
    BY DEF IInv, TypeOK, Places, Ground
  <1>2. Ground[x].drop = pool[p][s].drop /\ Ground[x].id = pool[p][s].id
    BY <1>1 DEF InSlot
  <1> HIDE DEF x
  <1> QED
    BY <1>1, <1>2 DEF IInv, DropInv, Sound, Unchanged, Vacant

\* No drop lies in two slots.
LEMMA OneSlot ==
  ASSUME IInv, NEW p \in Pools, NEW s \in Slots, NEW t \in Slots,
         pool[p][s].drop = pool[p][t].drop, pool[p][s].drop # None
  PROVE  s = t
  <1> DEFINE x == <<floor, p, s>>
             y == <<floor, p, t>>
             d == pool[p][s].drop
  <1>1. x \in Places /\ y \in Places /\ Ground[x].drop = d /\ Ground[y].drop = d
    BY DEF IInv, TypeOK, Places, Ground, InSlot
  <1>2. d \in 1 .. Len(drops)
    BY SlotDrops
  <1> HIDE DEF x, y, d
  <1>3. x = y
    BY <1>1, <1>2 DEF IInv, DropInv, Sound, Once
  <1> QED
    BY <1>3 DEF x, y

\* The next stamp is the next number until it wraps.
LEMMA StampGrows ==
  ASSUME NEW n \in 0 .. Modulus - 1, NextStamp(n) # 0
  PROVE  NextStamp(n) = n + 1
  <1>1. Modulus \in Nat /\ Modulus > 0 /\ n + 1 \in 1 .. Modulus
    BY Constants
  <1>2. CASE n + 1 = Modulus
    <2>1. Modulus % Modulus = 0
      BY <1>1
    <2> QED
      BY <1>2, <2>1 DEF NextStamp
  <1>3. CASE n + 1 < Modulus
    <2>1. (n + 1) % Modulus = n + 1
      BY <1>1, <1>3
    <2> QED
      BY <2>1 DEF NextStamp
  <1> QED
    BY <1>1, <1>2, <1>3

\* The stamps of a pool nothing was stamped in.
LEMMA PoolUntouched ==
  ASSUME IInv, NEW p \in Pools, Stamped(p), pool'[p] = pool[p], sequence'[p] = sequence[p],
         visit' \in {visit, visit \cup {Len(drops) + 1}}
  PROVE  Stamped(p)'
  <1>1. \A s \in Slots : pool[p][s].drop \in visit' <=> pool[p][s].drop \in visit
    <2>1. Len(drops) \in Nat /\ Len(drops) + 1 # None
      BY LenProperties, NoneIsNew DEF IInv, TypeOK
    <2>2. \A s \in Slots : pool[p][s].drop # Len(drops) + 1
      BY <2>1, SlotDrops
    <2> QED
      BY <2>2
  <1> QED
    BY <1>1 DEF Stamped

LEMMA SpawnVisit ==
  ASSUME IInv, VisitInv, NEW p \in Pools, NEW made \in Contents, Spawn(p, made)
  PROVE  VisitInv'
  <1> DEFINE a == Acquired(p)
             n == Len(drops) + 1
  <1>1. /\ pool' = IF a = None THEN pool
                   ELSE [pool EXCEPT ![p][a] = Filled(pool[p][a], made, sequence[p])]
        /\ drops' = Minted(p, a, made) /\ visit' = visit \cup {n}
        /\ sequence' = [sequence EXCEPT ![p] = NextStamp(sequence[p])]
        /\ wrapped' = IF sequence'[p] = 0 THEN wrapped \cup {p} ELSE wrapped
    BY DEF Spawn
  <1>2. a \in Slots \cup {None} /\ None \notin Slots
    BY AcquiredIsSlot, Constants DEF IInv
  <1>3. /\ sequence \in [Pools -> 0 .. Modulus - 1] /\ sequence[p] \in 0 .. Modulus - 1
        /\ pool \in [Pools -> [Slots -> Live]] /\ n \in Nat /\ n # None /\ Len(drops) \in Nat
    BY LenProperties, NoneIsNew DEF IInv, TypeOK
  <1> HIDE DEF a
  <1>v. visit \subseteq 1 .. Len(drops) /\ None \notin visit
    <2>1. visit \subseteq 1 .. Len(drops)
      BY DEF VisitInv
    <2> QED
      BY <1>3, <2>1, IndexIsDrop
  <1>w. visit \subseteq Nat
    BY <1>3, <1>v
  <1>4. visit' \subseteq 1 .. Len(drops')
    <2>1. Len(drops') = n
      BY <1>1, <1>2, MintedFacts DEF IInv
    <2>2. \A d \in visit \cup {n} : d \in 1 .. n
      BY <1>3, <1>v
    <2> QED
      BY <1>1, <2>1, <2>2
  <1>5. ASSUME NEW q \in Pools \ wrapped', q # p
        PROVE  Stamped(q)'
    <2>1. pool'[q] = pool[q] /\ sequence'[q] = sequence[q] /\ q \notin wrapped
      BY <1>1, <1>3, <1>5
    <2> QED
      BY <1>1, <2>1, PoolUntouched DEF VisitInv
  <1>6. ASSUME p \notin wrapped'
        PROVE  Stamped(p)'
    <2>1. sequence'[p] = sequence[p] + 1 /\ p \notin wrapped
      <3>1. sequence'[p] = NextStamp(sequence[p])
        BY <1>1, <1>3
      <3> QED
        BY <1>1, <1>3, <1>6, <3>1, StampGrows
    <2>2. ASSUME NEW s \in Slots, s # a
          PROVE  /\ pool'[p][s] = pool[p][s] /\ pool[p][s] \in Live /\ pool[p][s].drop # n
                 /\ pool[p][s].sequence \in Nat
                 /\ pool[p][s].drop \in visit => pool[p][s].drop < n
      <3>1. pool'[p][s] = pool[p][s] /\ pool[p][s].drop \in 1 .. Len(drops) \cup {None} /\ pool[p][s] \in Live
        BY <1>1, <1>3, <2>2, SlotDrops
      <3> QED
        BY <1>3, <1>v, <3>1 DEF Live
    <2>3. a # None => /\ a \in Slots /\ pool'[p][a].drop = n /\ pool'[p][a].sequence = sequence[p]
      <3>1. ASSUME a # None PROVE pool'[p][a] = Filled(pool[p][a], made, sequence[p]) /\ pool[p][a] \in Live /\ a \in Slots
        BY <1>1, <1>2, <1>3, <3>1
      <3> QED
        BY <3>1 DEF Filled, Live
    <2>4. Stamped(p)
      BY <2>1 DEF VisitInv
    <2>5. ASSUME NEW s \in Slots, s # a
          PROVE  LET x == pool'[p][s]
                 IN  /\ x.sequence <= sequence'[p]
                     /\ x.drop \in visit' =>
                          /\ x.sequence < sequence'[p]
                          /\ \A t \in Slots : pool'[p][t].drop \in visit' /\ x.drop < pool'[p][t].drop =>
                                              x.sequence < pool'[p][t].sequence
                     /\ x.drop # None /\ x.drop \notin visit' /\ x.id # Sword => x.sequence = 0
      <3> DEFINE x == pool[p][s]
      <3>1. /\ x.sequence <= sequence[p]
            /\ x.drop \in visit => x.sequence < sequence[p]
            /\ x.drop # None /\ x.drop \notin visit /\ x.id # Sword => x.sequence = 0
            /\ \A t \in Slots : x.drop \in visit /\ pool[p][t].drop \in visit /\ x.drop < pool[p][t].drop =>
                                x.sequence < pool[p][t].sequence
        BY <2>4 DEF Stamped
      <3>2. pool'[p][s] = x /\ x.drop # n /\ x.sequence \in Nat
        BY <2>2, <2>5
      <3>3. x.drop \in visit' <=> x.drop \in visit
        BY <1>1, <3>2
      <3>4. ASSUME NEW t \in Slots, x.drop \in visit, pool'[p][t].drop \in visit', x.drop < pool'[p][t].drop
            PROVE  x.sequence < pool'[p][t].sequence
        <4>1. CASE t = a
          <5>1. a # None /\ pool'[p][t].sequence = sequence[p]
            BY <1>2, <2>3, <4>1
          <5> QED
            BY <3>1, <3>4, <5>1
        <4>2. CASE t # a
          BY <1>1, <2>2, <3>1, <3>4, <4>2
        <4> QED
          BY <4>1, <4>2
      <3> HIDE DEF x
      <3>5. /\ x.sequence <= sequence'[p]
            /\ x.drop \in visit => x.sequence < sequence'[p]
        BY <1>3, <2>1, <3>1, <3>2
      <3>6. pool'[p][s].sequence = x.sequence /\ pool'[p][s].drop = x.drop /\ pool'[p][s].id = x.id
        BY <3>2
      <3> QED
        BY <3>1, <3>3, <3>4, <3>5, <3>6
    <2>6. ASSUME a # None
          PROVE  LET x == pool'[p][a]
                 IN  /\ x.sequence < sequence'[p] /\ x.drop \in visit'
                     /\ \A t \in Slots : ~(pool'[p][t].drop \in visit' /\ x.drop < pool'[p][t].drop)
      <3>1. ASSUME NEW t \in Slots, pool'[p][t].drop \in visit' PROVE ~(n < pool'[p][t].drop)
        <4>1. CASE t = a
          BY <1>3, <2>3, <2>6, <4>1
        <4>2. CASE t # a
          <5>1. /\ pool'[p][t] = pool[p][t] /\ pool[p][t].drop # n
                /\ pool[p][t].drop \in visit => pool[p][t].drop < n
            BY <2>2, <4>2
          <5>2. pool[p][t].drop \in visit /\ pool'[p][t].drop = pool[p][t].drop
            BY <1>1, <3>1, <5>1
          <5>3. pool[p][t].drop \in Nat
            BY <1>w, <5>2
          <5> QED
            BY <1>3, <5>1, <5>2, <5>3
        <4> QED
          BY <4>1, <4>2
      <3> QED
        BY <1>1, <1>3, <2>1, <2>3, <2>6, <3>1
    <2>7. a # None => pool'[p][a].sequence <= sequence'[p] /\ pool'[p][a].sequence < sequence'[p]
      BY <1>3, <2>1, <2>3
    <2> QED
      <3> SUFFICES ASSUME NEW s \in Slots
                   PROVE  LET x == pool'[p][s]
                          IN  /\ x.sequence <= sequence'[p]
                              /\ x.drop \in visit' =>
                                   /\ x.sequence < sequence'[p]
                                   /\ \A t \in Slots : pool'[p][t].drop \in visit' /\ x.drop < pool'[p][t].drop =>
                                                       x.sequence < pool'[p][t].sequence
                              /\ x.drop # None /\ x.drop \notin visit' /\ x.id # Sword => x.sequence = 0
        BY DEF Stamped
      <3>1. CASE s = a
        BY <1>2, <2>6, <2>7, <3>1
      <3>2. CASE s # a
        BY <2>5, <3>2
      <3> QED
        BY <3>1, <3>2
  <1> QED
    BY <1>4, <1>5, <1>6 DEF VisitInv

\* A slot that keeps its stamp, for no drop of this visit.
LEMMA StampKept ==
  ASSUME IInv, NEW p \in Pools, NEW s \in Slots, Stamped(p), UNCHANGED <<sequence, visit>>,
         pool'[p][s].sequence = pool[p][s].sequence, pool'[p][s].drop \notin visit,
         pool'[p][s].drop = None \/ pool'[p][s].id = Sword,
         \A t \in Slots \ {s} : pool'[p][t] = pool[p][t]
  PROVE  Stamped(p)'
  <1> SUFFICES ASSUME NEW q \in Slots
               PROVE  LET x == pool'[p][q]
                      IN  /\ x.sequence <= sequence[p]
                          /\ x.drop \in visit =>
                                /\ x.sequence < sequence[p]
                                /\ \A t \in Slots : pool'[p][t].drop \in visit /\ x.drop < pool'[p][t].drop =>
                                                     x.sequence < pool'[p][t].sequence
                          /\ x.drop # None /\ x.drop \notin visit /\ x.id # Sword => x.sequence = 0
    BY DEF Stamped
  <1>1. pool'[p][q].sequence = pool[p][q].sequence
    OBVIOUS
  <1>2. ASSUME NEW t \in Slots, pool'[p][t].drop \in visit
        PROVE  t # s /\ pool'[p][t] = pool[p][t]
    BY <1>2
  <1>3. q # s => pool'[p][q] = pool[p][q]
    OBVIOUS
  <1> QED
    BY <1>1, <1>2, <1>3 DEF Stamped

LEMMA SwordVisit == ASSUME IInv, VisitInv, LaySword PROVE VisitInv'
  <1> DEFINE p == "placement"
             a == Acquired(p)
             made == [id |-> Sword, amount |-> 0, cell |-> SwordCell]
             n == Len(drops) + 1
  <1>1. p \in Pools /\ a \in Slots \cup {None} /\ None \notin Slots
    BY AcquiredIsSlot, Constants DEF LaySword, IInv
  <1>2. /\ pool \in [Pools -> [Slots -> Live]] /\ n \in Nat /\ n # None /\ Len(drops) \in Nat
        /\ visit \subseteq 1 .. Len(drops) /\ made \in Contents
    BY LenProperties, NoneIsNew, Constants DEF IInv, TypeOK, VisitInv, Contents
  <1>3. /\ pool' = IF a = None THEN pool
                   ELSE [pool EXCEPT ![p][a] = Filled(pool[p][a], made, pool[p][a].sequence)]
        /\ drops' = Minted(p, a, made) /\ UNCHANGED <<sequence, visit, wrapped>>
    <2>1. CASE a = None
      BY <2>1 DEF LaySword
    <2>2. CASE a # None
      BY <1>1, <1>2, <2>2 DEF LaySword
    <2> QED
      BY <2>1, <2>2
  <1>4. visit' \subseteq 1 .. Len(drops')
    <2>1. Len(drops') = n
      <3> HIDE DEF made
      <3> QED
        BY <1>1, <1>2, <1>3, MintedFacts DEF IInv
    <2>2. \A d \in visit : d \in 1 .. n
      BY <1>2
    <2> QED
      BY <1>3, <2>1, <2>2
  <1>5. ASSUME NEW q \in Pools \ wrapped, q # p \/ a = None
        PROVE  Stamped(q)'
    <2>1. pool'[q] = pool[q] /\ sequence'[q] = sequence[q] /\ visit' = visit /\ Stamped(q)
      BY <1>2, <1>3, <1>5 DEF VisitInv
    <2> QED
      BY <2>1, PoolUntouched
  <1>6. ASSUME p \notin wrapped, a # None
        PROVE  Stamped(p)'
    <2>1. /\ pool'[p][a] = Filled(pool[p][a], made, pool[p][a].sequence)
          /\ \A t \in Slots \ {a} : pool'[p][t] = pool[p][t]
          /\ a \in Slots /\ pool[p][a] \in Live /\ Stamped(p)
      BY <1>1, <1>2, <1>3, <1>6 DEF VisitInv
    <2>2. pool'[p][a].sequence = pool[p][a].sequence /\ pool'[p][a].drop = n /\ pool'[p][a].id = Sword
      BY <2>1 DEF Filled, Live
    <2>3. n \notin visit
      BY <1>2
    <2> HIDE DEF a, p, n, made
    <2> QED
      BY <1>1, <1>3, <2>1, <2>2, <2>3, StampKept
  <1> QED
    BY <1>1, <1>3, <1>4, <1>5, <1>6 DEF VisitInv

LEMMA PickUpVisit ==
  ASSUME IInv, VisitInv, NEW p \in Pools, NEW s \in Slots, PickUp(p, s)
  PROVE  VisitInv'
  <1>1. /\ pool \in [Pools -> [Slots -> Live]] /\ None \notin visit
        /\ pool' = [pool EXCEPT ![p][s] = Emptied(pool[p][s])]
        /\ UNCHANGED <<sequence, visit, wrapped>>
    <2>1. None \notin visit
      BY NoneIsNew DEF IInv, TypeOK
    <2> QED
      BY <2>1 DEF PickUp, IInv, TypeOK
  <1>2. Len(drops') = Len(drops)
    <2> DEFINE d == pool[p][s].drop
               gone == [drops[d] EXCEPT !.fate = "taken", !.paid = PaidOut(pool[p][s])]
    <2>1. drops' = [drops EXCEPT ![d] = gone] /\ drops \in Seq(Drop)
      BY DEF PickUp, IInv, TypeOK
    <2> HIDE DEF d, gone
    <2>2. d \in 1 .. Len(drops)
      BY SlotDrops DEF d, PickUp
    <2> QED
      BY <2>1, <2>2, LenProperties
  <1>3. ASSUME NEW q \in Pools \ wrapped, q # p
        PROVE  Stamped(q)'
    <2>1. pool'[q] = pool[q] /\ sequence'[q] = sequence[q] /\ visit' = visit /\ Stamped(q)
      BY <1>1, <1>3 DEF VisitInv
    <2> QED
      BY <2>1, PoolUntouched
  <1>4. ASSUME p \notin wrapped
        PROVE  Stamped(p)'
    <2>1. /\ pool'[p][s] = Emptied(pool[p][s]) /\ pool[p][s] \in Live /\ Stamped(p)
          /\ \A t \in Slots \ {s} : pool'[p][t] = pool[p][t]
      BY <1>1, <1>4 DEF VisitInv
    <2>2. pool'[p][s].sequence = pool[p][s].sequence /\ pool'[p][s].drop = None
      BY <2>1 DEF Emptied, Live
    <2> QED
      BY <1>1, <2>1, <2>2, StampKept
  <1> QED
    BY <1>1, <1>2, <1>3, <1>4 DEF VisitInv

\* A floor that is entered has no stamps of this visit.
LEMMA LoadVisit ==
  ASSUME IInv, VisitInv, NEW f \in Floors, LoadFloor(f, record'), UNCHANGED <<sequence, wrapped>>,
         record' \in [Floors -> Record \cup {None}]
  PROVE  VisitInv'
  <1>1. visit' = {}
    BY DEF LoadFloor
  <1>2. ASSUME NEW p \in Pools \ wrapped, NEW s \in Slots
        PROVE  /\ pool'[p][s].sequence <= sequence[p]
               /\ pool'[p][s].drop # None => pool'[p][s].sequence = 0
    <2>1. pool[p][s] \in Live /\ pool[p][s].sequence <= sequence[p] /\ sequence[p] \in 0 .. Modulus - 1
      BY DEF IInv, TypeOK, VisitInv, Stamped
    <2>2. /\ Emptied(pool[p][s]).sequence = pool[p][s].sequence /\ Emptied(pool[p][s]).drop = None
          /\ Emptied(pool[p][s]) \in Live
      BY <2>1, SlotTypes DEF Emptied, Live
    <2>3. CASE record'[f] = None
      <3>1. pool'[p][s] = Emptied(pool[p][s])
        BY <2>3 DEF LoadFloor
      <3> QED
        BY <2>1, <2>2, <3>1
    <2>4. CASE record'[f] # None
      <3>1. pool'[p][s] = Unstow(Emptied(pool[p][s]), record'[f][p][s])
        BY <2>4 DEF LoadFloor
      <3>2. pool'[p][s].sequence = 0
        BY <2>2, <3>1 DEF Unstow, Live
      <3> QED
        BY <2>1, <3>2, Constants
    <2> QED
      BY <2>3, <2>4
  <1> QED
    BY <1>1, <1>2 DEF VisitInv, Stamped

\* A session begins with no stamps at all.
LEMMA BlankVisit ==
  ASSUME pool = [p \in Pools |-> [s \in Slots |-> Blank(SwordCell)]],
         sequence = [p \in Pools |-> 0], visit = {}
  PROVE  VisitInv
  BY DEF VisitInv, Stamped, Blank

LEMMA NextVisit == ASSUME IInv, VisitInv, [Next]_vars PROVE VisitInv'
  <1>1. CASE UNCHANGED vars \/ UseSavePoint
    <2>1. UNCHANGED <<pool, sequence, drops, visit, wrapped>>
      BY <1>1 DEF vars, UseSavePoint
    <2> QED
      BY <2>1 DEF VisitInv, Stamped
  <1>2. ASSUME NEW f \in Floors, ChangeFloor(f)
        PROVE  VisitInv'
    <2>1. Persisted \in [Floors -> Record \cup {None}]
      BY PersistKeepsGround DEF IInv
    <2> QED
      BY <1>2, <2>1, LoadVisit DEF ChangeFloor
  <1>3. CASE LoadGame
    <2>1. saved.floor \in Floors /\ saved.record \in [Floors -> Record \cup {None}]
      BY <1>3 DEF LoadGame, IInv, TypeOK, Snapshot
    <2> QED
      BY <1>3, <2>1, LoadVisit DEF LoadGame
  <1>4. CASE NewGameAfterDeath
    <2>1. [f \in Floors |-> None] \in [Floors -> Record \cup {None}]
      OBVIOUS
    <2> QED
      BY <1>4, <2>1, LoadVisit, Constants DEF NewGameAfterDeath
  <1>5. CASE NewSession
    BY <1>5 DEF NewSession, VisitInv, Stamped, Blank
  <1> QED
    BY <1>1, <1>2, <1>3, <1>4, <1>5, SpawnVisit, SwordVisit, PickUpVisit DEF Next

\* What the step may take away while the sequence of the pool has not wrapped.
OldestFirst ==
  \A p \in Pools \ wrapped, d, e \in 1 .. Len(drops) :
     GivesWay(p, d, e) /\ d \in visit =>
         /\ e \in visit => d < e
         /\ e \notin visit /\ drops[e].made.id # Sword =>
                \E s \in Slots : pool[p][s].drop = d /\ pool[p][s].sequence = 0

LEMMA OldestGives == ASSUME IInv, VisitInv PROVE OldestFirst
  <1> SUFFICES ASSUME NEW p \in Pools \ wrapped, NEW d \in 1 .. Len(drops), NEW e \in 1 .. Len(drops),
                      GivesWay(p, d, e), d \in visit
               PROVE  /\ e \in visit => d < e
                      /\ e \notin visit /\ drops[e].made.id # Sword =>
                             \E s \in Slots : pool[p][s].drop = d /\ pool[p][s].sequence = 0
    BY DEF OldestFirst
  <1>1. PICK s \in Slots, t \in Slots : /\ pool[p][s].drop = d /\ pool'[p][s].drop # d
                                        /\ pool[p][t].drop = e /\ pool'[p][t].drop = e
    BY DEF GivesWay
  <1>2. /\ pool \in [Pools -> [Slots -> Live]] /\ Len(drops) \in Nat /\ Stamped(p)
        /\ pool[p][s] \in Live /\ pool[p][t] \in Live /\ sequence[p] \in 0 .. Modulus - 1
        /\ d # None /\ e # None /\ d \in Nat /\ e \in Nat
    <2>1. Len(drops) \in Nat
      BY LenProperties DEF IInv, TypeOK
    <2> QED
      BY <2>1, IndexIsDrop DEF IInv, TypeOK, VisitInv
  <1>3. s = Acquired(p)
    <2>1. CASE LaySword
      BY <1>1, <1>2, <2>1 DEF LaySword
    <2>2. CASE \E made \in Contents : Spawn(p, made)
      BY <1>1, <1>2, <2>2 DEF Spawn
    <2> QED
      BY <2>1, <2>2 DEF GivesWay
  <1>4. \A q \in Slots : Age(p, q) <= Age(p, s)
    <2>1. s \notin Free(p)
      BY <1>1, <1>2, SlotDrops DEF Free
    <2>2. s # None
      BY Constants
    <2> QED
      BY <1>3, <2>1, <2>2, AcquiredIsSlot DEF IInv
  <1>5. \A q \in {s, t} : pool[p][q].sequence \in Nat /\ Age(p, q) = sequence[p] - pool[p][q].sequence
    <2> SUFFICES ASSUME NEW q \in {s, t}
                 PROVE  pool[p][q].sequence \in Nat /\ Age(p, q) = sequence[p] - pool[p][q].sequence
      OBVIOUS
    <2>1. pool[p][q].sequence \in 0 .. Modulus - 1 /\ pool[p][q].sequence <= sequence[p]
      BY <1>2 DEF Live, Stamped
    <2>2. sequence[p] - pool[p][q].sequence \in 0 .. Modulus - 1
      BY <1>2, <2>1, Constants
    <2>3. \A n \in 0 .. Modulus - 1 : n % Modulus = n
      BY Constants
    <2> QED
      BY <2>1, <2>2, <2>3 DEF Age
  <1>6. pool[p][s].sequence <= pool[p][t].sequence
    BY <1>2, <1>4, <1>5
  <1>7. ASSUME e \in visit
        PROVE  d < e
    <2>1. d # e
      BY <1>1, <1>2, OneSlot
    <2>2. ~(e < d)
      BY <1>1, <1>2, <1>5, <1>6, <1>7 DEF Stamped
    <2> QED
      BY <1>2, <2>1, <2>2
  <1>8. ASSUME e \notin visit, drops[e].made.id # Sword
        PROVE  pool[p][s].drop = d /\ pool[p][s].sequence = 0
    <2>1. pool[p][t].sequence = 0
      BY <1>1, <1>2, <1>8, SlotDrops DEF Stamped
    <2> QED
      BY <1>1, <1>5, <1>6, <2>1
  <1> QED
    BY <1>7, <1>8

\* In a full pool the oldest drop of the visit gives way first, and only the session's first
\* stamp is taken for that of a restored drop, for every capacity and width of the stamps.
THEOREM OldestDropGivesWay == Spec => OldestOfVisitGivesWay
  <1>1. Init => IInv /\ VisitInv
    BY InitInv, BlankVisit DEF Init
  <1>2. IInv /\ [Next]_vars => IInv'
    BY NextInv
  <1>3. IInv /\ VisitInv /\ [Next]_vars => VisitInv'
    BY NextVisit
  <1>4. IInv /\ VisitInv => OldestFirst
    BY OldestGives
  <1> QED
    BY <1>1, <1>2, <1>3, <1>4, PTL DEF Spec, OldestOfVisitGivesWay, OldestFirst

=============================================================================
