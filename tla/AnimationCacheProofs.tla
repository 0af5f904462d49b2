------------------------ MODULE AnimationCacheProofs ------------------------
(***************************************************************************)
(* Safety of the animated-instance cache for any number of records,        *)
(* owners, assets and heap blocks, and any contents of the uninitialized   *)
(* register.  CacheInv is shown inductive; the properties follow from it.  *)
(***************************************************************************)
EXTENDS AnimationCache, WellFoundedInduction, TLAPS

\* The operations on the pool in terms of what they leave of it: a step that frees the
\* records rs, keeps the other occupied ones and clears the pointers of the owners of rs
\* preserves the agreement of pointers, records and heap.
Frees(rs) ==
    /\ rs \subseteq Occupied
    /\ \A r \in Records : r \in rs \/ r \notin Occupied =>
         record'[r].state = "free" /\ record'[r].block = None
    /\ \A r \in Occupied \ rs : record'[r] = record[r]
    /\ \A o \in Owners : slot'[o] = IF \E r \in rs : record[r].owner = o THEN None ELSE slot[o]
    /\ heap' = heap \ {record[r].block : r \in rs}

\* Constants: None is no element of the other sets; the operators of the pool are typed.
LEMMA NoneIsNew ==
    /\ None \notin Records /\ None \notin Owners /\ None \notin Assets
    /\ None \notin Models /\ None \notin Clips /\ None \notin Blocks /\ None \notin Nat
    /\ Weapon \in Owners /\ WeaponAsset \in Assets /\ WeaponAsset \notin FloorAssets
    /\ None \notin Incoming
  <1>1. None \notin Nat /\ \A n \in 0 .. IndexModulus - 1 : n \in Nat
    BY CacheAssumption DEF CacheAssumption
  <1>2. None \notin Incoming
    BY <1>1, CacheAssumption DEF CacheAssumption
  <1> QED
    BY <1>2, CacheAssumption DEF CacheAssumption

\* The kept index of a keyframe is one the record may hold; counting from one register
\* value, two keyframes have different indices.
LEMMA IndexType ==
  ASSUME NEW s \in Incoming, NEW k \in Keyframes
  PROVE  /\ Index(s, k) \in Indices
         /\ \A j \in Keyframes : Index(s, j) = Index(s, k) => j = k
  <1>1. /\ IndexModulus \in Nat /\ s \in 0 .. IndexModulus - 1 /\ k \in 0 .. IndexModulus - 1
        /\ \A j \in Keyframes : j \in 0 .. IndexModulus - 1
    BY CacheAssumption DEF CacheAssumption
  <1> QED
    BY <1>1 DEF Index, Indices

\* Freed, Forgotten, Claim and Morphed yield records.
LEMMA RecordTypes ==
  ASSUME NEW r \in Record
  PROVE  /\ Released(r) \in Record
         /\ [r EXCEPT !.state = "stale"] \in Record
         /\ \A o \in Owners, a \in Assets : Claim(Forgotten(r), o, a) \in Record
         /\ \A b \in Blocks, m \in Models : [r EXCEPT !.block = b, !.sized = m] \in Record
         /\ \A pose \in Poses, s5 \in Incoming : Morphed(r, pose, s5) \in Record
  <1>1. Released(r) \in Record
    BY DEF Record, Released
  <1>2. [r EXCEPT !.state = "stale"] \in Record
    BY DEF Record
  <1>3. \A o \in Owners, a \in Assets : Claim(Forgotten(r), o, a) \in Record
    BY DEF Record, Claim, Forgotten
  <1>4. \A b \in Blocks, m \in Models : [r EXCEPT !.block = b, !.sized = m] \in Record
    BY DEF Record
  <1>5. ASSUME NEW pose \in Poses, NEW s5 \in Incoming
        PROVE  Morphed(r, pose, s5) \in Record
    <2>1. pose.clip \in Clips /\ Index(s5, pose.keyframe) \in Indices
      BY IndexType DEF Poses
    <2> QED
      BY <2>1 DEF Record, Morphed
  <1> QED
    BY <1>1, <1>2, <1>3, <1>4, <1>5

\* Releasing a set of records keeps the types of pool, pointers and heap.
LEMMA ReleaseTypes ==
  ASSUME TypeOK, NEW rs \in SUBSET Records
  PROVE  /\ Freed(rs) \in [Records -> Record]
         /\ \A slots \in [Owners -> Records \cup {None}] :
              SlotsWithout(slots, rs) \in [Owners -> Records \cup {None}]
         /\ HeapWithout(rs) \subseteq Blocks
  <1>1. \A r \in Records : record[r] \in Record
    BY DEF TypeOK
  <1>2. Freed(rs) \in [Records -> Record]
    BY <1>1, RecordTypes DEF Freed
  <1> QED
    BY <1>2 DEF TypeOK, SlotsWithout, HeapWithout

\* The first free record is one.
LEMMA FirstFreeIsFree ==
  ASSUME FreeRecords # {}
  PROVE  FirstFree \in Records /\ FirstFree \notin Occupied
  <1> DEFINE Less == OpToRel(<, Nat)
  <1>1. IsWellFoundedOn(Less, Nat)
    BY NatLessThanWellFounded
  <1>2. FreeRecords \subseteq Nat
    BY CacheAssumption DEF CacheAssumption, FreeRecords
  <1>3. \A x, y \in Nat : ~(<<y, x>> \in Less) => x <= y
    BY DEF OpToRel
  <1> HIDE DEF Less
  <1>4. PICK x \in FreeRecords : \A y \in FreeRecords : ~(<<y, x>> \in Less)
    BY <1>1, <1>2, WFMin
  <1>5. \A y \in FreeRecords : x <= y
    BY <1>2, <1>3, <1>4
  <1>6. FirstFree \in FreeRecords
    BY <1>5 DEF FirstFree
  <1> QED
    BY <1>6 DEF FreeRecords

\* What freeing some of the occupied records leaves: exactly the others, each with its
\* array and, unless it had lost it before, its owner's pointer.
LEMMA FreeingKeepsAgreement ==
  ASSUME CacheInv, NEW rs, Frees(rs)
  PROVE  /\ Occupied' = Occupied \ rs
         /\ HeapAccounted'
         /\ \A o \in Owners : slot'[o] # None =>
              slot'[o] = slot[o] /\ slot[o] \in Occupied \ rs /\ record'[slot[o]] = record[slot[o]]
         /\ \A o \in Owners : slot[o] \in rs => slot'[o] = None
         /\ \A o \in Owners : slot[o] \in Occupied \ rs => slot'[o] = slot[o]
  <1>1. Occupied' = Occupied \ rs
    BY DEF Frees, Occupied
  <1>2. \A o \in Owners : slot[o] # None =>
          slot[o] \in Occupied /\ record[slot[o]].owner = o
    BY DEF CacheInv, TypeOK, OwnersAgree, Occupied
  <1>3. \A o \in Owners : slot[o] \in rs => slot'[o] = None
    BY <1>2, NoneIsNew DEF Frees, Occupied
  <1>4. ASSUME NEW o \in Owners, slot[o] \in Occupied \ rs
        PROVE  slot'[o] = slot[o]
    <2>1. slot[o] # None
      BY <1>4, NoneIsNew DEF Occupied
    <2>2. ASSUME NEW q \in rs, record[q].owner = o
          PROVE  FALSE
      <3>1. q \in Occupied
        BY DEF Frees
      <3>2. slot[record[q].owner] = q
        BY <2>1, <2>2, <3>1 DEF CacheInv, OccupiedAreOwned
      <3> QED
        BY <1>4, <2>2, <3>2
    <2> QED
      BY <2>2 DEF Frees
  <1>5. ASSUME NEW o \in Owners, slot'[o] # None
        PROVE  slot'[o] = slot[o] /\ slot[o] \in Occupied \ rs /\ record'[slot[o]] = record[slot[o]]
    <2>1. slot'[o] = slot[o]
      BY <1>5 DEF Frees
    <2>2. slot[o] \in Occupied \ rs
      BY <1>2, <1>3, <1>5, <2>1
    <2> QED
      BY <2>1, <2>2 DEF Frees
  <1>6. HeapAccounted'
    <2>1. \A r \in Occupied \ rs : record'[r].block = record[r].block
      BY DEF Frees
    <2>2. heap' = {record'[r].block : r \in Occupied \ rs}
      BY <2>1 DEF Frees, CacheInv, HeapAccounted
    <2>3. \A r \in Records : (record'[r].block = None) <=> r \notin Occupied \ rs
      BY <2>1 DEF Frees, CacheInv, HeapAccounted
    <2>4. \A r, q \in Occupied \ rs : record'[r].block = record'[q].block => r = q
      BY <2>1 DEF Frees, CacheInv, HeapAccounted
    <2> QED
      BY <1>1, <2>2, <2>3, <2>4 DEF HeapAccounted
  <1> QED
    BY <1>1, <1>3, <1>4, <1>5, <1>6

\* Freeing keeps every invariant of reachable records, whatever the frame does next.
LEMMA FreeingKeepsRecords ==
  ASSUME CacheInv, NEW rs, Frees(rs), loaded' = loaded
  PROVE  OwnersAgree' /\ RecordsMatchLoadedAssets' /\ RecordedPose'
  <1>1. \A o \in Owners : slot'[o] # None =>
          slot'[o] = slot[o] /\ slot[o] \in Occupied \ rs /\ record'[slot'[o]] = record[slot[o]]
    BY FreeingKeepsAgreement
  <1>2. \A o \in Owners : slot'[o] # None =>
          record'[slot'[o]].block \in heap'
    BY <1>1, FreeingKeepsAgreement DEF HeapAccounted
  <1>3. OwnersAgree'
    BY <1>1, <1>2 DEF CacheInv, OwnersAgree, Occupied
  <1>4. RecordsMatchLoadedAssets'
    BY <1>1 DEF CacheInv, RecordsMatchLoadedAssets
  <1>5. RecordedPose'
    BY <1>1 DEF CacheInv, RecordedPose
  <1> QED
    BY <1>3, <1>4, <1>5

\* Once every occupied record is freed no pointer and no array is left.
LEMMA FreeingEverything ==
  ASSUME CacheInv, Frees(Occupied)
  PROVE  /\ \A o \in Owners : slot'[o] = None
         /\ heap' = {} /\ Occupied' = {}
         /\ HeapAccounted' /\ OwnersAgree' /\ OccupiedAreOwned'
         /\ RecordsMatchLoadedAssets' /\ RecordedPose'
  <1>1. Occupied' = {} /\ HeapAccounted' /\ \A o \in Owners : slot'[o] = None
    BY FreeingKeepsAgreement
  <1> QED
    BY <1>1 DEF HeapAccounted, OwnersAgree, OccupiedAreOwned, RecordsMatchLoadedAssets, RecordedPose

\* The operators of the pool free records in this sense.
LEMMA ReleaseFrees ==
  ASSUME CacheInv, NEW rs, rs \subseteq Occupied,
         record' = Freed(rs), slot' = SlotsWithout(slot, rs), heap' = HeapWithout(rs)
  PROVE  Frees(rs)
  <1>1. \A r \in Records : r \notin Occupied => record[r].block = None /\ record[r].state = "free"
    BY DEF CacheInv, HeapAccounted, Occupied
  <1>2. \A r \in Records : r \in rs \/ r \notin Occupied =>
          record'[r].state = "free" /\ record'[r].block = None
    BY <1>1 DEF Freed, Released, CacheInv, TypeOK, Record
  <1>3. \A r \in Occupied \ rs : record'[r] = record[r]
    BY DEF Freed, Occupied
  <1> QED
    BY <1>2, <1>3 DEF Frees, SlotsWithout, HeapWithout

-----------------------------------------------------------------------------
\* Types.

LEMMA InitialTypes == Init => TypeOK
  <1>1. BlankRecord \in Record
    BY DEF BlankRecord, Record
  <1> QED
    BY <1>1 DEF Init, TypeOK

LEMMA AskedType ==
  ASSUME TypeOK, NEW a \in Assets, NEW c \in Clips, NEW k \in Keyframes
  PROVE  Asked(a, c, k) \in Poses
  BY DEF TypeOK, Asked, Poses

\* Presenting a record of a typed pool.
LEMMA PresentTypes ==
  ASSUME NEW base \in [Records -> Record], NEW r \in Records, NEW pose \in Poses,
         NEW s5 \in Incoming, Present(base, r, pose, s5)
  PROVE  /\ record' \in [Records -> Record]
         /\ pc' = "draw" /\ call' = None
         /\ shown' \in Views
  <1> DEFINE bound == Morphed(base[r], pose, s5)
  <1>1. bound \in Record
    BY RecordTypes
  <1>2. bound.image \in Poses \cup {None} /\ bound.morphed \in Incoming \cup {None}
    BY <1>1 DEF Record
  <1>3. /\ record' = [base EXCEPT ![r] = bound] /\ pc' = "draw" /\ call' = None
        /\ shown' = [asked |-> pose, got |-> bound.image, s5 |-> s5, morphed |-> bound.morphed]
    BY DEF Present
  <1> HIDE DEF bound
  <1> QED
    BY <1>1, <1>2, <1>3 DEF Views

LEMMA StepTypes ==
  ASSUME TypeOK, PendingIsFree, [Next]_vars
  PROVE  TypeOK'
  <1> USE DEF TypeOK
  <1>1. CASE BeginFrame
    <2>1. \A r \in Records : [record[r] EXCEPT !.state = "stale"] \in Record
      BY RecordTypes
    <2> QED
      BY <1>1, <2>1 DEF BeginFrame
  <1>2. CASE EndFrame
    <2> DEFINE unused == {r \in Records : record[r].state = "stale"}
    <2>1. /\ Freed(unused) \in [Records -> Record]
          /\ SlotsWithout(slot, unused) \in [Owners -> Records \cup {None}]
          /\ HeapWithout(unused) \subseteq Blocks
      <3>1. unused \in SUBSET Records
        OBVIOUS
      <3> QED
        BY <3>1, ReleaseTypes
    <2> QED
      BY <1>2, <2>1 DEF EndFrame
  <1>3. CASE ArrayAllocated
    <2>1. call \in Calls
      BY <1>3 DEF ArrayAllocated, PendingIsFree
    <2>2. PICK b \in Blocks \ heap :
            /\ heap' = heap \cup {b}
            /\ Present([record EXCEPT ![call.record].block = b,
                                      ![call.record].sized = call.pose.model],
                       call.record, call.pose, call.s5)
      BY <1>3 DEF ArrayAllocated
    <2>3. call.record \in Records /\ call.pose \in Poses /\ call.s5 \in Incoming
          /\ call.owner \in Owners /\ call.pose.model \in Models
      BY <2>1 DEF Calls, Poses
    <2>4. [record EXCEPT ![call.record].block = b,
                         ![call.record].sized = call.pose.model] \in [Records -> Record]
      <3>1. [record[call.record] EXCEPT !.block = b, !.sized = call.pose.model] \in Record
        BY <2>3, RecordTypes
      <3> QED
        BY <2>3, <3>1
    <2>5. /\ record' \in [Records -> Record]
          /\ pc' = "draw" /\ call' = None
          /\ shown' \in Views
      BY <2>2, <2>3, <2>4, PresentTypes
    <2> QED
      BY <1>3, <2>2, <2>3, <2>5 DEF ArrayAllocated
  <1>4. Occupied \in SUBSET Records
    BY DEF Occupied
  <1>5. /\ Freed(Occupied) \in [Records -> Record]
        /\ \A slots \in [Owners -> Records \cup {None}] :
             SlotsWithout(slots, Occupied) \in [Owners -> Records \cup {None}]
        /\ HeapWithout(Occupied) \subseteq Blocks
    BY <1>4, ReleaseTypes
  <1>6. \A slots \in [Owners -> Records \cup {None}] :
          EquipPointer(slots) \in [Owners -> Records \cup {None}]
    BY DEF EquipPointer
  <1>7. \A phase : EquipPhase(phase) \in BOOLEAN
    BY DEF EquipPhase
  <1>8. \A models \in [FloorAssets -> Models] :
          /\ OnFloor(models) \in [Assets -> Models]
          /\ \A model \in Models : [OnFloor(models) EXCEPT ![WeaponAsset] = model] \in [Assets -> Models]
    BY DEF OnFloor
  <1>9. CASE ArrayRefused
    BY <1>5, <1>9 DEF ArrayRefused, ReleaseAll
  <1>10. CASE BeginAttack \/ EndAttack
    BY <1>10 DEF BeginAttack, EndAttack
  <1>11. CASE TakeWeapon
    BY <1>6, <1>7, <1>11 DEF TakeWeapon
  <1>12. CASE EnterMenu
    BY <1>5, <1>12 DEF EnterMenu
  <1>13. ASSUME NEW o \in Owners, NEW a \in Assets, BindStatic(o, a)
         PROVE  TypeOK'
    <2> DEFINE held == {slot[o]} \ {None}
    <2>1. held \in SUBSET Records
      OBVIOUS
    <2>2. /\ Freed(held) \in [Records -> Record]
          /\ SlotsWithout(slot, held) \in [Owners -> Records \cup {None}]
          /\ HeapWithout(held) \subseteq Blocks
      BY <2>1, ReleaseTypes
    <2> HIDE DEF held
    <2>3. record' = Freed(held) /\ slot' = SlotsWithout(slot, held) /\ heap' = HeapWithout(held)
      BY <1>13 DEF BindStatic, held
    <2> QED
      BY <1>13, <2>2, <2>3 DEF BindStatic
  <1>14. ASSUME NEW o \in Owners, NEW a \in Assets, BindExhausted(o, a)
         PROVE  TypeOK'
    BY <1>14 DEF BindExhausted
  <1>15. ASSUME NEW o \in Owners, NEW a \in Assets, NEW c \in Clips, NEW k \in Keyframes,
                NEW s5 \in Incoming, BindNew(o, a, c, k, s5)
         PROVE  TypeOK'
    <2>1. FirstFree \in Records
      BY <1>15, FirstFreeIsFree DEF BindNew
    <2>2. Claim(Forgotten(record[FirstFree]), o, a) \in Record
      BY <2>1, RecordTypes
    <2>3. [record EXCEPT ![FirstFree] = Claim(Forgotten(@), o, a)] \in [Records -> Record]
      BY <2>1, <2>2
    <2> QED
      BY <1>15, <2>1, <2>3, AskedType DEF BindNew, WaitForArray, Calls
  <1>16. ASSUME NEW o \in Owners, NEW a \in Assets, NEW c \in Clips, NEW k \in Keyframes,
                NEW s5 \in Incoming, BindOtherAsset(o, a, c, k, s5)
         PROVE  TypeOK'
    <2>1. slot[o] \in Records /\ {slot[o]} \in SUBSET Records
      BY <1>16 DEF BindOtherAsset
    <2>2. /\ Freed({slot[o]}) \in [Records -> Record]
          /\ SlotsWithout(slot, {slot[o]}) \in [Owners -> Records \cup {None}]
          /\ HeapWithout({slot[o]}) \subseteq Blocks
      BY <2>1, ReleaseTypes
    <2>3. Claim(Forgotten(Freed({slot[o]})[slot[o]]), o, a) \in Record
      BY <2>1, <2>2, RecordTypes
    <2>4. [Freed({slot[o]}) EXCEPT ![slot[o]] = Claim(Forgotten(@), o, a)] \in [Records -> Record]
      BY <2>1, <2>2, <2>3
    <2> QED
      BY <1>16, <2>1, <2>2, <2>4, AskedType DEF BindOtherAsset, WaitForArray, Calls
  <1>17. ASSUME NEW o \in Owners, NEW a \in Assets, NEW c \in Clips, NEW k \in Keyframes,
                NEW s5 \in Incoming, BindSameAsset(o, a, c, k, s5)
         PROVE  TypeOK'
    <2>1. slot[o] \in Records
      BY <1>17 DEF BindSameAsset
    <2>2. /\ record' \in [Records -> Record]
          /\ pc' = "draw" /\ call' = None
          /\ shown' \in Views
      BY <1>17, <2>1, AskedType, PresentTypes DEF BindSameAsset
    <2> QED
      BY <1>17, <2>2 DEF BindSameAsset
  <1>18. ASSUME NEW model \in Models, EquipInMenu(model)
         PROVE  TypeOK'
    BY <1>5, <1>6, <1>7, <1>18 DEF EquipInMenu
  <1>19. ASSUME NEW models \in [FloorAssets -> Models], LoadFloor(models)
         PROVE  TypeOK'
    <2>1. SlotsWithout(slot, Occupied) \in [Owners -> Records \cup {None}]
      BY <1>5
    <2> QED
      BY <1>5, <1>8, <1>19, <2>1 DEF LoadFloor, ReleasedForLoad
  <1>20. ASSUME NEW models \in [FloorAssets -> Models], NEW model \in Models, LoadGame(models, model)
         PROVE  TypeOK'
    BY <1>5, <1>6, <1>7, <1>8, <1>20 DEF LoadGame
  <1>21. ASSUME NEW models \in [FloorAssets -> Models], NEW model \in Models, RestartGame(models, model)
         PROVE  TypeOK'
    BY <1>5, <1>6, <1>7, <1>8, <1>21 DEF RestartGame, ReleasedForLoad
  <1>22. CASE UNCHANGED vars
    BY <1>22 DEF vars
  <1> QED
    BY <1>1, <1>2, <1>3, <1>9, <1>10, <1>11, <1>12, <1>13, <1>14, <1>15, <1>16, <1>17, <1>18,
       <1>19, <1>20, <1>21, <1>22 DEF Next

-----------------------------------------------------------------------------
\* The inductive step, one lemma for each kind of action.

\* Releasing every record, as the pool's operators do it.
LEMMA ReleasedAll ==
  ASSUME CacheInv
  PROVE  /\ \A o \in Owners : SlotsWithout(slot, Occupied)[o] = None
         /\ \A o \in Owners : EquipPointer(SlotsWithout(slot, Occupied))[o] = None
         /\ \A o \in Owners : SlotsWithout(EquipPointer(slot), Occupied)[o] = None
         /\ HeapWithout(Occupied) = {}
  <1>1. \A o \in Owners : slot[o] # None => \E r \in Occupied : record[r].owner = o
    BY DEF CacheInv, TypeOK, OwnersAgree, Occupied
  <1>2. \A o \in Owners : SlotsWithout(slot, Occupied)[o] = None
    BY <1>1 DEF SlotsWithout
  <1>3. \A o \in Owners : EquipPointer(slot)[o] # None => slot[o] # None
    BY DEF EquipPointer, CacheInv, TypeOK
  <1>4. \A o \in Owners : SlotsWithout(EquipPointer(slot), Occupied)[o] = None
    BY <1>1, <1>3 DEF SlotsWithout
  <1>5. \A o \in Owners : EquipPointer(SlotsWithout(slot, Occupied))[o] = None
    BY <1>2 DEF EquipPointer, SlotsWithout
  <1> QED
    BY <1>2, <1>4, <1>5 DEF HeapWithout, CacheInv, HeapAccounted

LEMMA ReleasedAllFrees ==
  ASSUME CacheInv, record' = Freed(Occupied), heap' = {}, \A o \in Owners : slot'[o] = None
  PROVE  Frees(Occupied)
  <1>1. \A r \in Records : r \notin Occupied => record[r].block = None /\ record[r].state = "free"
    BY DEF CacheInv, HeapAccounted, Occupied
  <1>2. \A r \in Records : r \in Occupied \/ r \notin Occupied =>
          record'[r].state = "free" /\ record'[r].block = None
    BY <1>1 DEF Freed, Released, CacheInv, TypeOK, Record
  <1>3. \A o \in Owners : slot[o] # None => \E r \in Occupied : record[r].owner = o
    BY DEF CacheInv, TypeOK, OwnersAgree, Occupied
  <1>4. heap \ {record[r].block : r \in Occupied} = {}
    BY DEF CacheInv, HeapAccounted
  <1> QED
    BY <1>2, <1>3, <1>4 DEF Frees

\* Menus, loads and restarts release every record between two frames.
LEMMA ReleasingSteps ==
  ASSUME CacheInv, TypeOK',
         \/ EnterMenu
         \/ \E model \in Models : EquipInMenu(model)
         \/ \E models \in [FloorAssets -> Models] :
              \/ LoadFloor(models)
              \/ \E model \in Models : LoadGame(models, model) \/ RestartGame(models, model)
  PROVE  CacheInv'
  <1>1. /\ \A o \in Owners : SlotsWithout(slot, Occupied)[o] = None
        /\ \A o \in Owners : EquipPointer(SlotsWithout(slot, Occupied))[o] = None
        /\ \A o \in Owners : SlotsWithout(EquipPointer(slot), Occupied)[o] = None
        /\ HeapWithout(Occupied) = {}
    BY ReleasedAll
  <1>2. record' = Freed(Occupied) /\ heap' = {} /\ \A o \in Owners : slot'[o] = None
    BY <1>1 DEF EnterMenu, EquipInMenu, LoadFloor, LoadGame, RestartGame, ReleasedForLoad
  <1>3. pc' = "update"
    BY DEF EnterMenu, EquipInMenu, LoadFloor, LoadGame, RestartGame
  <1>4. Frees(Occupied)
    BY <1>2, ReleasedAllFrees
  <1> QED
    BY <1>3, <1>4, FreeingEverything DEF CacheInv, LiveAreDrawn, PendingIsFree

LEMMA RefusedStep ==
  ASSUME CacheInv, TypeOK', ArrayRefused
  PROVE  CacheInv'
  <1>1. record' = Freed(Occupied) /\ heap' = {} /\ \A o \in Owners : slot'[o] = None
    BY ReleasedAll DEF ArrayRefused, ReleaseAll
  <1>2. Frees(Occupied)
    BY <1>1, ReleasedAllFrees
  <1>3. Occupied' = {} /\ HeapAccounted' /\ OwnersAgree' /\ OccupiedAreOwned'
        /\ RecordsMatchLoadedAssets' /\ RecordedPose'
    BY <1>2, FreeingEverything
  <1>4. LiveAreDrawn'
    BY <1>1 DEF ArrayRefused, CacheInv, LiveAreDrawn
  <1>5. PendingIsFree'
    <2>1. /\ pc = "malloc" /\ pc' = pc /\ call' = call /\ drawn' = drawn /\ loaded' = loaded
      BY DEF ArrayRefused
    <2>2. call \in Calls /\ call.record \in Records /\ call.owner \in Owners
      BY <2>1 DEF CacheInv, PendingIsFree, TypeOK, Calls
    <2>3. record'[call.record] = record[call.record]
      BY <1>1, <2>1, <2>2 DEF Freed, CacheInv, PendingIsFree
    <2> QED
      BY <1>1, <1>3, <2>1, <2>2, <2>3 DEF CacheInv, PendingIsFree
  <1> QED
    BY <1>3, <1>4, <1>5 DEF CacheInv

\* Steps that leave pool, pointers and heap alone, or only drop the weapon's pointer.
LEMMA AttackSteps ==
  ASSUME CacheInv, TypeOK', BeginAttack \/ EndAttack
  PROVE  CacheInv'
  <1> USE DEF BeginAttack, EndAttack
  <1>1. pc = "update" /\ pc' = "update" /\ UNCHANGED <<record, slot, heap, loaded>>
    OBVIOUS
  <1>2. HeapAccounted' /\ OwnersAgree' /\ RecordsMatchLoadedAssets' /\ RecordedPose'
    BY <1>1 DEF CacheInv, HeapAccounted, OwnersAgree, RecordsMatchLoadedAssets, RecordedPose, Occupied
  <1>3. OccupiedAreOwned'
    BY <1>1 DEF CacheInv, OccupiedAreOwned, Occupied
  <1> QED
    BY <1>1, <1>2, <1>3 DEF CacheInv, LiveAreDrawn, PendingIsFree

LEMMA TakeWeaponStep ==
  ASSUME CacheInv, TypeOK', TakeWeapon
  PROVE  CacheInv'
  <1>1. /\ pc = "update" /\ pc' = "cutscene" /\ swinging' = FALSE
        /\ UNCHANGED <<record, heap, loaded>>
        /\ slot' = [slot EXCEPT ![Weapon] = None]
    BY DEF TakeWeapon, EquipPointer, EquipPhase
  <1>2. \A o \in Owners : slot'[o] # None => slot'[o] = slot[o]
    BY <1>1 DEF CacheInv, TypeOK
  <1>3. OwnersAgree' /\ RecordsMatchLoadedAssets' /\ RecordedPose'
    BY <1>1, <1>2 DEF CacheInv, OwnersAgree, RecordsMatchLoadedAssets, RecordedPose
  <1>4. HeapAccounted'
    BY <1>1 DEF CacheInv, HeapAccounted, Occupied
  <1>5. OccupiedAreOwned'
    BY <1>1, NoneIsNew DEF CacheInv, TypeOK, OccupiedAreOwned, Occupied
  <1> QED
    BY <1>1, <1>3, <1>4, <1>5 DEF CacheInv, LiveAreDrawn, PendingIsFree

LEMMA ExhaustedStep ==
  ASSUME CacheInv, TypeOK', NEW o \in Owners, NEW a \in Assets, BindExhausted(o, a)
  PROVE  CacheInv'
  <1>1. /\ pc = "draw" /\ slot[o] = None /\ (o = Weapon => swinging)
        /\ drawn' = drawn \cup {o}
        /\ UNCHANGED <<record, slot, heap, loaded, swinging, pc, call>>
    BY DEF BindExhausted, MayBind
  <1>2. HeapAccounted' /\ OwnersAgree' /\ RecordsMatchLoadedAssets' /\ RecordedPose' /\ OccupiedAreOwned'
    BY <1>1 DEF CacheInv, HeapAccounted, OwnersAgree, RecordsMatchLoadedAssets, RecordedPose,
                OccupiedAreOwned, Occupied
  <1>3. LiveAreDrawn'
    BY <1>1 DEF CacheInv, LiveAreDrawn
  <1> QED
    BY <1>1, <1>2, <1>3 DEF CacheInv, PendingIsFree

LEMMA BeginFrameStep ==
  ASSUME CacheInv, TypeOK', BeginFrame
  PROVE  CacheInv'
  <1>1. /\ pc \in {"update", "cutscene"} /\ pc' = "draw" /\ drawn' = {}
        /\ UNCHANGED <<slot, heap, loaded, swinging>>
        /\ record' = [r \in Records |->
             IF r \in Occupied THEN [record[r] EXCEPT !.state = "stale"] ELSE record[r]]
    BY DEF BeginFrame
  <1>2. \A r \in Records : r \in Occupied =>
          /\ record'[r].state = "stale"
          /\ record'[r].asset = record[r].asset /\ record'[r].clip = record[r].clip
          /\ record'[r].keyframe = record[r].keyframe /\ record'[r].owner = record[r].owner
          /\ record'[r].block = record[r].block /\ record'[r].sized = record[r].sized
          /\ record'[r].image = record[r].image
    BY <1>1 DEF CacheInv, TypeOK, Record
  <1>3. \A r \in Records : r \notin Occupied => record'[r] = record[r]
    BY <1>1
  <1>4. Occupied' = Occupied
    BY <1>2, <1>3 DEF Occupied
  <1>5. \A o \in Owners : slot[o] # None => slot[o] \in Occupied /\ slot[o] \in Records
    BY DEF CacheInv, TypeOK, OwnersAgree, Occupied
  <1>6. HeapAccounted'
    <2>1. \A r \in Records : record'[r].block = record[r].block
      BY <1>2, <1>3
    <2> QED
      BY <1>1, <1>4, <2>1 DEF CacheInv, HeapAccounted, Occupied
  <1>7. OwnersAgree' /\ RecordsMatchLoadedAssets' /\ RecordedPose'
    <2>1. OwnersAgree'
      BY <1>1, <1>2, <1>5 DEF CacheInv, OwnersAgree
    <2>2. RecordsMatchLoadedAssets'
      BY <1>1, <1>2, <1>5 DEF CacheInv, RecordsMatchLoadedAssets
    <2>3. RecordedPose'
      BY <1>1, <1>2, <1>5 DEF CacheInv, RecordedPose
    <2> QED
      BY <2>1, <2>2, <2>3
  <1>8. OccupiedAreOwned'
    BY <1>1, <1>2, <1>4 DEF CacheInv, OccupiedAreOwned, Occupied
  <1>9. LiveAreDrawn'
    BY <1>1, <1>2, <1>5 DEF LiveAreDrawn
  <1> QED
    BY <1>1, <1>6, <1>7, <1>8, <1>9 DEF CacheInv, PendingIsFree

\* Within a frame, freeing leaves every kept record with its owner's pointer or orphaned.
LEMMA FreeingKeepsOwned ==
  ASSUME CacheInv, NEW rs, Frees(rs), swinging' = swinging,
         pc \in {"draw", "malloc"}, pc' \in {"draw", "malloc"}
  PROVE  OccupiedAreOwned'
  <1>1. Occupied' = Occupied \ rs /\ \A o \in Owners : slot[o] \in Occupied \ rs => slot'[o] = slot[o]
    BY FreeingKeepsAgreement
  <1>2. \A r \in Occupied \ rs : record'[r] = record[r]
    BY DEF Frees
  <1>3. \A o \in Owners : slot[o] = None => slot'[o] = None
    BY DEF Frees
  <1> QED
    BY <1>1, <1>2, <1>3, NoneIsNew DEF CacheInv, OccupiedAreOwned

LEMMA EndFrameStep ==
  ASSUME CacheInv, TypeOK', EndFrame
  PROVE  /\ CacheInv'
         /\ \A o \in Owners : slot'[o] = IF o \in drawn THEN slot[o] ELSE None
  <1> DEFINE unused == {r \in Records : record[r].state = "stale"}
  <1>1. /\ pc = "draw" /\ pc' = "update" /\ UNCHANGED <<loaded, swinging>>
        /\ record' = Freed(unused) /\ slot' = SlotsWithout(slot, unused) /\ heap' = HeapWithout(unused)
    BY DEF EndFrame
  <1>2. unused \subseteq Occupied
    BY DEF Occupied
  <1>3. \A r \in unused : r \in Records /\ record[r].state = "stale"
    OBVIOUS
  <1>4. \A r \in Occupied \ unused : record[r].state = "live"
    BY DEF CacheInv, TypeOK, Record, Occupied
  <1> HIDE DEF unused
  <1>5. Frees(unused)
    BY <1>1, <1>2, ReleaseFrees
  <1>6. /\ Occupied' = Occupied \ unused /\ HeapAccounted'
        /\ \A o \in Owners : slot[o] \in unused => slot'[o] = None
        /\ \A o \in Owners : slot[o] \in Occupied \ unused => slot'[o] = slot[o]
    BY <1>5, FreeingKeepsAgreement
  <1>7. OwnersAgree' /\ RecordsMatchLoadedAssets' /\ RecordedPose'
    BY <1>1, <1>5, FreeingKeepsRecords
  <1>8. OccupiedAreOwned'
    <2> SUFFICES ASSUME NEW r \in Occupied \ unused
                 PROVE  record'[r].owner \in Owners /\ slot'[record'[r].owner] = r
      BY <1>6 DEF OccupiedAreOwned
    <2>1. record'[r] = record[r]
      BY <1>5 DEF Frees
    <2>2. record[r].owner \in Owners /\ slot[record[r].owner] = r
      BY <1>1, <1>4 DEF CacheInv, OccupiedAreOwned
    <2> QED
      BY <1>6, <2>1, <2>2
  <1>9. CacheInv'
    BY <1>1, <1>6, <1>7, <1>8 DEF CacheInv, LiveAreDrawn, PendingIsFree
  <1>10. ASSUME NEW o \in Owners
         PROVE  slot'[o] = IF o \in drawn THEN slot[o] ELSE None
    <2>1. CASE slot[o] = None
      BY <1>5, <2>1 DEF Frees
    <2>2. CASE slot[o] # None
      <3>1. slot[o] \in Occupied /\ (record[slot[o]].state = "live" <=> o \in drawn)
        BY <1>1, <2>2 DEF CacheInv, TypeOK, OwnersAgree, Occupied, LiveAreDrawn
      <3>2. CASE o \in drawn
        BY <1>3, <1>6, <3>1, <3>2
      <3>3. CASE o \notin drawn
        <4>1. slot[o] \in unused
          BY <1>4, <3>1, <3>3
        <4> QED
          BY <1>6, <3>3, <4>1
      <3> QED
        BY <3>2, <3>3
    <2> QED
      BY <2>1, <2>2
  <1> QED
    BY <1>9, <1>10

LEMMA StaticStep ==
  ASSUME CacheInv, TypeOK', NEW o \in Owners, NEW a \in Assets, BindStatic(o, a)
  PROVE  CacheInv'
  <1> DEFINE held == {slot[o]} \ {None}
  <1>1. /\ pc = "draw" /\ pc' = "draw" /\ UNCHANGED <<loaded, swinging>>
        /\ drawn' = drawn \cup {o} /\ (o = Weapon => swinging)
        /\ record' = Freed(held) /\ slot' = SlotsWithout(slot, held) /\ heap' = HeapWithout(held)
    BY DEF BindStatic, MayBind
  <1>2. held \subseteq Occupied
    BY DEF CacheInv, TypeOK, OwnersAgree, Occupied
  <1>3. slot[o] # None => slot[o] \in held
    OBVIOUS
  <1> HIDE DEF held
  <1>4. Frees(held)
    BY <1>1, <1>2, ReleaseFrees
  <1>5. /\ HeapAccounted'
        /\ \A p \in Owners : slot'[p] # None => slot'[p] = slot[p] /\ record'[slot[p]] = record[slot[p]]
        /\ \A p \in Owners : slot[p] \in held => slot'[p] = None
    BY <1>4, FreeingKeepsAgreement
  <1>6. OwnersAgree' /\ RecordsMatchLoadedAssets' /\ RecordedPose'
    BY <1>1, <1>4, FreeingKeepsRecords
  <1>7. OccupiedAreOwned'
    BY <1>1, <1>4, FreeingKeepsOwned
  <1>8. LiveAreDrawn'
    BY <1>1, <1>3, <1>5 DEF CacheInv, LiveAreDrawn
  <1> QED
    BY <1>1, <1>5, <1>6, <1>7, <1>8 DEF CacheInv, PendingIsFree

\* A bind that must wait for an array: the record it claims is free, and no other changes.
LEMMA ClaimStep ==
  ASSUME CacheInv, TypeOK', NEW o \in Owners, NEW a \in Assets, NEW rs, NEW q \in Records, NEW pose,
         Frees(rs), MayBind(o, a), q \in rs \/ q \notin Occupied,
         slot'[o] = None, drawn' = drawn \cup {o}, UNCHANGED <<loaded, swinging>>,
         pc' = "malloc", call' # None, call'.record = q, call'.owner = o, call'.pose = pose,
         pose.model = loaded[a],
         record'[q].owner = o, record'[q].clip = None, record'[q].asset = a
  PROVE  CacheInv'
  <1>1. pc = "draw" /\ (o = Weapon => swinging)
    BY DEF MayBind
  <1>2. /\ Occupied' = Occupied \ rs /\ HeapAccounted'
        /\ \A p \in Owners : slot'[p] # None => slot'[p] = slot[p] /\ record'[slot[p]] = record[slot[p]]
    BY FreeingKeepsAgreement
  <1>3. OwnersAgree' /\ RecordsMatchLoadedAssets' /\ RecordedPose'
    BY FreeingKeepsRecords
  <1>4. OccupiedAreOwned'
    BY <1>1, FreeingKeepsOwned
  <1>5. LiveAreDrawn'
    BY <1>1, <1>2 DEF CacheInv, LiveAreDrawn
  <1>6. PendingIsFree'
    BY <1>2, NoneIsNew DEF PendingIsFree
  <1> QED
    BY <1>2, <1>3, <1>4, <1>5, <1>6 DEF CacheInv

LEMMA NewStep ==
  ASSUME CacheInv, TypeOK', NEW o \in Owners, NEW a \in Assets, NEW c \in Clips, NEW k \in Keyframes,
         NEW s5 \in Incoming, BindNew(o, a, c, k, s5)
  PROVE  CacheInv'
  <1> DEFINE q == FirstFree
             pose == Asked(a, c, k)
  <1>1. q \in Records /\ q \notin Occupied
    BY FirstFreeIsFree DEF BindNew
  <1>2. /\ MayBind(o, a) /\ slot[o] = None /\ drawn' = drawn \cup {o}
        /\ UNCHANGED <<slot, heap, loaded, swinging>> /\ pc' = "malloc"
        /\ call' = [owner |-> o, record |-> q, pose |-> pose, s5 |-> s5]
        /\ record' = [record EXCEPT ![q] = Claim(Forgotten(@), o, a)]
    BY DEF BindNew, WaitForArray
  <1>3. pose.model = loaded[a]
    BY DEF Asked
  <1> HIDE DEF q, pose
  <1>4. record[q] \in Record /\ record[q].state = "free" /\ record[q].block = None
    BY <1>1 DEF CacheInv, TypeOK, HeapAccounted, Occupied
  <1>5. record'[q] = Claim(Forgotten(record[q]), o, a)
    BY <1>1, <1>2 DEF CacheInv, TypeOK
  <1>6. /\ record'[q].state = "free" /\ record'[q].block = None /\ record'[q].owner = o
        /\ record'[q].clip = None /\ record'[q].asset = a
    BY <1>4, <1>5 DEF Claim, Forgotten, Record
  <1>7. \A r \in Records : r # q => record'[r] = record[r]
    BY <1>2 DEF CacheInv, TypeOK
  <1>8. \A r \in Records : r \notin Occupied => record[r].state = "free" /\ record[r].block = None
    BY DEF CacheInv, HeapAccounted, Occupied
  <1>9. Frees({})
    BY <1>1, <1>2, <1>6, <1>7, <1>8 DEF Frees, Occupied
  <1>10. call' # None
    <2>1. pose \in Poses
      BY AskedType DEF CacheInv, pose
    <2> QED
      BY <1>1, <1>2, <2>1, NoneAssumption DEF Calls
  <1> QED
    BY <1>1, <1>2, <1>3, <1>6, <1>9, <1>10, ClaimStep

LEMMA OtherAssetStep ==
  ASSUME CacheInv, TypeOK', NEW o \in Owners, NEW a \in Assets, NEW c \in Clips, NEW k \in Keyframes,
         NEW s5 \in Incoming, BindOtherAsset(o, a, c, k, s5)
  PROVE  CacheInv'
  <1> DEFINE q == slot[o]
             pose == Asked(a, c, k)
  <1>1. /\ MayBind(o, a) /\ q # None /\ drawn' = drawn \cup {o}
        /\ UNCHANGED <<loaded, swinging>> /\ pc' = "malloc"
        /\ slot' = SlotsWithout(slot, {q}) /\ heap' = HeapWithout({q})
        /\ call' = [owner |-> o, record |-> q, pose |-> pose, s5 |-> s5]
        /\ record' = [Freed({q}) EXCEPT ![q] = Claim(Forgotten(@), o, a)]
    BY DEF BindOtherAsset, WaitForArray
  <1>2. q \in Records /\ q \in Occupied /\ record[q].owner = o
    BY <1>1 DEF CacheInv, TypeOK, OwnersAgree, Occupied
  <1>3. pose.model = loaded[a] /\ pose \in Poses
    BY AskedType DEF Asked, CacheInv
  <1>4. slot'[o] = None
    BY <1>1, <1>2 DEF SlotsWithout
  <1> HIDE DEF q, pose
  <1>5. /\ Freed({q})[q] = Released(record[q])
        /\ record[q] \in Record
        /\ \A r \in Records : r # q => Freed({q})[r] = record[r]
    BY <1>2 DEF Freed, CacheInv, TypeOK
  <1>6. record'[q] = Claim(Forgotten(Released(record[q])), o, a)
    BY <1>1, <1>2, <1>5 DEF Freed
  <1>7. /\ record'[q].state = "free" /\ record'[q].block = None /\ record'[q].owner = o
        /\ record'[q].clip = None /\ record'[q].asset = a
    BY <1>5, <1>6 DEF Claim, Forgotten, Released, Record
  <1>8. \A r \in Records : r # q => record'[r] = record[r]
    BY <1>1, <1>5 DEF Freed
  <1>9. \A r \in Records : r \notin Occupied => record[r].state = "free" /\ record[r].block = None
    BY DEF CacheInv, HeapAccounted, Occupied
  <1>10. Frees({q})
    <2>1. \A p \in Owners : slot'[p] = IF \E r \in {q} : record[r].owner = p THEN None ELSE slot[p]
      BY <1>1 DEF SlotsWithout
    <2>2. heap' = heap \ {record[r].block : r \in {q}}
      BY <1>1 DEF HeapWithout
    <2> QED
      BY <1>2, <1>7, <1>8, <1>9, <2>1, <2>2 DEF Frees, Occupied
  <1>11. call' # None
    BY <1>1, <1>2, <1>3, NoneAssumption DEF Calls
  <1> QED
    BY <1>1, <1>2, <1>3, <1>4, <1>7, <1>10, <1>11, ClaimStep

\* What Morphed yields of a record: the asked pose, or the cached one of that clip and index.
LEMMA MorphedRecord ==
  ASSUME NEW r \in Record, NEW pose \in Poses, NEW s5 \in Incoming
  PROVE  LET m == Morphed(r, pose, s5) IN
         /\ m.state = "live" /\ m.clip = pose.clip /\ m.keyframe = Index(s5, pose.keyframe)
         /\ m.asset = r.asset /\ m.owner = r.owner /\ m.block = r.block /\ m.sized = r.sized
         /\ \/ m.image = pose /\ m.morphed = s5
            \/ /\ m.image = r.image /\ m.morphed = r.morphed
               /\ r.clip = pose.clip /\ r.keyframe = Index(s5, pose.keyframe)
  BY DEF Morphed, Record, IsCached

LEMMA SameAssetStep ==
  ASSUME CacheInv, TypeOK', NEW o \in Owners, NEW a \in Assets, NEW c \in Clips, NEW k \in Keyframes,
         NEW s5 \in Incoming, BindSameAsset(o, a, c, k, s5)
  PROVE  /\ CacheInv'
         /\ ShownPoseIsOfAskedIndex'
  <1> DEFINE q == slot[o]
             pose == Asked(a, c, k)
             new == Morphed(record[q], pose, s5)
  <1>1. /\ pc = "draw" /\ (o = Weapon => swinging) /\ q # None /\ record[q].asset = a
        /\ drawn' = drawn \cup {o} /\ pc' = "draw" /\ call' = None
        /\ UNCHANGED <<slot, heap, loaded, swinging>>
        /\ record' = [record EXCEPT ![q] = new]
        /\ shown' = [asked |-> pose, got |-> new.image, s5 |-> s5, morphed |-> new.morphed]
    BY DEF BindSameAsset, MayBind, Present
  <1>2. q \in Records /\ q \in Occupied /\ record[q].owner = o /\ record[q] \in Record
    BY <1>1 DEF CacheInv, TypeOK, OwnersAgree, Occupied
  <1>3. pose \in Poses /\ pose.model = loaded[a] /\ pose.clip = c /\ pose.keyframe = k
    BY AskedType DEF Asked, CacheInv
  <1>4. /\ new.state = "live" /\ new.clip = pose.clip /\ new.keyframe = Index(s5, pose.keyframe)
        /\ new.asset = record[q].asset /\ new.owner = record[q].owner
        /\ new.block = record[q].block /\ new.sized = record[q].sized
        /\ \/ new.image = pose /\ new.morphed = s5
           \/ /\ new.image = record[q].image /\ new.morphed = record[q].morphed
              /\ record[q].clip = pose.clip /\ record[q].keyframe = Index(s5, pose.keyframe)
    BY <1>2, <1>3, MorphedRecord
  <1>5. /\ record[q].sized = loaded[a]
        /\ record[q].image # None /\ record[q].image.model = loaded[a]
        /\ record[q].clip = record[q].image.clip /\ record[q].morphed # None
        /\ record[q].keyframe = Index(record[q].morphed, record[q].image.keyframe)
    BY <1>1 DEF CacheInv, RecordsMatchLoadedAssets, RecordedPose
  <1>6. /\ new.image # None /\ new.image.model = loaded[a] /\ new.image.clip = new.clip
        /\ new.morphed # None /\ new.keyframe = Index(new.morphed, new.image.keyframe)
    BY <1>3, <1>4, <1>5, NoneAssumption, NoneIsNew
  <1>7. new.morphed = s5 => new.image = pose
    <2> SUFFICES ASSUME new.image = record[q].image, record[q].morphed = s5, record[q].clip = pose.clip,
                        record[q].keyframe = Index(s5, pose.keyframe)
                 PROVE  record[q].image = pose
      BY <1>4
    <2>1. record[q].image \in Poses
      BY <1>2, <1>5 DEF Record
    <2>2. record[q].image.keyframe \in Keyframes /\ pose.keyframe \in Keyframes
      BY <1>3, <2>1 DEF Poses
    <2>3. Index(s5, record[q].image.keyframe) = Index(s5, pose.keyframe)
      BY <1>5
    <2>4. record[q].image.keyframe = pose.keyframe
      BY <2>2, <2>3, IndexType
    <2>5. record[q].image.model = pose.model /\ record[q].image.clip = pose.clip
      BY <1>3, <1>5
    <2> QED
      BY <1>3, <2>1, <2>4, <2>5 DEF Poses
  <1> HIDE DEF q, pose, new
  <1>8. /\ record'[q] = new
        /\ \A r \in Records : r # q => record'[r] = record[r]
    BY <1>1, <1>2 DEF CacheInv, TypeOK
  <1>9. Occupied' = Occupied
    BY <1>2, <1>4, <1>8 DEF Occupied
  <1>10. \A p \in Owners : slot[p] # None => slot[p] \in Records /\ (slot[p] = q => p = o)
    BY <1>2 DEF CacheInv, TypeOK, OwnersAgree
  <1>11. slot[o] = q
    BY DEF q
  <1>12. HeapAccounted'
    <2>1. \A r \in Records : record'[r].block = record[r].block
      BY <1>4, <1>8
    <2> QED
      BY <1>1, <1>9, <2>1 DEF CacheInv, HeapAccounted, Occupied
  <1>13. OwnersAgree'
    BY <1>1, <1>4, <1>8, <1>10, <1>11 DEF CacheInv, OwnersAgree
  <1>14. OccupiedAreOwned'
    BY <1>1, <1>2, <1>4, <1>8, <1>9, <1>11 DEF CacheInv, OccupiedAreOwned, Occupied
  <1>15. LiveAreDrawn'
    BY <1>1, <1>4, <1>8, <1>10, <1>11 DEF CacheInv, LiveAreDrawn
  <1>16. RecordsMatchLoadedAssets'
    BY <1>1, <1>4, <1>5, <1>6, <1>8, <1>10 DEF CacheInv, RecordsMatchLoadedAssets
  <1>17. RecordedPose'
    <2>1. record'[q].asset # None
      BY <1>1, <1>4, <1>8, NoneIsNew
    <2> QED
      BY <1>1, <1>6, <1>8, <1>10, <2>1 DEF CacheInv, RecordedPose
  <1>18. CacheInv'
    BY <1>1, <1>12, <1>13, <1>14, <1>15, <1>16, <1>17 DEF CacheInv, PendingIsFree
  <1>19. ShownPoseIsOfAskedIndex'
    BY <1>1, <1>3, <1>4, <1>6, <1>7 DEF ShownPoseIsOfAskedIndex
  <1> QED
    BY <1>18, <1>19

LEMMA AllocatedStep ==
  ASSUME CacheInv, TypeOK', ArrayAllocated
  PROVE  CacheInv' /\ ShownPoseIsOfAskedIndex'
  <1> DEFINE q == call.record
             o == call.owner
             pose == call.pose
  <1>1. call \in Calls /\ q \in Records /\ o \in Owners /\ pose \in Poses /\ call.s5 \in Incoming
    BY DEF ArrayAllocated, CacheInv, PendingIsFree, TypeOK, Calls
  <1>2. /\ q \notin Occupied /\ slot[o] = None /\ o \in drawn
        /\ record[q].owner = o /\ record[q].clip = None /\ record[q].asset # None
        /\ loaded[record[q].asset] = pose.model
    BY DEF ArrayAllocated, CacheInv, PendingIsFree
  <1>3. PICK b \in Blocks \ heap :
          /\ heap' = heap \cup {b}
          /\ Present([record EXCEPT ![q].block = b, ![q].sized = pose.model], q, pose, call.s5)
    BY DEF ArrayAllocated
  <1>4. /\ pc = "malloc" /\ pc' = "draw" /\ call' = None
        /\ UNCHANGED <<loaded, swinging, drawn>> /\ slot' = [slot EXCEPT ![o] = q]
    BY <1>3 DEF ArrayAllocated, Present
  <1> DEFINE s5 == call.s5
             sizedRecord == [record[q] EXCEPT !.block = b, !.sized = pose.model]
             base == [record EXCEPT ![q].block = b, ![q].sized = pose.model]
             new == Morphed(sizedRecord, pose, s5)
  <1>5. base[q] = sizedRecord /\ \A r \in Records : r # q => base[r] = record[r]
    BY <1>1 DEF CacheInv, TypeOK
  <1>6. base \in [Records -> Record] /\ sizedRecord \in Record
    <2>1. sizedRecord \in Record
      <3>1. record[q] \in Record /\ pose.model \in Models
        BY <1>1 DEF CacheInv, TypeOK, Poses
      <3> QED
        BY <1>3, <3>1, RecordTypes
    <2>2. base = [record EXCEPT ![q] = sizedRecord]
      OBVIOUS
    <2> QED
      BY <1>1, <2>1, <2>2 DEF CacheInv, TypeOK
  <1>7. /\ sizedRecord.clip = None /\ sizedRecord.asset = record[q].asset
        /\ sizedRecord.owner = record[q].owner
        /\ sizedRecord.block = b /\ sizedRecord.sized = pose.model
    BY <1>1, <1>2 DEF CacheInv, TypeOK, Record
  <1>8. /\ record' = [base EXCEPT ![q] = Morphed(base[q], pose, s5)]
        /\ shown' = [asked |-> pose, got |-> Morphed(base[q], pose, s5).image,
                     s5 |-> s5, morphed |-> Morphed(base[q], pose, s5).morphed]
    BY <1>3 DEF Present
  <1>9. /\ record'[q] = new
        /\ shown' = [asked |-> pose, got |-> new.image, s5 |-> s5, morphed |-> new.morphed]
        /\ \A r \in Records : r # q => record'[r] = record[r]
    BY <1>1, <1>5, <1>6, <1>8
  <1>10. pose.clip # None /\ pose # None
    BY <1>1, NoneIsNew, NoneAssumption DEF Poses
  <1>11. /\ new.state = "live" /\ new.clip = pose.clip /\ new.keyframe = Index(s5, pose.keyframe)
         /\ new.asset = record[q].asset /\ new.owner = o
         /\ new.block = b /\ new.sized = pose.model /\ new.image = pose /\ new.morphed = s5
    <2> HIDE DEF q, o, pose, sizedRecord, base
    <2>1. /\ new.state = "live" /\ new.clip = pose.clip /\ new.keyframe = Index(s5, pose.keyframe)
          /\ new.asset = sizedRecord.asset /\ new.owner = sizedRecord.owner
          /\ new.block = sizedRecord.block /\ new.sized = sizedRecord.sized
          /\ \/ new.image = pose /\ new.morphed = s5
             \/ /\ new.image = sizedRecord.image /\ new.morphed = sizedRecord.morphed
                /\ sizedRecord.clip = pose.clip /\ sizedRecord.keyframe = Index(s5, pose.keyframe)
      BY <1>1, <1>6, MorphedRecord
    <2> HIDE DEF new
    <2> QED
      BY <1>2, <1>7, <1>10, <2>1
  <1> HIDE DEF q, o, pose, s5, sizedRecord, base, new
  <1>12. Occupied' = Occupied \cup {q}
    BY <1>1, <1>9, <1>11 DEF Occupied
  <1>13. b # None /\ q # None
    BY <1>1, NoneIsNew
  <1>14. \A r \in Occupied : r # q /\ record'[r] = record[r] /\ record[r].block \in heap
    BY <1>2, <1>9 DEF CacheInv, HeapAccounted, Occupied
  <1>15. /\ slot'[o] = q
         /\ \A p \in Owners : p # o => slot'[p] = slot[p]
         /\ \A p \in Owners : slot[p] # None => p # o /\ slot[p] \in Occupied
    BY <1>1, <1>2, <1>4 DEF CacheInv, TypeOK, OwnersAgree, Occupied
  <1>16. HeapAccounted'
    <2>1. heap' = {record'[r].block : r \in Occupied \cup {q}}
      BY <1>3, <1>9, <1>11, <1>14 DEF CacheInv, HeapAccounted
    <2>2. \A r \in Records : (record'[r].block = None) <=> r \notin Occupied \cup {q}
      BY <1>9, <1>11, <1>13 DEF CacheInv, HeapAccounted
    <2>3. \A r, p \in Occupied \cup {q} : record'[r].block = record'[p].block => r = p
      BY <1>3, <1>9, <1>11, <1>14 DEF CacheInv, HeapAccounted
    <2> QED
      BY <1>12, <2>1, <2>2, <2>3 DEF HeapAccounted
  <1>17. OwnersAgree'
    BY <1>3, <1>9, <1>11, <1>14, <1>15 DEF CacheInv, OwnersAgree
  <1>18. OccupiedAreOwned'
    <2>1. \A r \in Occupied : slot[record[r].owner] = r => slot'[record[r].owner] = r
      BY <1>15, NoneIsNew DEF CacheInv, OccupiedAreOwned, Occupied
    <2>2. ~swinging => o # Weapon
      BY <1>2, <1>4 DEF CacheInv, LiveAreDrawn
    <2> QED
      BY <1>1, <1>4, <1>9, <1>11, <1>12, <1>14, <1>15, <2>1, <2>2, NoneIsNew
      DEF CacheInv, OccupiedAreOwned
  <1>19. LiveAreDrawn'
    BY <1>2, <1>4, <1>9, <1>11, <1>14, <1>15 DEF CacheInv, LiveAreDrawn
  <1>20. RecordsMatchLoadedAssets'
    BY <1>2, <1>4, <1>9, <1>10, <1>11, <1>14, <1>15 DEF CacheInv, RecordsMatchLoadedAssets
  <1>21. RecordedPose'
    <2>1. s5 # None
      BY <1>1, NoneIsNew DEF s5
    <2> QED
      BY <1>1, <1>2, <1>9, <1>10, <1>11, <1>14, <1>15, <2>1 DEF CacheInv, RecordedPose
  <1>22. ShownPoseIsOfAskedIndex'
    BY <1>9, <1>10, <1>11 DEF ShownPoseIsOfAskedIndex
  <1> QED
    BY <1>4, <1>16, <1>17, <1>18, <1>19, <1>20, <1>21, <1>22 DEF CacheInv, PendingIsFree

-----------------------------------------------------------------------------
\* Theorems.

LEMMA InitialCache == Init => CacheInv
  <1> SUFFICES ASSUME Init PROVE CacheInv
    OBVIOUS
  <1>1. \A r \in Records : record[r].state = "free" /\ record[r].block = None
    BY DEF Init, BlankRecord
  <1>2. Occupied = {} /\ \A o \in Owners : slot[o] = None
    BY <1>1 DEF Init, Occupied
  <1> QED
    BY <1>1, <1>2, InitialTypes
    DEF Init, CacheInv, HeapAccounted, OwnersAgree, OccupiedAreOwned, LiveAreDrawn,
        PendingIsFree, RecordsMatchLoadedAssets, RecordedPose

LEMMA StepCache == CacheInv /\ [Next]_vars => CacheInv'
  <1> SUFFICES ASSUME CacheInv, [Next]_vars PROVE CacheInv'
    OBVIOUS
  <1>1. TypeOK'
    BY StepTypes DEF CacheInv
  <1>2. CASE BeginFrame \/ EndFrame
    BY <1>1, <1>2, BeginFrameStep, EndFrameStep
  <1>3. CASE ArrayAllocated \/ ArrayRefused
    BY <1>1, <1>3, AllocatedStep, RefusedStep
  <1>4. CASE BeginAttack \/ EndAttack \/ TakeWeapon
    BY <1>1, <1>4, AttackSteps, TakeWeaponStep
  <1>5. CASE \/ EnterMenu
             \/ \E model \in Models : EquipInMenu(model)
             \/ \E models \in [FloorAssets -> Models] :
                  \/ LoadFloor(models)
                  \/ \E model \in Models : LoadGame(models, model) \/ RestartGame(models, model)
    BY <1>1, <1>5, ReleasingSteps
  <1>6. CASE \E o \in Owners, a \in Assets : BindStatic(o, a) \/ BindExhausted(o, a)
    BY <1>1, <1>6, StaticStep, ExhaustedStep
  <1>7. CASE \E o \in Owners, a \in Assets, c \in Clips, k \in Keyframes, s5 \in Incoming :
               BindNew(o, a, c, k, s5) \/ BindOtherAsset(o, a, c, k, s5) \/ BindSameAsset(o, a, c, k, s5)
    BY <1>1, <1>7, NewStep, OtherAssetStep, SameAssetStep
  <1>8. CASE UNCHANGED vars
    BY <1>8 DEF vars, CacheInv, TypeOK, HeapAccounted, OwnersAgree, OccupiedAreOwned, LiveAreDrawn,
                PendingIsFree, RecordsMatchLoadedAssets, RecordedPose, Occupied
  <1> QED
    BY <1>2, <1>3, <1>4, <1>5, <1>6, <1>7, <1>8 DEF Next

\* The cache keeps its inductive invariant, whatever register s5 holds.
THEOREM CacheInvariant == Spec => []CacheInv
  BY InitialCache, StepCache, PTL DEF Spec

\* Pointers of owners and records agree in every reachable state.
THEOREM PointersAgree == Spec => []OwnersAgree
  <1>1. CacheInv => OwnersAgree
    BY DEF CacheInv
  <1> QED
    BY <1>1, CacheInvariant, PTL

\* No vertex array is leaked, shared or freed twice.
THEOREM ArraysAccounted == Spec => []HeapAccounted
  <1>1. CacheInv => HeapAccounted
    BY DEF CacheInv
  <1> QED
    BY <1>1, CacheInvariant, PTL

\* No reachable record outlives the asset it was made from.
THEOREM RecordsAreCurrent == Spec => []RecordsMatchLoadedAssets
  <1>1. CacheInv => RecordsMatchLoadedAssets
    BY DEF CacheInv
  <1> QED
    BY <1>1, CacheInvariant, PTL

\* The sweep takes the record of every owner that was not drawn and of no other.
THEOREM SweepIsExact == Spec => SweepTakesOnlyUndrawn
  <1>1. CacheInv /\ [Next]_vars =>
          [EndFrame => \A o \in Owners : slot'[o] = IF o \in drawn THEN slot[o] ELSE None]_vars
    BY StepTypes, EndFrameStep DEF CacheInv
  <1> QED
    BY <1>1, CacheInvariant, PTL DEF Spec, SweepTakesOnlyUndrawn

\* Every bind presents a pose of the asked model and clip whose index, counted from the
\* register at its morph, is the asked one; it is the asked pose while the register is the
\* same, whatever the register held at the other binds.
THEOREM PoseIsShown == Spec => []ShownPoseIsOfAskedIndex
  <1> DEFINE Inv == CacheInv /\ ShownPoseIsOfAskedIndex
  <1>1. Init => Inv
    BY InitialCache DEF Init, ShownPoseIsOfAskedIndex
  <1>2. Inv /\ [Next]_vars => Inv'
    <2> SUFFICES ASSUME Inv, [Next]_vars PROVE Inv'
      OBVIOUS
    <2>1. CacheInv' /\ TypeOK'
      BY StepCache DEF CacheInv
    <2>2. CASE ArrayAllocated
      BY <2>1, <2>2, AllocatedStep
    <2>3. CASE \E o \in Owners, a \in Assets, c \in Clips, k \in Keyframes, s5 \in Incoming :
                 BindSameAsset(o, a, c, k, s5)
      BY <2>1, <2>3, SameAssetStep
    <2>4. CASE shown' = shown \/ shown' = None
      BY <2>1, <2>4 DEF ShownPoseIsOfAskedIndex
    <2>5. ASSUME NEW o \in Owners, NEW a \in Assets, NEW c \in Clips, NEW k \in Keyframes, NEW s5 \in Incoming,
                 BindNew(o, a, c, k, s5) \/ BindOtherAsset(o, a, c, k, s5)
          PROVE  shown' = None
      BY <2>5 DEF BindNew, BindOtherAsset, WaitForArray
    <2>6. ASSUME NEW o \in Owners, NEW a \in Assets, BindStatic(o, a) \/ BindExhausted(o, a)
          PROVE  shown' = None
      BY <2>6 DEF BindStatic, BindExhausted
    <2>7. ASSUME NEW models \in [FloorAssets -> Models],
                 LoadFloor(models) \/ \E model \in Models : LoadGame(models, model) \/ RestartGame(models, model)
          PROVE  shown' = shown
      BY <2>7 DEF LoadFloor, LoadGame, RestartGame
    <2>8. ASSUME \/ BeginFrame \/ EndFrame \/ ArrayRefused \/ BeginAttack \/ EndAttack
                 \/ TakeWeapon \/ EnterMenu \/ (\E model \in Models : EquipInMenu(model))
                 \/ UNCHANGED vars
          PROVE  shown' = shown \/ shown' = None
      BY <2>8 DEF BeginFrame, EndFrame, ArrayRefused, BeginAttack, EndAttack, TakeWeapon, EnterMenu,
                  EquipInMenu, vars
    <2> QED
      BY <2>2, <2>3, <2>4, <2>5, <2>6, <2>7, <2>8 DEF Next
  <1>3. Inv => ShownPoseIsOfAskedIndex
    OBVIOUS
  <1> QED
    BY <1>1, <1>2, <1>3, PTL DEF Spec
=============================================================================
