--------------------------- MODULE SaveFileProofs ---------------------------
(***************************************************************************)
(* Proofs about SaveFile for every number of slots, cards, attempts and    *)
(* every set of faults: type correctness, the inductive invariant          *)
(* DirectoryInv, and the safety properties that follow from it.            *)
(***************************************************************************)
EXTENDS SaveFile, TLAPS, FiniteSetTheorems, WellFoundedInduction

USE DEF EMPTY, SPARE, Slots, Tags, Entries

(* A nonempty set of directory entries has a first one, and First yields it. *)
LEMMA FirstEntry ==
    ASSUME NEW S \in SUBSET Entries, S # {}
    PROVE  First(S) \in S /\ \A f \in S : First(S) <= f
<1> DEFINE Less == OpToRel(<, Nat)
<1>1. IsWellFoundedOn(Less, Nat)
  BY NatLessThanWellFounded
<1>2. S \subseteq Nat
  BY SaveFileAssumption
<1>3. \A x, y \in Nat : ~(<<y, x>> \in Less) => x <= y
  BY DEF OpToRel
<1> HIDE DEF Less
<1>4. PICK x \in S : \A y \in S : ~(<<y, x>> \in Less)
  BY <1>1, <1>2, WFMin
<1>5. \A y \in S : x <= y
  BY <1>2, <1>3, <1>4
<1> QED
  BY <1>5 DEF First

(* Wrapping an attempt counter keeps it below the number of attempts. *)
LEMMA NextAttempt ==
    ASSUME NEW n \in 0..(Attempts - 1)
    PROVE  (n + 1) % Attempts \in 0..(Attempts - 1)
BY SaveFileAssumption

LEMMA RetagType ==
    ASSUME NEW h \in Header, NEW e \in Entries, NEW s \in Slots, NEW summary \in Summaries
    PROVE  Retag(h, e, s, summary) \in Header
BY SaveFileAssumption DEF Retag, Header

LEMMA EmptyHeaderType == EmptyHeader \in Header
BY SaveFileAssumption DEF EmptyHeader, Header

(* One entry more than slots: some entry is free.  This is what makes the    *)
(* unchecked search in save_file_write_slot succeed.                         *)
LEMMA SomeEntryIsFree ==
    ASSUME NEW h \in Header, UniqueSlots(h)
    PROVE  FreeEntries(h) # {}
<1> SUFFICES ASSUME FreeEntries(h) = {}
             PROVE  FALSE
  OBVIOUS
<1>1. \A e \in Entries : h.ids[e] \in Slots
  BY SaveFileAssumption DEF FreeEntries, Tagged, Header
<1> DEFINE f == [e \in Entries |-> h.ids[e]]
<1>2. f \in [Entries -> Slots]
  BY <1>1
<1>3. /\ IsFiniteSet(Entries) /\ Cardinality(Entries) = SlotCount + 1
      /\ IsFiniteSet(Slots) /\ Cardinality(Slots) = SlotCount
  <2>1. 0 \in Int /\ 1 \in Int /\ SlotCount \in Int /\ ~(0 > SlotCount) /\ ~(1 > SlotCount)
    BY SaveFileAssumption
  <2>2. /\ IsFiniteSet(0..SlotCount)
        /\ Cardinality(0..SlotCount) = IF 0 > SlotCount THEN 0 ELSE SlotCount - 0 + 1
    BY <2>1, FS_Interval
  <2>3. /\ IsFiniteSet(1..SlotCount)
        /\ Cardinality(1..SlotCount) = IF 1 > SlotCount THEN 0 ELSE SlotCount - 1 + 1
    BY <2>1, FS_Interval
  <2> QED
    BY <2>1, <2>2, <2>3
<1>4. Cardinality(Slots) < Cardinality(Entries)
  BY <1>3, SaveFileAssumption
<1> HIDE DEF f
<1>5. \E d, e \in Entries : d # e /\ f[d] = f[e]
  <2> HIDE DEF Entries, Slots
  <2> QED
    BY <1>2, <1>3, <1>4, FS_PigeonHole
<1> QED
  BY <1>1, <1>5 DEF f, UniqueSlots

LEMMA WriteEntryIsFree ==
    ASSUME NEW h \in Header, UniqueSlots(h)
    PROVE  /\ WriteEntry(h) \in Entries
           /\ WriteEntry(h) \in FreeEntries(h)
           /\ h.ids[WriteEntry(h)] \notin Slots
<1>1. /\ Tagged(h, SPARE) \in SUBSET Entries /\ Tagged(h, EMPTY) \in SUBSET Entries
      /\ Tagged(h, SPARE) # {} \/ Tagged(h, EMPTY) # {}
  BY SomeEntryIsFree DEF FreeEntries, Tagged
<1>2. /\ Tagged(h, SPARE) # {} => First(Tagged(h, SPARE)) \in Tagged(h, SPARE)
      /\ Tagged(h, EMPTY) # {} => First(Tagged(h, EMPTY)) \in Tagged(h, EMPTY)
  BY <1>1, FirstEntry
<1> QED
  BY <1>1, <1>2, SaveFileAssumption DEF WriteEntry, FreeEntries, Tagged

(* What one save does to the directory: the new entry carries the slot, no     *)
(* other entry does, and every other slot keeps its entry.                     *)
LEMMA RetagSlots ==
    ASSUME NEW h \in Header, UniqueSlots(h), NEW s \in Slots, NEW summary \in Summaries,
           NEW n \in Entries, h.ids[n] \notin Slots
    PROVE  /\ UniqueSlots(Retag(h, n, s, summary))
           /\ \A e \in Entries : Retag(h, n, s, summary).ids[e] = s <=> e = n
           /\ \A e \in Entries, t \in Slots \ {s} :
                 Retag(h, n, s, summary).ids[e] = t <=> h.ids[e] = t
           /\ Retag(h, n, s, summary).summaries = [h.summaries EXCEPT ![n] = summary]
<1> DEFINE r == Retag(h, n, s, summary)
<1>1. Tagged(h, s) # {} => First(Tagged(h, s)) \in Tagged(h, s)
  BY FirstEntry DEF Tagged
<1>2. n \notin Tagged(h, s)
  BY DEF Tagged
<1>3. \A e \in Entries : r.ids[e] = IF e \in Tagged(h, s) THEN SPARE
                                    ELSE IF e = n THEN s ELSE h.ids[e]
  BY <1>1 DEF Retag, Tagged, UniqueSlots
<1>4. SPARE \notin Slots
  BY SaveFileAssumption
<1> QED
  BY <1>2, <1>3, <1>4 DEF UniqueSlots, Tagged, Retag

(* A slot that some entry carries is looked up at that entry. *)
LEMMA LookupIsUnique ==
    ASSUME NEW h \in Header, UniqueSlots(h), NEW e \in Entries, h.ids[e] \in Slots
    PROVE  Tagged(h, h.ids[e]) # {} /\ First(Tagged(h, h.ids[e])) = e
BY FirstEntry DEF Tagged, UniqueSlots
LEMMA BlankCardType == BlankCard \in Card
BY EmptyHeaderType DEF BlankCard, Card

(* What each card operation leaves is a card. *)
LEMMA CardUpdates ==
    ASSUME NEW card \in Card
    PROVE  /\ card.header \in Header
           /\ \A e \in Entries : card.payload[e] \in Saves \cup {Torn}
           /\ \A file \in BOOLEAN : [card EXCEPT !.file = file] \in Card
           /\ \A h \in Header : [card EXCEPT !.header = h] \in Card
           /\ \A e \in Entries, content \in Saves \cup {Torn} :
                 [card EXCEPT !.payload[e] = content] \in Card
BY DEF Card

LEMMA SummaryType == \A save \in Saves : Summary(save) \in Summaries
BY DEF Saves, Summary

LEMMA CatalogueType ==
    ASSUME NEW h \in Header, NEW garbage \in Garbage
    PROVE  Catalogue(h, garbage) \in [Slots -> Summaries \cup {NoSummary}]
<1>1. \A s \in Slots : Tagged(h, s) # {} => First(Tagged(h, s)) \in Entries
  BY FirstEntry DEF Tagged
<1> QED
  BY <1>1 DEF Catalogue, Header, Garbage

-----------------------------------------------------------------------------

LEMMA InitialTypes == Init => TypeOK
<1> SUFFICES ASSUME Init PROVE TypeOK
  OBVIOUS
<1>1. BlankCard \in Card
  BY EmptyHeaderType DEF BlankCard, Card
<1>2. 1 \in Slots /\ 0 \in 0..(Attempts - 1)
  BY SaveFileAssumption
<1> QED
  BY <1>1, <1>2, EmptyHeaderType DEF Init, TypeOK

LEMMA StepTypes == DirectoryInv /\ [Next]_vars => TypeOK'
<1> SUFFICES ASSUME DirectoryInv, [Next]_vars PROVE TypeOK'
  OBVIOUS
<1>a. TypeOK /\ TransferHasCard /\ UniqueSlots(header)
  BY DEF DirectoryInv
<1>b. WriteEntry(header) \in Entries
  BY <1>a, WriteEntryIsFree DEF TypeOK
<1>c. Summary(game) \in Summaries
  BY <1>a, SummaryType DEF TypeOK
<1>d. 0 \in 0..(Attempts - 1)
  BY SaveFileAssumption
<1>e. [s \in Slots |-> NoSummary] \in [Slots -> Summaries \cup {NoSummary}]
  OBVIOUS
<1> USE <1>a DEF TypeOK, cardVars, bufferVars, Transfers
<1>1. CASE Play
  BY <1>1 DEF Play
<1>2. CASE OpenPanel
  BY <1>2 DEF OpenPanel
<1>3. CASE ReadCatalog
  <2> USE <1>3 DEF ReadCatalog
  <2>1. header' \in Header /\ headerSuspect' \in BOOLEAN
    BY EmptyHeaderType, CardUpdates DEF HeaderRead, Openings
  <2>2. summaries' \in [Slots -> Summaries \cup {NoSummary}]
    BY <2>1, CatalogueType
  <2> QED
    BY <2>1, <2>2
<1>4. CASE CatalogFails
  BY <1>4, EmptyHeaderType DEF CatalogFails
<1>5. CASE ConfirmSlot
  BY <1>5 DEF ConfirmSlot
<1>6. CASE ConfirmFormat
  BY <1>6 DEF ConfirmFormat
<1>7. CASE ClosePanel
  BY <1>7 DEF ClosePanel
<1>8. CASE FormatCard
  BY <1>8, <1>d, <1>e, CardUpdates DEF FormatCard
<1>9. CASE FormatAttemptFails
  BY <1>9, NextAttempt DEF FormatAttemptFails
<1>10. CASE WriteCheck
  BY <1>10 DEF WriteCheck
<1>11. CASE WriteCheckFails
  BY <1>11 DEF WriteCheckFails
<1>12. CASE OpenMainFile
  BY <1>12 DEF OpenMainFile
<1>13. CASE CreateMainFile
  <2>1. inserted \in Cards
    BY <1>13 DEF CreateMainFile, TransferHasCard
  <2>2. /\ [cards[inserted] EXCEPT !.file = TRUE] \in Card
        /\ [BlankCard EXCEPT !.file = TRUE] \in Card
    BY <2>1, CardUpdates, BlankCardType
  <2> QED
    BY <1>13, <2>1, <2>2, EmptyHeaderType DEF CreateMainFile
<1>14. CASE OpenFails
  BY <1>14 DEF OpenFails
<1>15. CASE WritePayload
  <2>1. inserted \in Cards
    BY <1>15 DEF WritePayload, TransferHasCard
  <2>2. [cards[inserted] EXCEPT !.payload[WriteEntry(header)] = game] \in Card
    BY <1>b, <2>1, CardUpdates
  <2>3. Retag(header, WriteEntry(header), slot, Summary(game)) \in Header
    BY <1>b, <1>c, RetagType
  <2> QED
    BY <1>15, <2>1, <2>2, <2>3, SaveFileAssumption DEF WritePayload, PayloadTouches
<1>16. CASE PayloadAttemptFails
  <2>1. inserted \in Cards
    BY <1>16 DEF PayloadAttemptFails, TransferHasCard
  <2>2. \A content \in {cards[inserted].payload[WriteEntry(header)], game, Torn} :
           [cards[inserted] EXCEPT !.payload[WriteEntry(header)] = content] \in Card
    BY <1>b, <2>1, CardUpdates
  <2> QED
    BY <1>16, <2>1, <2>2, NextAttempt DEF PayloadAttemptFails, PayloadTouches
<1>17. CASE WriteHeader
  <2>1. inserted \in Cards
    BY <1>17 DEF WriteHeader, TransferHasCard
  <2> QED
    BY <1>17, <2>1, CardUpdates, SaveFileAssumption DEF WriteHeader
<1>18. CASE HeaderAttemptFails
  <2>1. inserted \in Cards
    BY <1>18 DEF HeaderAttemptFails, TransferHasCard
  <2> QED
    BY <1>18, <2>1, CardUpdates, NextAttempt DEF HeaderAttemptFails
<1>19. CASE RefuseNewDevice
  BY <1>19, EmptyHeaderType, CardUpdates DEF RefuseNewDevice, HeaderRead
<1>20. CASE ReadCheck
  BY <1>20 DEF ReadCheck
<1>21. CASE ReadFails
  BY <1>21 DEF ReadFails
<1>22. CASE VerifyCatalog
  BY <1>22 DEF VerifyCatalog
<1>23. CASE ReadPayload
  <2>1. inserted \in Cards /\ Tagged(header, slot) # {}
    BY <1>23 DEF ReadPayload, TransferHasCard
  <2>2. First(Tagged(header, slot)) \in Entries
    BY <2>1, FirstEntry DEF Tagged
  <2> QED
    BY <1>23, <2>1, <2>2, CardUpdates DEF ReadPayload
<1>24. CASE ChangeCard
  BY <1>24 DEF ChangeCard
<1>25. CASE PowerFails
  BY <1>25, <1>d, <1>e, EmptyHeaderType DEF PowerFails
<1>26. CASE PowerOn
  BY <1>26 DEF PowerOn
<1>27. CASE UNCHANGED vars
  BY <1>27 DEF vars
<1> QED
  BY <1>1, <1>2, <1>3, <1>4, <1>5, <1>6, <1>7, <1>8, <1>9, <1>10, <1>11, <1>12, <1>13, <1>14, <1>15, <1>16, <1>17, <1>18, <1>19, <1>20, <1>21, <1>22, <1>23, <1>24, <1>25, <1>26, <1>27 DEF Next, CardStep, PlayerStep

-----------------------------------------------------------------------------
(* Preservation of the rest of DirectoryInv. *)

DirectoryFacts ==
    /\ UniqueSlots(header)
    /\ \A c \in Cards : UniqueSlots(cards[c].header)
    /\ SlotsAreComplete
    /\ HeaderFollowsCard
    /\ ImageIsComplete
    /\ CommitIsReady
    /\ MistakeIsSuspected
    /\ TransferHasCard

LEMMA EmptyHeaderFacts ==
    /\ UniqueSlots(EmptyHeader)
    /\ \A e \in Entries : EmptyHeader.ids[e] \notin Slots
BY SaveFileAssumption DEF EmptyHeader, UniqueSlots

(* Steps that touch neither a card nor the header image. *)
LEMMA QuietSteps ==
    ASSUME DirectoryInv,
           \/ Play \/ OpenPanel \/ ConfirmSlot \/ ConfirmFormat \/ ClosePanel
           \/ FormatAttemptFails \/ WriteCheck \/ WriteCheckFails \/ OpenMainFile
           \/ OpenFails \/ ReadCheck \/ ReadFails \/ VerifyCatalog \/ ReadPayload
           \/ ChangeCard \/ PowerOn
    PROVE  DirectoryFacts'
<1> USE DEF DirectoryFacts, DirectoryInv, SlotsAreComplete, HeaderFollowsCard,
            ImageIsComplete, CommitIsReady, MistakeIsSuspected, TransferHasCard,
            HeaderTrusted, PanelOpen, Backed, cardVars, bufferVars
<1>t. pc \in Transfers \cup {"off", "play", "panel"}
  BY DEF TypeOK
<1>1. CASE Play
  BY <1>1, <1>t DEF Play
<1>2. CASE OpenPanel
  BY <1>2, <1>t DEF OpenPanel
<1>3. CASE ConfirmSlot
  BY <1>3, <1>t DEF ConfirmSlot
<1>4. CASE ConfirmFormat
  BY <1>4, <1>t DEF ConfirmFormat
<1>5. CASE ClosePanel
  BY <1>5, <1>t DEF ClosePanel
<1>6. CASE FormatAttemptFails
  BY <1>6, <1>t DEF FormatAttemptFails
<1>7. CASE WriteCheck
  BY <1>7, <1>t DEF WriteCheck
<1>8. CASE WriteCheckFails
  BY <1>8, <1>t DEF WriteCheckFails
<1>9. CASE OpenMainFile
  BY <1>9, <1>t DEF OpenMainFile
<1>10. CASE OpenFails
  BY <1>10, <1>t DEF OpenFails
<1>11. CASE ReadCheck
  BY <1>11, <1>t DEF ReadCheck
<1>12. CASE ReadFails
  BY <1>12, <1>t DEF ReadFails
<1>13. CASE VerifyCatalog
  BY <1>13, <1>t DEF VerifyCatalog
<1>14. CASE ReadPayload
  BY <1>14, <1>t DEF ReadPayload
<1>15. CASE ChangeCard
  BY <1>15, <1>t DEF ChangeCard
<1>16. CASE PowerOn
  BY <1>16, <1>t DEF PowerOn
<1> QED
  BY <1>1, <1>2, <1>3, <1>4, <1>5, <1>6, <1>7, <1>8, <1>9, <1>10, <1>11, <1>12, <1>13, <1>14, <1>15, <1>16

(* Steps that load the header image from a card, or clear it. *)
LEMMA HeaderImageSteps ==
    ASSUME DirectoryInv, ReadCatalog \/ CatalogFails \/ RefuseNewDevice \/ PowerFails
    PROVE  DirectoryFacts'
<1> USE DEF DirectoryFacts, DirectoryInv, SlotsAreComplete, HeaderFollowsCard,
            ImageIsComplete, CommitIsReady, MistakeIsSuspected, TransferHasCard,
            HeaderTrusted, PanelOpen, Backed, cardVars
<1>r. ASSUME inserted \in Cards, NEW opened \in Openings(inserted), HeaderRead(inserted, opened),
             UNCHANGED cards
      PROVE  /\ UniqueSlots(header')
             /\ \/ header' = EmptyHeader
                \/ header' = cards[inserted].header /\ cards[inserted].file
             /\ ~headerSuspect' /\ cards[inserted].file =>
                   inserted \notin suspect /\ header' = cards[inserted].header
  BY <1>r, EmptyHeaderFacts DEF HeaderRead, Openings, TypeOK, Card
<1>1. CASE ReadCatalog
  BY <1>1, <1>r, EmptyHeaderFacts DEF ReadCatalog
<1>2. CASE CatalogFails
  BY <1>2, EmptyHeaderFacts DEF CatalogFails
<1>3. CASE RefuseNewDevice
  <2>1. CASE \E opened \in Openings(inserted) : HeaderRead(inserted, opened)
    BY <1>3, <2>1, <1>r, EmptyHeaderFacts DEF RefuseNewDevice
  <2>2. CASE header' = EmptyHeader /\ headerSuspect' = TRUE
    BY <1>3, <2>2, EmptyHeaderFacts DEF RefuseNewDevice
  <2> QED
    BY <1>3, <2>1, <2>2 DEF RefuseNewDevice
<1>4. CASE PowerFails
  BY <1>4, EmptyHeaderFacts DEF PowerFails
<1> QED
  BY <1>1, <1>2, <1>3, <1>4

(* Formatting and creating the file. *)
LEMMA FileSteps ==
    ASSUME DirectoryInv, FormatCard \/ CreateMainFile
    PROVE  DirectoryFacts'
<1> USE DEF DirectoryFacts, DirectoryInv, SlotsAreComplete, HeaderFollowsCard,
            ImageIsComplete, CommitIsReady, MistakeIsSuspected, TransferHasCard,
            HeaderTrusted, PanelOpen, Backed, cardVars, bufferVars, TypeOK
<1>1. CASE FormatCard
  <2>1. /\ inserted \in Cards
        /\ cards' = [cards EXCEPT ![inserted].file = FALSE]
        /\ suspect' = suspect \ {inserted}
        /\ pc = "format" /\ pc' = "panel"
        /\ UNCHANGED <<header, headerSuspect, inserted, game, slot>>
    BY <1>1 DEF FormatCard
  <2>2. \A c \in Cards : /\ cards'[c].file <=> c # inserted /\ cards[c].file
                         /\ cards'[c].header = cards[c].header
                         /\ cards'[c].payload = cards[c].payload
    BY <2>1 DEF Card
  <2> QED
    BY <2>1, <2>2
<1>2. CASE CreateMainFile
  <2>1. /\ inserted \in Cards
        /\ header' = EmptyHeader /\ ~headerSuspect'
        /\ pc = "open" /\ pc' = "payload"
        /\ UNCHANGED <<inserted, game, slot>>
    BY <1>2 DEF CreateMainFile
  <2>2. \A c \in Cards \ {inserted} : cards'[c] = cards[c] /\ (c \in suspect' <=> c \in suspect)
    BY <1>2 DEF CreateMainFile
  <2>3. /\ cards'[inserted].file
        /\ \/ cards'[inserted].header = EmptyHeader
           \/ inserted \in suspect' /\ cards'[inserted].header = cards[inserted].header
    BY <1>2, <2>1 DEF CreateMainFile, Card, BlankCard
  <2> QED
    BY <2>1, <2>2, <2>3, EmptyHeaderFacts
<1> QED
  BY <1>1, <1>2

(* Writing a payload: the entry written to is free in the image, hence named   *)
(* by no slot of the card's directory unless the card is suspect.              *)
LEMMA PayloadSteps ==
    ASSUME DirectoryInv, WritePayload \/ PayloadAttemptFails
    PROVE  DirectoryFacts'
<1> USE DEF DirectoryFacts, DirectoryInv, MistakeIsSuspected, TransferHasCard, TypeOK
<1> DEFINE n == WriteEntry(header)
<1>1. /\ n \in Entries /\ header.ids[n] \notin Slots
      /\ Summary(game) \in Summaries
  BY WriteEntryIsFree, SummaryType
<1>2. /\ inserted \in Cards /\ cards[inserted].file
      /\ pc = "payload" /\ UNCHANGED <<inserted, headerSuspect, game, slot>>
  BY DEF WritePayload, PayloadAttemptFails, bufferVars
<1>3. PICK content \in Saves \cup {Torn} : PayloadTouches(inserted, content)
                                           /\ (WritePayload => content = game)
  <2>1. cards[inserted].payload[n] \in Saves \cup {Torn}
    BY <1>1, <1>2, CardUpdates
  <2> QED
    BY <2>1 DEF WritePayload, PayloadAttemptFails
<1>4. /\ cards' = [cards EXCEPT ![inserted].payload[n] = content]
      /\ suspect' = IF headerSuspect THEN suspect \cup {inserted} ELSE suspect
  BY <1>3 DEF PayloadTouches
<1>5. \A c \in Cards : /\ cards'[c].file = cards[c].file
                       /\ cards'[c].header = cards[c].header
                       /\ \A e \in Entries : cards'[c].payload[e] =
                             IF c = inserted /\ e = n THEN content ELSE cards[c].payload[e]
  <2> HIDE DEF n
  <2> QED
    BY <1>1, <1>2, <1>4 DEF Card
<1>6. HeaderTrusted
  <=> ~headerSuspect
  BY <1>2 DEF HeaderTrusted, PanelOpen
<1>7. inserted \notin suspect' => header = cards[inserted].header
  BY <1>2, <1>4, <1>6 DEF HeaderFollowsCard
<1>8. SlotsAreComplete'
  BY <1>1, <1>2, <1>4, <1>5, <1>7 DEF SlotsAreComplete
<1>9. \A c \in Cards : UniqueSlots(cards'[c].header)
  BY <1>5
<1>10. CASE PayloadAttemptFails
  <2>1. UNCHANGED header /\ pc' \in {"payload", "panel"}
    BY <1>10 DEF PayloadAttemptFails, bufferVars
  <2>2. HeaderFollowsCard'
    BY <1>2, <1>4, <1>5, <1>6, <1>7, <2>1 DEF HeaderFollowsCard, HeaderTrusted
  <2>3. ImageIsComplete'
    BY <1>1, <1>2, <1>5, <1>6, <2>1 DEF ImageIsComplete, HeaderTrusted, Backed
  <2> QED
    BY <1>2, <1>5, <1>8, <1>9, <2>1, <2>2, <2>3 DEF CommitIsReady
<1>11. CASE WritePayload
  <2>1. header' = Retag(header, n, slot, Summary(game)) /\ pc' = "header" /\ content = game
    BY <1>3, <1>11 DEF WritePayload
  <2>2. /\ UniqueSlots(header')
        /\ \A e \in Entries : header'.ids[e] = slot <=> e = n
        /\ \A e \in Entries, t \in Slots \ {slot} : header'.ids[e] = t <=> header.ids[e] = t
        /\ header'.summaries = [header.summaries EXCEPT ![n] = Summary(game)]
    <3>1. header \in Header /\ UniqueSlots(header) /\ slot \in Slots
      OBVIOUS
    <3> HIDE DEF n, DirectoryInv, DirectoryFacts, TypeOK
    <3> QED
      BY <1>1, <2>1, <3>1, RetagSlots
  <2>3. HeaderFollowsCard'
    BY <1>2, <1>4, <1>5, <1>7, <2>1 DEF HeaderFollowsCard, HeaderTrusted
  <2>4. ImageIsComplete'
    <3> SUFFICES ASSUME HeaderTrusted', NEW e \in Entries, header'.ids[e] \in Slots
                 PROVE  Backed(header, inserted, e)'
      BY DEF ImageIsComplete
    <3>1. HeaderTrusted
      BY <1>2, <1>6 DEF HeaderTrusted
    <3>2. CASE e = n
      <4>1. header'.summaries[n] = Summary(game)
        BY <1>1, <2>2 DEF Header
      <4> QED
        BY <1>1, <1>2, <1>5, <2>1, <3>2, <4>1 DEF Backed
    <3>3. CASE e # n
      <4>1. header.ids[e] \in Slots /\ header'.summaries[e] = header.summaries[e]
        BY <1>1, <2>2, <3>3 DEF Header
      <4>2. Backed(header, inserted, e)
        BY <3>1, <4>1 DEF ImageIsComplete
      <4> QED
        BY <1>2, <1>5, <3>3, <4>1, <4>2 DEF Backed
    <3> QED
      BY <3>2, <3>3
  <2>5. CommitIsReady'
    BY <1>1, <1>2, <1>5, <2>1, <2>2 DEF CommitIsReady
  <2> QED
    BY <1>2, <1>4, <1>5, <1>8, <1>9, <2>1, <2>2, <2>3, <2>4, <2>5
<1> QED
  BY <1>10, <1>11

(* Writing the header: the card's directory becomes the image, which names     *)
(* complete saves only.                                                        *)
LEMMA HeaderSteps ==
    ASSUME DirectoryInv, WriteHeader \/ HeaderAttemptFails
    PROVE  DirectoryFacts'
<1> USE DEF DirectoryFacts, DirectoryInv, MistakeIsSuspected, TransferHasCard, TypeOK
<1>1. /\ inserted \in Cards /\ cards[inserted].file
      /\ pc = "header" /\ UNCHANGED <<header, inserted, headerSuspect, game, slot>>
  BY DEF WriteHeader, HeaderAttemptFails, bufferVars
<1>2. PICK h \in {cards[inserted].header, header} :
         /\ cards' = [cards EXCEPT ![inserted].header = h]
         /\ WriteHeader => h = header
  BY DEF WriteHeader, HeaderAttemptFails
<1>3. \A c \in Cards : /\ cards'[c].file = cards[c].file
                       /\ cards'[c].payload = cards[c].payload
                       /\ cards'[c].header = IF c = inserted THEN h ELSE cards[c].header
  BY <1>1, <1>2 DEF Card
<1>4. HeaderTrusted <=> ~headerSuspect
  BY <1>1 DEF HeaderTrusted, PanelOpen
<1>5. \A c \in Cards : UniqueSlots(cards'[c].header)
  BY <1>1, <1>2, <1>3
<1>6. ImageIsComplete'
  BY <1>1, <1>3, <1>4 DEF ImageIsComplete, Backed, HeaderTrusted
<1>7. CommitIsReady'
  BY <1>1, <1>3 DEF CommitIsReady
<1>8. CASE WriteHeader
  <2>1. /\ suspect' = (IF headerSuspect THEN suspect \cup {inserted} ELSE suspect \ {inserted})
        /\ pc' = "play"
    BY <1>8 DEF WriteHeader
  <2>2. SlotsAreComplete'
    BY <1>1, <1>2, <1>3, <1>4, <1>8, <2>1 DEF SlotsAreComplete, ImageIsComplete, Backed
  <2>3. HeaderFollowsCard'
    BY <2>1 DEF HeaderFollowsCard, HeaderTrusted, PanelOpen
  <2> QED
    BY <1>1, <1>5, <1>6, <1>7, <2>1, <2>2, <2>3
<1>9. CASE HeaderAttemptFails
  <2>1. \/ pc' = "panel" /\ suspect' = suspect \cup {inserted}
        \/ pc' = "header" /\ suspect' = suspect
    BY <1>1, <1>9 DEF HeaderAttemptFails
  <2>2. SlotsAreComplete'
    <3> SUFFICES ASSUME NEW c \in Cards \ suspect', NEW e \in Entries, cards'[c].file,
                        cards'[c].header.ids[e] \in Slots
                 PROVE  Backed(cards[c].header, c, e)'
      BY DEF SlotsAreComplete, Backed
    <3>1. c \notin suspect
      BY <2>1
    <3>2. CASE cards'[c].header = cards[c].header
      BY <1>3, <3>1, <3>2 DEF SlotsAreComplete, Backed
    <3>3. CASE c = inserted /\ cards'[c].header = header
      <4>1. \A d \in Entries : cards[c].header.ids[d] \in Slots =>
                Backed(cards[c].header, c, d)
        BY <1>1, <3>1, <3>3 DEF SlotsAreComplete, Backed
      <4> QED
        BY <1>1, <1>3, <1>4, <3>1, <3>3, <4>1 DEF ImageIsComplete, Backed
    <3> QED
      BY <1>2, <1>3, <3>2, <3>3
  <2>3. HeaderFollowsCard'
    BY <1>1, <1>2, <1>3, <1>4, <2>1 DEF HeaderFollowsCard, HeaderTrusted
  <2> QED
    BY <1>1, <1>3, <1>5, <1>6, <1>7, <2>1, <2>2, <2>3
<1> QED
  BY <1>8, <1>9

-----------------------------------------------------------------------------

LEMMA InitialDirectory == Init => DirectoryInv
<1> SUFFICES ASSUME Init PROVE DirectoryInv
  OBVIOUS
<1>1. TypeOK
  BY InitialTypes
<1>2. \A c \in Cards : cards[c] = BlankCard
  BY DEF Init
<1> QED
  BY <1>1, <1>2, EmptyHeaderFacts DEF Init, DirectoryInv, BlankCard, SlotsAreComplete,
     HeaderFollowsCard, ImageIsComplete, CommitIsReady, MistakeIsSuspected,
     TransferHasCard, HeaderTrusted, PanelOpen

LEMMA StepDirectory == DirectoryInv /\ [Next]_vars => DirectoryInv'
<1> SUFFICES ASSUME DirectoryInv, [Next]_vars PROVE DirectoryInv'
  OBVIOUS
<1>1. TypeOK'
  BY StepTypes
<1>2. DirectoryFacts'
  <2>1. CASE UNCHANGED vars
    BY <2>1 DEF vars, DirectoryFacts, DirectoryInv, SlotsAreComplete, HeaderFollowsCard,
       ImageIsComplete, CommitIsReady, MistakeIsSuspected, TransferHasCard,
       HeaderTrusted, PanelOpen, Backed
  <2>2. CASE Next
    BY <2>2, QuietSteps, HeaderImageSteps, FileSteps, PayloadSteps, HeaderSteps
       DEF Next, CardStep, PlayerStep
  <2> QED
    BY <2>1, <2>2
<1> QED
  BY <1>1, <1>2 DEF DirectoryInv, DirectoryFacts

THEOREM DirectoryInvariant == Spec => []DirectoryInv
<1>1. Init => DirectoryInv
  BY InitialDirectory
<1>2. DirectoryInv /\ [Next]_vars => DirectoryInv'
  BY StepDirectory
<1> QED
  BY <1>1, <1>2, PTL DEF Spec

(* Every reachable state is well typed, whatever the environment does. *)
THEOREM TypeCorrect == Spec => []TypeOK
<1>1. DirectoryInv => TypeOK
  BY DEF DirectoryInv
<1> QED
  BY <1>1, DirectoryInvariant, PTL

(* A power failure at any point finds only complete saves under the slots that *)
(* a card's directory names, unless that card is suspect.                      *)
THEOREM SlotsComplete == Spec => []SlotsAreComplete
<1>1. DirectoryInv => SlotsAreComplete
  BY DEF DirectoryInv
<1> QED
  BY <1>1, DirectoryInvariant, PTL

(* The unchecked directory search of save_file_write_slot always finds a free  *)
(* entry, for every number of slots.                                           *)
THEOREM FreeEntryFound == Spec => []WriteFindsFreeEntry
<1>1. DirectoryInv => WriteFindsFreeEntry
  BY SomeEntryIsFree, WriteEntryIsFree DEF DirectoryInv, TypeOK, WriteFindsFreeEntry
<1> QED
  BY <1>1, DirectoryInvariant, PTL

-----------------------------------------------------------------------------
(* What a step may do to the slots of a card. *)

CommitsOnly ==
    \A c \in Cards : c \notin suspect /\ c \notin suspect' =>
          \/ Contents(c)' = Contents(c)
          \/ c = inserted /\ pc = "format" /\ Contents(c)' = [s \in Slots |-> NoSave]
          \/ c = inserted /\ pc = "header"
             /\ Contents(c)' = [Contents(c) EXCEPT ![slot] = game]

LEMMA PayloadKeepsSlots ==
    ASSUME DirectoryInv, WritePayload \/ PayloadAttemptFails,
           NEW c \in Cards, c \notin suspect, c \notin suspect'
    PROVE  Contents(c)' = Contents(c)
<1> DEFINE n == WriteEntry(header)
<1>1. /\ inserted \in Cards /\ cards[inserted].file /\ pc = "payload"
      /\ n \in Entries /\ header.ids[n] \notin Slots
  BY WriteEntryIsFree DEF WritePayload, PayloadAttemptFails, DirectoryInv, TypeOK,
     TransferHasCard
<1>2. PICK content : PayloadTouches(inserted, content)
  BY DEF WritePayload, PayloadAttemptFails
<1>3. c = inserted => cards[c].header = header
  BY <1>1, <1>2 DEF PayloadTouches, DirectoryInv, HeaderFollowsCard, HeaderTrusted, PanelOpen
<1>4. /\ cards'[c].file = cards[c].file
      /\ cards'[c].header = cards[c].header
      /\ \A e \in Entries : c # inserted \/ e # n => cards'[c].payload[e] = cards[c].payload[e]
  <2>1. cards[c] \in Card /\ cards \in [Cards -> Card]
    BY DEF DirectoryInv, TypeOK
  <2>2. cards' = [cards EXCEPT ![inserted].payload[n] = content]
    BY <1>2 DEF PayloadTouches
  <2> HIDE DEF n
  <2> QED
    BY <1>1, <2>1, <2>2 DEF Card
<1>5. ASSUME NEW s \in Slots, Tagged(cards[c].header, s) # {}
      PROVE  /\ First(Tagged(cards[c].header, s)) \in Entries
             /\ cards[c].header.ids[First(Tagged(cards[c].header, s))] = s
  <2>1. First(Tagged(cards[c].header, s)) \in Tagged(cards[c].header, s)
    BY <1>5, FirstEntry DEF Tagged
  <2> QED
    BY <2>1 DEF Tagged
<1>6. ASSUME NEW s \in Slots, Tagged(cards[c].header, s) # {}
      PROVE  cards'[c].payload[First(Tagged(cards[c].header, s))]
             = cards[c].payload[First(Tagged(cards[c].header, s))]
  BY <1>1, <1>3, <1>4, <1>5, <1>6
<1> QED
  BY <1>4, <1>6 DEF Contents

LEMMA HeaderCommitsSlot ==
    ASSUME DirectoryInv, WriteHeader \/ HeaderAttemptFails,
           NEW c \in Cards, c \notin suspect
    PROVE  \/ Contents(c)' = Contents(c)
           \/ c = inserted /\ pc = "header"
              /\ Contents(c)' = [Contents(c) EXCEPT ![slot] = game]
<1>1. /\ inserted \in Cards /\ cards[inserted].file /\ pc = "header"
      /\ header \in Header /\ UniqueSlots(header) /\ slot \in Slots /\ game \in Saves
      /\ cards \in [Cards -> Card] /\ \A d \in Cards : UniqueSlots(cards[d].header)
  BY DEF WriteHeader, HeaderAttemptFails, DirectoryInv, TypeOK, TransferHasCard
<1>2. PICK written \in {cards[inserted].header, header} :
         cards' = [cards EXCEPT ![inserted].header = written]
  BY DEF WriteHeader, HeaderAttemptFails
<1>3. /\ cards'[c].file = cards[c].file
      /\ cards'[c].payload = cards[c].payload
      /\ cards'[c].header = IF c = inserted THEN written ELSE cards[c].header
  BY <1>1, <1>2 DEF Card
<1>4. CASE cards'[c].header = cards[c].header
  BY <1>3, <1>4 DEF Contents
<1>5. CASE c = inserted /\ cards'[c].header = header /\ header # cards[c].header
  <2> DEFINE old == cards[c].header
             entry == WriteEntry(old)
  <2>1. header = Retag(old, entry, slot, Summary(game))
    BY <1>1, <1>5 DEF DirectoryInv, MistakeIsSuspected, HeaderFollowsCard, HeaderTrusted,
       PanelOpen
  <2>2. old \in Header /\ UniqueSlots(old) /\ Summary(game) \in Summaries
    BY <1>1, CardUpdates, SummaryType
  <2>3. entry \in Entries /\ old.ids[entry] \notin Slots
    BY <2>2, WriteEntryIsFree
  <2>4. /\ UniqueSlots(header)
        /\ \A e \in Entries : header.ids[e] = slot <=> e = entry
        /\ \A e \in Entries, t \in Slots \ {slot} : header.ids[e] = t <=> old.ids[e] = t
        /\ header.summaries = [old.summaries EXCEPT ![entry] = Summary(game)]
    <3> HIDE DEF old, entry
    <3> QED
      BY <1>1, <2>1, <2>2, <2>3, RetagSlots
  <2>5. cards[c].payload[entry] = game
    BY <1>1, <1>5, <2>4 DEF DirectoryInv, CommitIsReady
  <2>6. Tagged(header, slot) # {} /\ First(Tagged(header, slot)) = entry
    <3>1. header.ids[entry] = slot
      BY <2>3, <2>4
    <3> HIDE DEF entry
    <3> QED
      BY <1>1, <2>3, <3>1, LookupIsUnique
  <2>7. \A t \in Slots \ {slot} : Tagged(header, t) = Tagged(old, t)
    BY <2>4 DEF Tagged
  <2> HIDE DEF entry, old
  <2>8. Contents(c)' = [t \in Slots |-> IF t = slot THEN game ELSE Contents(c)[t]]
    <3>1. \A t \in Slots :
             Contents(c)[t] = IF Tagged(old, t) # {}
                                THEN cards[c].payload[First(Tagged(old, t))] ELSE NoSave
      BY <1>1, <1>5 DEF Contents, old
    <3>2. Contents(c)' = [t \in Slots |->
             IF Tagged(header, t) # {} THEN cards[c].payload[First(Tagged(header, t))]
                                       ELSE NoSave]
      BY <1>1, <1>3, <1>5 DEF Contents
    <3> QED
      BY <2>5, <2>6, <2>7, <3>1, <3>2
  <2> QED
    BY <1>1, <1>5, <2>8 DEF Contents
<1> QED
  BY <1>2, <1>3, <1>4, <1>5

LEMMA StepCommitsOnly == DirectoryInv /\ [Next]_vars => CommitsOnly
<1> SUFFICES ASSUME DirectoryInv, [Next]_vars,
                    NEW c \in Cards, c \notin suspect, c \notin suspect'
             PROVE  \/ Contents(c)' = Contents(c)
                    \/ c = inserted /\ pc = "format"
                       /\ Contents(c)' = [s \in Slots |-> NoSave]
                    \/ c = inserted /\ pc = "header"
                       /\ Contents(c)' = [Contents(c) EXCEPT ![slot] = game]
  BY DEF CommitsOnly
<1>1. CASE UNCHANGED cards
  BY <1>1 DEF Contents
<1>2. CASE FormatCard
  <2>1. c = inserted => ~cards'[c].file /\ pc = "format"
    BY <1>2 DEF FormatCard, DirectoryInv, TypeOK, Card
  <2>2. c # inserted => cards'[c] = cards[c]
    BY <1>2 DEF FormatCard, DirectoryInv, TypeOK
  <2> QED
    BY <2>1, <2>2 DEF Contents
<1>3. CASE CreateMainFile
  <2>1. c # inserted => cards'[c] = cards[c]
    BY <1>3 DEF CreateMainFile, DirectoryInv, TypeOK
  <2>2. c = inserted => cards'[c].header = EmptyHeader /\ ~cards[c].file
    BY <1>3 DEF CreateMainFile, DirectoryInv, TypeOK, BlankCard
  <2>3. \A s \in Slots : Tagged(EmptyHeader, s) = {}
    BY EmptyHeaderFacts DEF Tagged
  <2> QED
    BY <2>1, <2>2, <2>3 DEF Contents
<1>4. CASE WritePayload \/ PayloadAttemptFails
  BY <1>4, PayloadKeepsSlots
<1>5. CASE WriteHeader \/ HeaderAttemptFails
  BY <1>5, HeaderCommitsSlot
<1> QED
  <2>1. CASE UNCHANGED vars
    BY <1>1, <2>1 DEF vars
  <2>2. CASE CardStep
    BY <1>1, <1>2, <1>3, <1>4, <1>5, <2>2
       DEF CardStep, cardVars, ReadCatalog, CatalogFails, FormatAttemptFails, WriteCheck,
           WriteCheckFails, OpenMainFile, OpenFails, RefuseNewDevice, ReadCheck, ReadFails,
           VerifyCatalog, ReadPayload
  <2>3. CASE PlayerStep \/ ChangeCard \/ PowerFails \/ PowerOn
    BY <1>1, <2>3
       DEF PlayerStep, cardVars, Play, OpenPanel, ConfirmSlot, ConfirmFormat, ClosePanel,
           ChangeCard, PowerFails, PowerOn
  <2> QED
    BY <2>1, <2>2, <2>3 DEF Next

(* A step changes what a card's slots yield only by formatting the card or by  *)
(* committing the current game to the confirmed slot.                          *)
THEOREM SlotsChangeByCommitOnly == Spec => OnlyCommitsChangeSlots
<1>1. DirectoryInv /\ [Next]_vars => CommitsOnly
  BY StepCommitsOnly
<1> QED
  BY <1>1, DirectoryInvariant, PTL DEF Spec, OnlyCommitsChangeSlots, CommitsOnly

(* A save that closes the panel is what the slot yields, whatever the faults.  *)
THEOREM AcknowledgedSaveStored == Spec => AcknowledgedSaveIsStored
<1> DEFINE Acknowledged == pc = "header" /\ pc' = "play" => Contents(inserted)'[slot] = game
<1>1. ASSUME DirectoryInv, [Next]_vars, pc = "header", pc' = "play"
      PROVE  Contents(inserted)'[slot] = game
  <2>1. WriteHeader
    BY <1>1 DEF Next, CardStep, PlayerStep, vars, ReadCatalog, CatalogFails, FormatCard,
       FormatAttemptFails, WriteCheck, WriteCheckFails, OpenMainFile, CreateMainFile,
       OpenFails, WritePayload, PayloadAttemptFails, HeaderAttemptFails, RefuseNewDevice,
       ReadCheck, ReadFails, VerifyCatalog, ReadPayload, Play, OpenPanel, ConfirmSlot,
       ConfirmFormat, ClosePanel, ChangeCard, PowerFails, PowerOn
  <2>2. /\ inserted \in Cards /\ cards[inserted].file /\ inserted' = inserted
        /\ header \in Header /\ UniqueSlots(header) /\ slot \in Slots
        /\ cards \in [Cards -> Card]
    BY <1>1, <2>1 DEF DirectoryInv, TypeOK, TransferHasCard, WriteHeader
  <2>3. PICK e \in Entries : header.ids[e] = slot /\ cards[inserted].payload[e] = game
    BY <1>1 DEF DirectoryInv, CommitIsReady
  <2>4. /\ cards'[inserted].file
        /\ cards'[inserted].header = header
        /\ cards'[inserted].payload = cards[inserted].payload
    BY <2>1, <2>2 DEF WriteHeader, Card
  <2>5. Tagged(header, slot) # {} /\ First(Tagged(header, slot)) = e
    BY <2>2, <2>3, LookupIsUnique
  <2> QED
    BY <2>2, <2>3, <2>4, <2>5 DEF Contents
<1>2. DirectoryInv /\ [Next]_vars => Acknowledged
  BY <1>1
<1> QED
  BY <1>2, DirectoryInvariant, PTL DEF Spec, AcknowledgedSaveIsStored

-----------------------------------------------------------------------------
(* Loads. *)

LEMMA InitialLoad == Init => LoadInv
BY DEF Init, LoadInv, PanelOpen

LEMMA StepLoad ==
    ASSUME DirectoryInv, LoadInv, [Next]_vars
    PROVE  LoadInv'
<1> USE DEF LoadInv, PanelOpen, cardVars, bufferVars
<1>t. pc \in Transfers \cup {"off", "play", "panel"} /\ panel \in {"save", "load"}
  BY DEF DirectoryInv, TypeOK
<1>1. CASE PlayerStep \/ ChangeCard \/ PowerFails \/ PowerOn \/ UNCHANGED vars
  BY <1>1, <1>t DEF PlayerStep, Play, OpenPanel, ConfirmSlot, ConfirmFormat, ClosePanel,
     ChangeCard, PowerFails, PowerOn, vars
<1>2. CASE ReadCatalog \/ CatalogFails \/ RefuseNewDevice
  BY <1>2, <1>t DEF ReadCatalog, CatalogFails, RefuseNewDevice, HeaderRead
<1>3. CASE ReadCheck \/ ReadFails \/ VerifyCatalog \/ ReadPayload
  BY <1>3, <1>t DEF ReadCheck, ReadFails, VerifyCatalog, ReadPayload
<1>4. CASE \/ FormatCard \/ FormatAttemptFails \/ WriteCheck \/ WriteCheckFails \/ OpenMainFile
           \/ CreateMainFile \/ OpenFails \/ WritePayload \/ PayloadAttemptFails
           \/ WriteHeader \/ HeaderAttemptFails
  BY <1>4, <1>t DEF FormatCard, FormatAttemptFails, WriteCheck, WriteCheckFails, OpenMainFile,
     CreateMainFile, OpenFails, WritePayload, PayloadAttemptFails, WriteHeader, HeaderAttemptFails
<1> QED
  BY <1>1, <1>2, <1>3, <1>4 DEF Next, CardStep

(* A load that reports success yields what the inserted card holds under the   *)
(* confirmed slot, whatever cards came and went while the panel was open.      *)
THEOREM LoadIsOfInsertedCard == Spec => LoadYieldsInsertedCardsSave
<1> DEFINE Yields == pc = "read_payload" /\ pc' = "play" =>
                        /\ Contents(inserted)[slot] # NoSave
                        /\ Contents(inserted)[slot] # Torn => game' = Contents(inserted)[slot]
<1>1. ASSUME DirectoryInv, LoadInv, [Next]_vars, pc = "read_payload", pc' = "play"
      PROVE  /\ Contents(inserted)[slot] # NoSave
             /\ Contents(inserted)[slot] # Torn => game' = Contents(inserted)[slot]
  <2>1. ReadPayload
    BY <1>1 DEF Next, CardStep, PlayerStep, vars, ReadCatalog, CatalogFails, FormatCard,
       FormatAttemptFails, WriteCheck, WriteCheckFails, OpenMainFile, CreateMainFile,
       OpenFails, WritePayload, PayloadAttemptFails, WriteHeader, HeaderAttemptFails,
       RefuseNewDevice, ReadCheck, ReadFails, VerifyCatalog, Play, OpenPanel, ConfirmSlot,
       ConfirmFormat, ClosePanel, ChangeCard, PowerFails, PowerOn
  <2>2. /\ inserted \in Cards /\ cards[inserted].file /\ Tagged(header, slot) # {} /\ slot \in Slots
        /\ cards[inserted] \in Card
    BY <1>1 DEF DirectoryInv, TypeOK, TransferHasCard
  <2>3. Tagged(EmptyHeader, slot) = {}
    BY <2>2, EmptyHeaderFacts DEF Tagged
  <2>4. header = cards[inserted].header
    BY <1>1, <2>2, <2>3 DEF LoadInv, PanelOpen
  <2> DEFINE e == First(Tagged(header, slot))
  <2>5. e \in Entries
    BY <2>2, FirstEntry DEF Tagged
  <2> HIDE DEF e
  <2>6. cards[inserted].payload[e] \in Saves \cup {Torn}
    BY <2>2, <2>5, CardUpdates
  <2>7. Contents(inserted)[slot] = cards[inserted].payload[e]
    BY <2>2, <2>4 DEF Contents, e
  <2> QED
    BY <2>1, <2>6, <2>7, SaveFileAssumption DEF ReadPayload, e
<1>2. DirectoryInv /\ LoadInv /\ [Next]_vars => Yields
  BY <1>1
<1> QED
  BY <1>2, InitialLoad, StepLoad, DirectoryInvariant, PTL DEF Spec, LoadYieldsInsertedCardsSave

-----------------------------------------------------------------------------
(* The abstract store. *)

LEMMA InitialFaultless == Init => Faultless
BY DEF Init, Faultless, PanelOpen

LEMMA StepFaultless ==
    ASSUME Faults = {}, DirectoryInv, Faultless, [Next]_vars
    PROVE  Faultless'
<1> USE DEF Faultless, PanelOpen, cardVars, bufferVars
<1>t. pc \in Transfers \cup {"off", "play", "panel"}
  BY DEF DirectoryInv, TypeOK
<1>1. CASE PlayerStep \/ ChangeCard \/ PowerFails \/ PowerOn \/ UNCHANGED vars
  BY <1>1, <1>t DEF PlayerStep, Play, OpenPanel, ConfirmSlot, ConfirmFormat, ClosePanel,
     ChangeCard, PowerFails, PowerOn, vars
<1>2. CASE ReadCatalog \/ CatalogFails \/ RefuseNewDevice
  BY <1>2, <1>t, Faults = {} DEF ReadCatalog, CatalogFails, RefuseNewDevice, HeaderRead, Openings
<1>3. CASE ReadCheck \/ ReadFails \/ VerifyCatalog \/ ReadPayload
  BY <1>3, <1>t DEF ReadCheck, ReadFails, VerifyCatalog, ReadPayload
<1>4. CASE FormatCard \/ WriteCheck \/ WriteCheckFails \/ OpenMainFile \/ OpenFails
  BY <1>4, <1>t DEF FormatCard, WriteCheck, WriteCheckFails, OpenMainFile, OpenFails
<1>7. CASE FormatAttemptFails
  <2>1. /\ pc = "format" /\ pc' \in {"format", "panel"} /\ inserted' = inserted
        /\ UNCHANGED <<suspect, headerSuspect>>
        /\ unacknowledged' = unacknowledged \/ unacknowledged' = (inserted = NoCard)
    BY <1>7 DEF FormatAttemptFails
  <2>2. inserted \in Cards /\ ~(inserted = NoCard) /\ ~unacknowledged /\ ~headerSuspect
    BY <2>1, SaveFileAssumption
  <2>3. ~unacknowledged'
    BY <2>1, <2>2
  <2> QED
    BY <2>1, <2>2, <2>3
<1>5. CASE CreateMainFile \/ WritePayload \/ PayloadAttemptFails \/ WriteHeader
  BY <1>5, <1>t, Faults = {} DEF CreateMainFile, WritePayload, PayloadAttemptFails,
     PayloadTouches, WriteHeader
<1>6. CASE HeaderAttemptFails
  <2>1. tries + 1 < Attempts /\ tries \in 0 .. (Attempts - 1)
    BY <1>6, Faults = {} DEF HeaderAttemptFails, DirectoryInv, TypeOK
  <2>2. tries' # 0
    BY <1>6, <2>1, SaveFileAssumption DEF HeaderAttemptFails
  <2> QED
    BY <1>6, <1>t, <2>2 DEF HeaderAttemptFails
<1> QED
  BY <1>1, <1>2, <1>3, <1>4, <1>5, <1>6, <1>7 DEF Next, CardStep

(* A step of the file is a step of the store, or leaves it alone: the game may *)
(* change where no card does, and where one card does the game rests.          *)
LEMMA StepOfStore ==
    ASSUME DirectoryInv, Faultless, DirectoryInv', Faultless', [Next]_vars
    PROVE  [Store!Next]_<<[c \in Cards |-> Contents(c)], game>>
<1> DEFINE store == [c \in Cards |-> Contents(c)]
<1>1. ASSUME NEW c \in Cards
      PROVE  \/ store'[c] = store[c]
             \/ c = inserted /\ store'[c] = [s \in Slots |-> NoSave] /\ cards' # cards
             \/ c = inserted /\ store'[c] = [store[c] EXCEPT ![slot] = game] /\ cards' # cards
  <2>1. store[c] = Contents(c) /\ store'[c] = Contents(c)'
    OBVIOUS
  <2>2. cards' = cards => store'[c] = store[c]
    BY <2>1 DEF Contents
  <2>3. \/ Contents(c)' = Contents(c)
        \/ c = inserted /\ Contents(c)' = [s \in Slots |-> NoSave]
        \/ c = inserted /\ Contents(c)' = [Contents(c) EXCEPT ![slot] = game]
    BY StepCommitsOnly DEF CommitsOnly, Faultless
  <2> HIDE DEF store
  <2> QED
    BY <2>1, <2>2, <2>3
<1>2. store = [c \in Cards |-> store[c]] /\ store' = [c \in Cards |-> store'[c]]
  OBVIOUS
<1>3. game' \in Saves /\ slot \in Slots
  BY DEF DirectoryInv, TypeOK
<1>4. cards' # cards => game' = game
  BY DEF Next, CardStep, PlayerStep, vars, cardVars, ReadCatalog, CatalogFails, FormatCard,
     FormatAttemptFails, WriteCheck, WriteCheckFails, OpenMainFile, CreateMainFile,
     OpenFails, WritePayload, PayloadAttemptFails, WriteHeader, HeaderAttemptFails,
     RefuseNewDevice, ReadCheck, ReadFails, VerifyCatalog, ReadPayload, Play, OpenPanel,
     ConfirmSlot, ConfirmFormat, ClosePanel, ChangeCard, PowerFails, PowerOn
<1> HIDE DEF store
<1>5. CASE \A c \in Cards : store'[c] = store[c]
  <2>1. store' = store
    BY <1>2, <1>5
  <2>2. Store!Play
    BY <1>3, <2>1 DEF Store!Play, store
  <2> QED
    BY <2>2 DEF Store!Next
<1>6. CASE \E c \in Cards : store'[c] # store[c]
  <2>1. inserted \in Cards /\ game' = game
    BY <1>1, <1>4, <1>6
  <2>2. \A c \in Cards \ {inserted} : store'[c] = store[c]
    BY <1>1
  <2>3. store'[inserted] \in {[s \in Slots |-> NoSave], [store[inserted] EXCEPT ![slot] = game]}
    BY <1>1, <1>6, <2>1, <2>2
  <2>4. store' = [store EXCEPT ![inserted] = store'[inserted]]
    BY <1>2, <2>1, <2>2
  <2>5. CASE store'[inserted] = [s \in Slots |-> NoSave]
    <3>1. store' = [store EXCEPT ![inserted] = [s \in Slots |-> NoSave]]
      BY <2>4, <2>5
    <3>2. Store!Erase(inserted)
      BY <2>1, <3>1 DEF Store!Erase, Store!EmptySlots, store
    <3> QED
      BY <2>1, <3>2 DEF Store!Next
  <2>6. CASE store'[inserted] = [store[inserted] EXCEPT ![slot] = game]
    <3>1. store' = [store EXCEPT ![inserted] = [store[inserted] EXCEPT ![slot] = game]]
      BY <2>4, <2>6
    <3>2. store' = [store EXCEPT ![inserted][slot] = game]
      BY <3>1
    <3>3. Store!Save(inserted, slot)
      BY <2>1, <3>2 DEF Store!Save, store
    <3> QED
      BY <1>3, <2>1, <3>3 DEF Store!Next
  <2> QED
    BY <2>3, <2>5, <2>6
<1> QED
  BY <1>5, <1>6

(* Where only power and transfers fail, the save file is an atomic store of    *)
(* slots: whatever a failure interrupts, each card yields its slots of before  *)
(* or those after one whole save or format.                                    *)
THEOREM SaveFileIsAStore ==
    ASSUME Faults = {}
    PROVE  Spec => ImplementsStore
<1>1. Init => Store!Init
  <2> SUFFICES ASSUME Init PROVE Store!Init
    OBVIOUS
  <2>1. \A c \in Cards : Contents(c) = [s \in Slots |-> NoSave]
    BY DEF Init, Contents, BlankCard
  <2> QED
    BY <2>1 DEF Init, Store!Init, Store!EmptySlots
<1>2. DirectoryInv /\ Faultless /\ [Next]_vars => Faultless'
  BY StepFaultless
<1>3. DirectoryInv /\ Faultless /\ DirectoryInv' /\ Faultless' /\ [Next]_vars
         => [Store!Next]_<<[c \in Cards |-> Contents(c)], game>>
  BY StepOfStore
<1> QED
  BY <1>1, <1>2, <1>3, InitialFaultless, DirectoryInvariant, PTL DEF Spec, ImplementsStore, Store!Spec

=============================================================================
