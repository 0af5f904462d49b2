------------------------------ MODULE SaveFile ------------------------------
(***************************************************************************)
(* The memory-card save file of King's Field: the card, the file on it,    *)
(* the header image GAME.EXE keeps while a panel is open, and the save and *)
(* load panels that drive both (src/game/save_system.c, menu_runtime.c).   *)
(*                                                                         *)
(* The file is one header frame with a directory of SlotCount + 1 entries, *)
(* followed by one payload position per entry.  A save never overwrites    *)
(* the entry that holds the slot's previous copy: it writes the payload to *)
(* a spare entry and then publishes it with one header write.              *)
(*                                                                         *)
(* Bounds and abstractions.  A game state is a member of Saves; its first  *)
(* component is the summary the directory repeats.  The directory is the   *)
(* last 128-byte card frame of the header and is written whole or not at   *)
(* all; a payload spans many frames and can be cut short (Torn).  Power    *)
(* can fail between any two steps.  Cards change only while no transfer is *)
(* under way: pulling a card during a transfer is a failed transfer        *)
(* followed by a change.                                                   *)
(***************************************************************************)
EXTENDS Integers, FiniteSets

CONSTANTS
    Cards,        \* memory cards that may be in slot 1
    SlotCount,    \* KF_SAVE_SLOT_COUNT: three in the game
    Summaries,    \* directory summaries with positive HP
    Details,      \* what a summary does not tell apart
    Attempts,     \* SAVE_FILE_IO_ATTEMPTS and CARD_FORMAT_ATTEMPTS: five
    Faults,       \* which of FaultKinds the environment may produce
    NoCard, Torn, NoSummary, NoSave

Saves == Summaries \X Details
Slots == 1..SlotCount
EMPTY == 0
SPARE == SlotCount + 1
Tags == 0..SPARE
Entries == 0..SlotCount      \* KF_SAVE_DIRECTORY_ENTRIES = SlotCount + 1

\* swap: the player changes the card while a panel is open;
\* header: all attempts to write the header fail;
\* open: opening the existing file fails once while the catalogue is read;
\* leftover: a new file's blocks still hold what an older file left there.
FaultKinds == {"swap", "header", "open", "leftover"}

ASSUME SaveFileAssumption ==
    /\ SlotCount \in Nat \ {0}
    /\ Attempts \in Nat \ {0}
    /\ Faults \subseteq FaultKinds
    /\ NoCard \notin Cards
    /\ Torn \notin Saves /\ NoSave \notin Saves \cup {Torn}
    /\ NoSummary \notin Summaries
    /\ Saves # {}

VARIABLES
    cards,         \* what each card holds, across power cycles
    inserted,      \* the card in slot 1, or NoCard
    unacknowledged,\* the card is new to the BIOS: status checks say NEW_DEVICE
    header,        \* save_header_buffer
    game,          \* player, world, stock and magic state: what a payload copies
    summaries,     \* the panel's KfSaveSlotSummary array
    pc,            \* where the program is
    panel,         \* the panel that is open: "save" or "load"
    slot,          \* the slot the panel's cursor confirmed
    tries,         \* failed attempts of the transfer under way
    suspect,       \* history: cards whose directory an interrupted or
                   \* mistaken write may have left wrong
    headerSuspect  \* history: header was not read from the inserted card, or
                   \* was read from a suspect one

vars == <<cards, inserted, unacknowledged, header, game, summaries, pc, panel,
          slot, tries, suspect, headerSuspect>>

Summary(save) == save[1]

Header == [ids : [Entries -> Tags],
           summaries : [Entries -> Summaries \cup {NoSummary}]]
EmptyHeader == [ids |-> [e \in Entries |-> EMPTY],
                summaries |-> [e \in Entries |-> NoSummary]]
Card == [file : BOOLEAN, header : Header, payload : [Entries -> Saves \cup {Torn}]]
BlankCard == [file |-> FALSE, header |-> EmptyHeader,
              payload |-> [e \in Entries |-> Torn]]

-----------------------------------------------------------------------------
(* The directory.                                                          *)

Tagged(h, tag) == {e \in Entries : h.ids[e] = tag}
First(S) == CHOOSE e \in S : \A f \in S : e <= f

FreeEntries(h) == Tagged(h, SPARE) \cup Tagged(h, EMPTY)

\* Mutant: only empty entries are searched for, entry 0 is the fallback.
WriteEntrySkipsSpare(h) == IF Tagged(h, EMPTY) # {} THEN First(Tagged(h, EMPTY)) ELSE 0

\* save_file_write_slot: the first spare entry, else the first empty one.
WriteEntry(h) == IF Tagged(h, SPARE) # {} THEN First(Tagged(h, SPARE))
                                          ELSE First(Tagged(h, EMPTY))

\* Mutant: the slot's old entry is not retagged.
RetagKeepsOld(h, entry, s, summary) ==
    [ids |-> [h.ids EXCEPT ![entry] = s],
     summaries |-> [h.summaries EXCEPT ![entry] = summary]]

\* save_file_write_slot: entry becomes slot s and the entry that was s becomes
\* the spare.  With no such entry the spare tag lands in the icon, outside the
\* directory.
Retag(h, entry, s, summary) ==
    [ids |-> [e \in Entries |->
                IF Tagged(h, s) # {} /\ e = First(Tagged(h, s)) THEN SPARE
                ELSE IF e = entry THEN s ELSE h.ids[e]],
     summaries |-> [h.summaries EXCEPT ![entry] = summary]]

\* save_system_read_catalog: memset clears 36 bytes of the 24-byte records, so
\* the current-HP word (offset 8) only of the slots in Cleared; the others keep
\* whatever the stack held unless the directory names them.
Cleared == {s \in Slots : 24 * (s - 1) + 12 <= 36}
Catalogue(h, garbage) ==
    [s \in Slots |-> IF Tagged(h, s) # {} THEN h.summaries[First(Tagged(h, s))]
                     ELSE IF s \in Cleared THEN NoSummary ELSE garbage[s]]
Garbage == [Slots -> Summaries \cup {NoSummary}]

-----------------------------------------------------------------------------

Init ==
    /\ cards = [c \in Cards |-> BlankCard]
    /\ inserted \in Cards \cup {NoCard}
    /\ unacknowledged = TRUE
    /\ header = EmptyHeader
    /\ game \in Saves
    /\ summaries = [s \in Slots |-> NoSummary]
    /\ pc = "play"
    /\ panel = "save"
    /\ slot = 1
    /\ tries = 0
    /\ suspect = {}
    /\ headerSuspect = FALSE

cardVars == <<cards, suspect>>
bufferVars == <<header, headerSuspect>>

\* Playing changes the state a save would copy; no panel is open.
Play ==
    /\ pc = "play"
    /\ game' \in Saves \ {game}
    /\ UNCHANGED <<cardVars, bufferVars, inserted, unacknowledged, summaries,
                   pc, panel, slot, tries>>

OpenPanel ==
    /\ pc = "play"
    /\ pc' = "catalog"
    /\ panel' \in {"save", "load"}
    /\ UNCHANGED <<cardVars, bufferVars, inserted, unacknowledged, game,
                   summaries, slot, tries>>

\* The header image after save_file_read_header: the card's, or zeros when the
\* file does not open (no file, or an open that fails) or does not read.
HeaderRead(c, opened) ==
    /\ header' = IF opened THEN cards[c].header ELSE EmptyHeader
    /\ headerSuspect' = (cards[c].file /\ (~opened \/ c \in suspect))

Openings(c) == {cards[c].file} \cup (IF "open" \in Faults THEN {FALSE} ELSE {})

\* save_system_read_catalog succeeds: a file that does not open is an empty
\* catalogue.
ReadCatalog ==
    /\ pc = "catalog"
    /\ inserted \in Cards
    /\ \E opened \in Openings(inserted) : HeaderRead(inserted, opened)
    /\ unacknowledged' = FALSE
    /\ \E garbage \in Garbage : summaries' = Catalogue(header', garbage)
    /\ pc' = "panel"
    /\ UNCHANGED <<cardVars, inserted, game, panel, slot, tries>>

\* The status check or every read attempt fails: the panel never opens.
CatalogFails ==
    /\ pc = "catalog"
    /\ header' \in {header, EmptyHeader}
    /\ pc' = "play"
    /\ UNCHANGED <<cardVars, headerSuspect, inserted, unacknowledged, game,
                   summaries, panel, slot, tries>>

\* The cursor confirms a slot.  The save panel takes any; the load panel one
\* whose displayed HP is not zero.
ConfirmSlot ==
    /\ pc = "panel"
    /\ slot' \in Slots
    /\ panel = "load" => summaries[slot'] # NoSummary
    /\ pc' = IF panel = "save" THEN "write_check" ELSE "read_check"
    /\ UNCHANGED <<cardVars, bufferVars, inserted, unacknowledged, game,
                   summaries, panel, tries>>

ConfirmFormat ==
    /\ pc = "panel"
    /\ panel = "save"
    /\ pc' = "format"
    /\ UNCHANGED <<cardVars, bufferVars, inserted, unacknowledged, game,
                   summaries, panel, slot, tries>>

ClosePanel ==
    /\ pc = "panel"
    /\ pc' = "play"
    /\ UNCHANGED <<cardVars, bufferVars, inserted, unacknowledged, game,
                   summaries, panel, slot, tries>>

-----------------------------------------------------------------------------
(* memory_card_check_or_format, confirmed.                                 *)

\* format() removes the file from the card; its blocks keep their contents.
FormatCard ==
    /\ pc = "format"
    /\ inserted \in Cards
    /\ cards' = [cards EXCEPT ![inserted].file = FALSE]
    /\ suspect' = suspect \ {inserted}
    /\ unacknowledged' = FALSE
    /\ summaries' = [s \in Slots |-> NoSummary]
    /\ pc' = "panel"
    /\ tries' = 0
    /\ UNCHANGED <<bufferVars, inserted, game, panel, slot>>

\* Mutant: the format loop does not count its attempts.
FormatAttemptsUncounted ==
    /\ pc = "format"
    /\ unacknowledged' \in {unacknowledged, inserted = NoCard}
    /\ UNCHANGED <<cardVars, bufferVars, inserted, game, summaries, pc, panel,
                   slot, tries>>

FormatAttemptFails ==
    /\ pc = "format"
    /\ tries' = (tries + 1) % Attempts
    /\ IF tries' = 0 THEN /\ pc' = "panel"
                          /\ summaries' = [s \in Slots |-> NoSummary]
                     ELSE UNCHANGED <<pc, summaries>>
    /\ unacknowledged' \in {unacknowledged, inserted = NoCard}
    /\ UNCHANGED <<cardVars, bufferVars, inserted, game, panel, slot>>

-----------------------------------------------------------------------------
(* save_system_write_slot and save_file_write_slot.                        *)

\* A new device is acknowledged and then written like any other.
WriteCheck ==
    /\ pc = "write_check"
    /\ inserted \in Cards
    /\ unacknowledged' = FALSE
    /\ pc' = "open"
    /\ UNCHANGED <<cardVars, bufferVars, inserted, game, summaries, panel, slot,
                   tries>>

WriteCheckFails ==
    /\ pc = "write_check"
    /\ pc' = "panel"
    /\ UNCHANGED <<cardVars, bufferVars, inserted, unacknowledged, game,
                   summaries, panel, slot, tries>>

OpenMainFile ==
    /\ pc = "open"
    /\ cards[inserted].file
    /\ pc' = "payload"
    /\ UNCHANGED <<cardVars, bufferVars, inserted, unacknowledged, game,
                   summaries, panel, slot, tries>>

\* Mutant: the header image is not initialised for the new file.
CreateKeepsHeader ==
    /\ pc = "open"
    /\ ~cards[inserted].file
    /\ cards' = [cards EXCEPT ![inserted] = [BlankCard EXCEPT !.file = TRUE]]
    /\ pc' = "payload"
    /\ UNCHANGED <<bufferVars, suspect, inserted, unacknowledged, game, summaries,
                   panel, slot, tries>>

\* The file is created and the header image starts afresh.  Until the header is
\* written the new file's directory is what its blocks happen to hold.
CreateMainFile ==
    /\ pc = "open"
    /\ ~cards[inserted].file
    /\ cards' = [cards EXCEPT ![inserted] =
                    IF "leftover" \in Faults THEN [@ EXCEPT !.file = TRUE]
                                             ELSE [BlankCard EXCEPT !.file = TRUE]]
    /\ suspect' = IF "leftover" \in Faults THEN suspect \cup {inserted} ELSE suspect
    /\ header' = EmptyHeader
    /\ headerSuspect' = FALSE
    /\ pc' = "payload"
    /\ UNCHANGED <<inserted, unacknowledged, game, summaries, panel, slot, tries>>

\* Neither opening nor creating works: NO_SPACE or FORMAT_REQUIRED.
OpenFails ==
    /\ pc = "open"
    /\ pc' = "panel"
    /\ UNCHANGED <<cardVars, bufferVars, inserted, unacknowledged, game,
                   summaries, panel, slot, tries>>

\* Mutant: a slot's payload is overwritten in place.
PayloadInPlace(c, content) ==
    /\ cards' = [cards EXCEPT ![c].payload[
                    IF Tagged(header, slot) # {} THEN First(Tagged(header, slot))
                                                 ELSE WriteEntry(header)] = content]
    /\ suspect' = IF headerSuspect THEN suspect \cup {c} ELSE suspect

\* The header image decides where the payload goes: a header that does not
\* belong to the card makes every entry of the card suspect.
PayloadTouches(c, content) ==
    /\ cards' = [cards EXCEPT ![c].payload[WriteEntry(header)] = content]
    /\ suspect' = IF headerSuspect THEN suspect \cup {c} ELSE suspect

WritePayload ==
    /\ pc = "payload"
    /\ PayloadTouches(inserted, game)
    /\ header' = Retag(header, WriteEntry(header), slot, Summary(game))
    /\ pc' = "header"
    /\ tries' = 0
    /\ UNCHANGED <<headerSuspect, inserted, unacknowledged, game, summaries,
                   panel, slot>>

\* An attempt writes some, all or none of the frames and reports failure.
PayloadAttemptFails ==
    /\ pc = "payload"
    /\ \E content \in {cards[inserted].payload[WriteEntry(header)], game, Torn} :
          PayloadTouches(inserted, content)
    /\ tries' = (tries + 1) % Attempts
    /\ pc' = IF tries' = 0 THEN "panel" ELSE pc
    /\ UNCHANGED <<bufferVars, inserted, unacknowledged, game, summaries, panel,
                   slot>>

\* The save is complete and the panel closes.
WriteHeader ==
    /\ pc = "header"
    /\ cards' = [cards EXCEPT ![inserted].header = header]
    /\ suspect' = IF headerSuspect THEN suspect \cup {inserted}
                                   ELSE suspect \ {inserted}
    /\ pc' = "play"
    /\ tries' = 0
    /\ UNCHANGED <<bufferVars, inserted, unacknowledged, game, summaries, panel,
                   slot>>

\* The directory frame may be written although the attempt is reported failed.
\* After the last attempt the panel stays open with the retagged header image.
HeaderAttemptFails ==
    /\ pc = "header"
    /\ tries + 1 < Attempts \/ "header" \in Faults
    /\ \E written \in {cards[inserted].header, header} :
          cards' = [cards EXCEPT ![inserted].header = written]
    /\ tries' = (tries + 1) % Attempts
    /\ IF tries' = 0 THEN /\ pc' = "panel"
                          /\ suspect' = suspect \cup {inserted}
                     ELSE UNCHANGED <<pc, suspect>>
    /\ UNCHANGED <<bufferVars, inserted, unacknowledged, game, summaries, panel,
                   slot>>

-----------------------------------------------------------------------------
(* save_system_read_slot and save_file_read_slot.                          *)

\* Mutant: a new device is acknowledged but its header not read.
RefuseWithoutRefresh ==
    /\ pc = "read_check"
    /\ inserted \in Cards
    /\ unacknowledged
    /\ unacknowledged' = FALSE
    /\ pc' = "panel"
    /\ UNCHANGED <<cardVars, bufferVars, inserted, game, summaries, panel, slot,
                   tries>>

\* A new device: the header image is refreshed and the read refused.  The
\* panel's summaries stay as they were.
RefuseNewDevice ==
    /\ pc = "read_check"
    /\ inserted \in Cards
    /\ unacknowledged
    /\ \/ \E opened \in Openings(inserted) : HeaderRead(inserted, opened)
       \/ header' = EmptyHeader /\ headerSuspect' = TRUE
    /\ unacknowledged' = FALSE
    /\ pc' = "panel"
    /\ UNCHANGED <<cardVars, inserted, game, summaries, panel, slot, tries>>

\* The status is OK and the header image names the slot.
ReadCheck ==
    /\ pc = "read_check"
    /\ inserted \in Cards
    /\ ~unacknowledged
    /\ Tagged(header, slot) # {}
    /\ cards[inserted].file
    /\ pc' = "verify"
    /\ UNCHANGED <<cardVars, bufferVars, inserted, unacknowledged, game,
                   summaries, panel, slot, tries>>

\* Another status, no such slot, no file, a failed transfer: the panel stays.
ReadFails ==
    /\ pc \in {"read_check", "verify", "read_payload"}
    /\ pc' = "panel"
    /\ UNCHANGED <<cardVars, bufferVars, inserted, unacknowledged, game,
                   summaries, panel, slot, tries>>

\* The card's summaries must equal the header image's.
VerifyCatalog ==
    /\ pc = "verify"
    /\ cards[inserted].header.summaries = header.summaries
    /\ pc' = "read_payload"
    /\ UNCHANGED <<cardVars, bufferVars, inserted, unacknowledged, game,
                   summaries, panel, slot, tries>>

\* The payload becomes the game state; a torn one is some game state.
ReadPayload ==
    /\ pc = "read_payload"
    /\ LET content == cards[inserted].payload[First(Tagged(header, slot))] IN
         game' \in IF content = Torn THEN Saves ELSE {content}
    /\ pc' = "play"
    /\ UNCHANGED <<cardVars, bufferVars, inserted, unacknowledged, summaries,
                   panel, slot, tries>>

-----------------------------------------------------------------------------
(* The environment.                                                        *)

ChangeCard ==
    /\ pc \in {"play", "off"} \/ (pc = "panel" /\ "swap" \in Faults)
    /\ inserted' \in (Cards \cup {NoCard}) \ {inserted}
    /\ unacknowledged' = TRUE
    /\ headerSuspect' = TRUE
    /\ UNCHANGED <<cardVars, header, game, summaries, pc, panel, slot, tries>>

PowerFails ==
    /\ pc # "off"
    /\ pc' = "off"
    /\ header' = EmptyHeader
    /\ headerSuspect' = FALSE
    /\ summaries' = [s \in Slots |-> NoSummary]
    /\ tries' = 0
    /\ UNCHANGED <<cardVars, inserted, unacknowledged, game, panel, slot>>

PowerOn ==
    /\ pc = "off"
    /\ pc' = "play"
    /\ unacknowledged' = TRUE
    /\ game' \in Saves
    /\ UNCHANGED <<cardVars, bufferVars, inserted, summaries, panel, slot, tries>>

-----------------------------------------------------------------------------

CardStep ==
    \/ ReadCatalog \/ CatalogFails \/ FormatCard \/ FormatAttemptFails
    \/ WriteCheck \/ WriteCheckFails \/ OpenMainFile \/ CreateMainFile \/ OpenFails
    \/ WritePayload \/ PayloadAttemptFails \/ WriteHeader \/ HeaderAttemptFails
    \/ RefuseNewDevice \/ ReadCheck \/ ReadFails \/ VerifyCatalog \/ ReadPayload

PlayerStep == Play \/ OpenPanel \/ ConfirmSlot \/ ConfirmFormat \/ ClosePanel

Next == CardStep \/ PlayerStep \/ ChangeCard \/ PowerFails \/ PowerOn

Spec == Init /\ [][Next]_vars

\* The program runs its card steps; nothing obliges the player or the mains.
FairSpec == Spec /\ WF_vars(CardStep)

-----------------------------------------------------------------------------
(* What the program promises.                                              *)

\* What each slot of card c yields: the payload its directory entry points at.
Contents(c) ==
    [s \in Slots |->
        IF cards[c].file /\ Tagged(cards[c].header, s) # {}
          THEN cards[c].payload[First(Tagged(cards[c].header, s))]
          ELSE NoSave]

Transfers == {"catalog", "format", "write_check", "open", "payload", "header",
              "read_check", "verify", "read_payload"}

\* Every variable holds a value the code can give it.
TypeOK ==
    /\ cards \in [Cards -> Card]
    /\ inserted \in Cards \cup {NoCard}
    /\ unacknowledged \in BOOLEAN
    /\ header \in Header
    /\ game \in Saves
    /\ summaries \in [Slots -> Summaries \cup {NoSummary}]
    /\ pc \in Transfers \cup {"off", "play", "panel"}
    /\ panel \in {"save", "load"}
    /\ slot \in Slots
    /\ tries \in 0..(Attempts - 1)
    /\ suspect \subseteq Cards
    /\ headerSuspect \in BOOLEAN

\* No two entries carry the same slot, so that a lookup by slot is unambiguous.
UniqueSlots(h) ==
    \A d, e \in Entries : h.ids[d] = h.ids[e] /\ h.ids[d] \in Slots => d = e

\* save_file_write_slot never checks that its search found an entry: with one
\* entry more than slots, and each slot in at most one entry, one is always
\* free, so the payload offset never starts from -1.
WriteFindsFreeEntry ==
    pc \in {"open", "payload"} =>
        /\ FreeEntries(header) # {}
        /\ UniqueSlots(header)
        /\ WriteEntry(header) \in FreeEntries(header)

\* Whenever power fails, every slot a card's directory names is a complete save
\* whose summary is the one the directory shows: the payload is written before
\* the header and into an entry the directory does not use.
SlotsAreComplete ==
    \A c \in Cards \ suspect : \A e \in Entries :
        cards[c].file /\ cards[c].header.ids[e] \in Slots =>
            /\ cards[c].payload[e] \in Saves
            /\ Summary(cards[c].payload[e]) = cards[c].header.summaries[e]

\* A step leaves what every card's slots yield alone, erases the card (format),
\* or puts the current game into the confirmed slot of the inserted card (the
\* header write).  In particular neither a failed save nor a power failure
\* costs a slot its previous save.
OnlyCommitsChangeSlots ==
    [][\A c \in Cards : c \notin suspect /\ c \notin suspect' =>
          \/ Contents(c)' = Contents(c)
          \/ c = inserted /\ pc = "format" /\ Contents(c)' = [s \in Slots |-> NoSave]
          \/ c = inserted /\ pc = "header"
             /\ Contents(c)' = [Contents(c) EXCEPT ![slot] = game]]_vars

\* When the save panel closes on success the inserted card yields exactly the
\* current game for the confirmed slot, whatever faults came before.
AcknowledgedSaveIsStored ==
    [][pc = "header" /\ pc' = "play" => Contents(inserted)'[slot] = game]_vars

\* A load that reports success yields what the inserted card holds under the
\* confirmed slot, even when cards were changed while the panel was open.
LoadYieldsInsertedCardsSave ==
    [][pc = "read_payload" /\ pc' = "play" =>
          /\ Contents(inserted)[slot] # NoSave
          /\ Contents(inserted)[slot] # Torn => game' = Contents(inserted)[slot]]_vars

\* Every transfer ends, in the panel or back in the game: no retry loop runs for
\* ever while the card keeps answering.
TransferEnds == pc \in Transfers ~> pc \notin Transfers

\* docs/save-system.md: status 12 protects the cached catalogue, so that the
\* catalogue a load goes by is the one the panel shows.
LoadMatchesShownSummary ==
    [][pc = "verify" /\ pc' = "read_payload" =>
          header.summaries[First(Tagged(header, slot))] = summaries[slot]]_vars

-----------------------------------------------------------------------------
(* The inductive invariant behind SlotsAreComplete, OnlyCommitsChangeSlots *)
(* and AcknowledgedSaveIsStored.                                           *)

\* Entry e of header h describes the payload that card c holds there.
Backed(h, c, e) ==
    /\ cards[c].payload[e] \in Saves
    /\ Summary(cards[c].payload[e]) = h.summaries[e]

PanelOpen == pc \notin {"off", "play", "catalog"}

\* The header image was read from the inserted card, or started afresh with it.
HeaderTrusted == PanelOpen /\ ~headerSuspect /\ inserted \in Cards /\ cards[inserted].file

\* While the card's directory is not suspect, the image equals it, except that
\* between payload and header it is one commit ahead.
HeaderFollowsCard ==
    HeaderTrusted /\ inserted \notin suspect =>
        \/ header = cards[inserted].header
        \/ pc = "header"
           /\ header = Retag(cards[inserted].header, WriteEntry(cards[inserted].header),
                             slot, Summary(game))

\* The slots the image names are complete on the card even while the card's own
\* directory is suspect: a retry after failed header writes overwrites nothing
\* that the image names.
ImageIsComplete ==
    HeaderTrusted => \A e \in Entries : header.ids[e] \in Slots => Backed(header, inserted, e)

CommitIsReady ==
    pc = "header" => \E e \in Entries : /\ header.ids[e] = slot
                                        /\ cards[inserted].payload[e] = game

\* A payload written under an image that is not the card's marks the card.
MistakeIsSuspected == pc = "header" /\ headerSuspect => inserted \in suspect

TransferHasCard ==
    /\ pc \in {"open", "payload", "header", "verify", "read_payload"} => inserted \in Cards
    /\ pc \in {"payload", "header", "verify", "read_payload"} => cards[inserted].file
    /\ pc \in {"verify", "read_payload"} => Tagged(header, slot) # {}

DirectoryInv ==
    /\ TypeOK
    /\ UniqueSlots(header)
    /\ \A c \in Cards : UniqueSlots(cards[c].header)
    /\ SlotsAreComplete
    /\ HeaderFollowsCard
    /\ ImageIsComplete
    /\ CommitIsReady
    /\ MistakeIsSuspected
    /\ TransferHasCard

\* The load panel goes by the inserted card's own directory, or by an empty one, from its
\* status check to the payload: a card changed meanwhile is a new device to the BIOS.
LoadInv ==
    /\ pc \in {"read_check", "verify", "read_payload"} => panel = "load"
    /\ pc \in {"format", "write_check", "open", "payload", "header"} => panel = "save"
    /\ pc \in {"verify", "read_payload"} => ~unacknowledged
    /\ panel = "load" /\ PanelOpen /\ ~unacknowledged =>
          header = EmptyHeader \/ (inserted \in Cards /\ header = cards[inserted].header)

-----------------------------------------------------------------------------
(* Without the faults that leave a card suspect, the file is an atomic     *)
(* store of slots.                                                         *)

\* No card is suspect, and an open panel belongs to the card in the slot.
Faultless == /\ suspect = {}
             /\ PanelOpen => ~headerSuspect /\ ~unacknowledged /\ inserted \in Cards

Store == INSTANCE SaveStore WITH store <- [c \in Cards |-> Contents(c)]
ImplementsStore == Store!Spec

=============================================================================
