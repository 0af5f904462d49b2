\* Two cards changed while panels are open, failing header writes and opens, old data in new files.
CONSTANTS
    Cards = {c1, c2}
    SlotCount = 1
    Summaries = {s1}
    Details = {d1, d2}
    Attempts = 2
    Faults = {"swap", "header", "open", "leftover"}
    NoCard = NoCard
    Torn = Torn
    NoSummary = NoSummary
    NoSave = NoSave
SPECIFICATION Spec
INVARIANTS DirectoryInv WriteFindsFreeEntry
PROPERTIES OnlyCommitsChangeSlots AcknowledgedSaveIsStored LoadYieldsInsertedCardsSave
