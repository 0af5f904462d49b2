\* One card, the game's three slots: power failures and failed transfers.
CONSTANTS
    Cards = {card}
    SlotCount = 3
    Summaries = {s1, s2}
    Details = {d1}
    Attempts = 2
    Faults = {}
    NoCard = NoCard
    Torn = Torn
    NoSummary = NoSummary
    NoSave = NoSave
SPECIFICATION Spec
INVARIANTS SlotsAreComplete
PROPERTIES ImplementsStore
