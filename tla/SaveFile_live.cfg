\* Transfers end, under every fault, with three attempts.
CONSTANTS
    Cards = {card}
    SlotCount = 2
    Summaries = {s1}
    Details = {d1}
    Attempts = 3
    Faults = {"header", "open", "swap"}
    NoCard = NoCard
    Torn = Torn
    NoSummary = NoSummary
    NoSave = NoSave
SPECIFICATION FairSpec
PROPERTIES TransferEnds
