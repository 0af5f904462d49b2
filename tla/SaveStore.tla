----------------------------- MODULE SaveStore -----------------------------
(***************************************************************************)
(* What the memory-card save file promises its callers: each card is a set *)
(* of slots, a save replaces one slot in a single step, and a load yields  *)
(* what the slot holds.  SaveFile implements it.                           *)
(***************************************************************************)
CONSTANTS Cards, Slots, Saves, NoSave

VARIABLES store,  \* what each card yields for each slot
          game    \* the state of the running game

EmptySlots == [s \in Slots |-> NoSave]

Init == store = [c \in Cards |-> EmptySlots] /\ game \in Saves

Save(c, s) ==
    /\ store' = [store EXCEPT ![c][s] = game]
    /\ UNCHANGED game

Erase(c) ==
    /\ store' = [store EXCEPT ![c] = EmptySlots]
    /\ UNCHANGED game

Load(c, s) ==
    /\ store[c][s] # NoSave
    /\ game' = store[c][s]
    /\ UNCHANGED store

\* Playing, or starting over after a power failure.
Play == game' \in Saves /\ UNCHANGED store

Next == \/ Play
        \/ \E c \in Cards : Erase(c) \/ \E s \in Slots : Save(c, s) \/ Load(c, s)

Spec == Init /\ [][Next]_<<store, game>>

=============================================================================
