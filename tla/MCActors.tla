------------------------------ MODULE MCActors ------------------------------
(* Two floors: one with the gated actor and the one that transforms, one    *)
(* with the boss and a part of his that summons.                            *)
EXTENDS Actors, TLC

Place(slot, definition) == [slot |-> slot, definition |-> definition]
Unused == Place("free", "part")

TwoFloors ==
    ("low" :> [b \in Slots |-> CASE b = 0 -> Place("homebound", "source")
                                  [] b = 1 -> Place("respawning", "result")
                                  [] OTHER -> Unused]) @@
    ("high" :> [b \in Slots |-> CASE b = 0 -> Place("persistent", "boss")
                                   [] b = 1 -> Place("persistent", "part")
                                   [] OTHER -> Unused])
OneHealth == [d \in Definitions |-> IF d = "part" THEN 2 ELSE 1]
OneStep == [d \in Definitions |-> 1]
=============================================================================
