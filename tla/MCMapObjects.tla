---------------------------- MODULE MCMapObjects ----------------------------
(* The session starts on the floor of the boss.  One instance has every kind *)
(* of object and no memory card, the other a card and what a save holds.     *)
EXTENDS MapObjects, TLC

CONSTANTS key, stone

Bare(kind) == [kind |-> kind, item |-> None, link |-> NoLink, items |-> <<>>]
Holding(kind, items) == [Bare(kind) EXCEPT !.items = items]
Linked(kind, link) == [Bare(kind) EXCEPT !.link = link]

EveryKind ==
    (5 :> << Linked("door", 128), Linked("switch", 128), Linked("fountain", 13),
             Linked("grave", key), Holding("box", <<stone>>),
             [Bare("pickup") EXCEPT !.item = key], Bare("savepoint") >>) @@
    (3 :> << [Linked("socket", 12) EXCEPT !.item = stone], Linked("hazard", 12),
             Linked("emitter", 11), Linked("switch", 11),
             [Linked("chest", 53) EXCEPT !.items = <<None>>] >>)

WithCard ==
    (5 :> << Linked("fountain", 13), Bare("savepoint"),
             [Linked("chest", 52) EXCEPT !.items = <<key, stone>>],
             Linked("grave", key) >>) @@
    (3 :> << [Linked("socket", 12) EXCEPT !.item = stone], Linked("hazard", 12),
             Linked("switch", 11), Linked("emitter", 11) >>)
=============================================================================
