---------------------------- MODULE MCCycleRunner ----------------------------
(* Small instances of CycleRunner for TLC.                                 *)
EXTENDS CycleRunner, TLC

CONSTANTS w1, w2

One == {w1}
Two == {w1, w2}
WorkersAlike == Permutations(Two)

OneAuto    == [w \in One |-> "auto"]
BothHybrid == [w \in Two |-> "hybrid"]
=============================================================================
