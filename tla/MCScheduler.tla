----------------------------- MODULE MCScheduler -----------------------------
(* Small instances of Scheduler for TLC: a day of four ticks.              *)
EXTENDS Scheduler

TwoSlots   == <<1, 3>>
(* A slot at midnight, one at the last tick and one listed twice.          *)
EdgeSlots == <<0, 1, 1, 3>>
=============================================================================
