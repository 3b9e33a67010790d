------------------------------ MODULE Scheduler ------------------------------
(***************************************************************************)
(* The slot scheduler of nooa-sns (scheduler.py) and the resident runner   *)
(* of the operations CLI (bootstrap.py): one process that sleeps until the *)
(* next slot of the day, triggers a cycle, and begins again.  An instant   *)
(* is a day and a time of the day; the wall clock it reads can be set      *)
(* back, the clock its sleep is measured by cannot.                        *)
(***************************************************************************)
EXTENDS Integers, Sequences

CONSTANTS
  DayLength,    \* the times of a day are 0..DayLength-1
  Slots,        \* SlotSchedule.slots: times of day, ascending
  LastDay,      \* bound: the last day of the behaviour
  NestedRun,    \* does the trigger call asyncio.run, as _cmd_resident's does?
  MaxRaises,    \* bound: triggers that raise for a reason of their own
  MaxSetBacks,  \* bound: times the wall clock is set back
  MaxCrashes    \* bound: times the process dies

ASSUME DayAssumption == DayLength \in Nat \ {0} /\ LastDay \in Nat

Times == 0..(DayLength - 1)

(* __post_init__ refuses an empty list and one that is not sorted.         *)
ASSUME SlotsAssumption ==
  /\ Slots \in Seq(Times)
  /\ Slots # <<>>
  /\ \A i, j \in DOMAIN Slots : i < j => Slots[i] <= Slots[j]
ASSUME FlagsAssumption == NestedRun \in BOOLEAN
ASSUME BoundsAssumption ==
  MaxRaises \in Nat /\ MaxSetBacks \in Nat /\ MaxCrashes \in Nat

VARIABLES
  now,      \* the wall clock
  pc,       \* where the resident loop is, "down" when there is no process
  target,   \* the slot the loop waits for or runs
  left,     \* how much of the sleep is left
  fired,    \* the slots triggered, in order
  ran,      \* the slots whose trigger returned
  slept,    \* the slots that came before a planned sleep of the process ended
  raises, setBacks, crashes

vars == <<now, pc, target, left, fired, ran, slept, raises, setBacks, crashes>>

-----------------------------------------------------------------------------
(* Instants and slots                                                      *)

Instants == Nat \X Times
Before(a, b) == a[1] < b[1] \/ (a[1] = b[1] /\ a[2] < b[2])
UpTo(a, b)   == ~Before(b, a)

SlotInstants == {s \in Instants : \E i \in DOMAIN Slots : s[2] = Slots[i]}

(* The slots of today that are still to come, as indexes into Slots.       *)
(* Mutant: a slot that has just come counts as well.                       *)
AheadOrNow(t) == {i \in DOMAIN Slots : t[2] <= Slots[i]}
Ahead(t) == {i \in DOMAIN Slots : t[2] < Slots[i]}

First(S) == CHOOSE i \in S : \A j \in S : i <= j

(* next_slot: the first slot after t, tomorrow's first when today has none.*)
(* Mutant: tomorrow's last.                                                *)
NextSlotLast(t) ==
  IF Ahead(t) # {} THEN <<t[1], Slots[First(Ahead(t))]>>
  ELSE <<t[1] + 1, Slots[Len(Slots)]>>
NextSlot(t) ==
  IF Ahead(t) # {} THEN <<t[1], Slots[First(Ahead(t))]>>
  ELSE <<t[1] + 1, Slots[1]>>

(* due_slots: the slots from last_run, exclusive, to t, inclusive; none    *)
(* when nothing has run yet.                                               *)
NeverRun == <<>>
DueSlots(last, t) ==
  IF last = NeverRun THEN {}
  ELSE {s \in (last[1]..t[1]) \X {Slots[i] : i \in DOMAIN Slots} :
          Before(last, s) /\ UpTo(s, t)}

(* From t to the slot s of this day or the next.                           *)
(* Mutants: one short, or without the change of day.                       *)
WaitSameDay(t, s) == s[2] - t[2]
WaitShort(t, s) == (IF s[1] = t[1] THEN s[2] - t[2]
                    ELSE (DayLength - t[2]) + s[2]) - 1
Wait(t, s) == IF s[1] = t[1] THEN s[2] - t[2]
              ELSE (DayLength - t[2]) + s[2]

Later(t) == IF t[2] + 1 < DayLength THEN <<t[1], t[2] + 1>> ELSE <<t[1] + 1, 0>>

-----------------------------------------------------------------------------
Init ==
  /\ now \in {0} \X Times
  /\ pc = "loop"
  /\ target = NeverRun
  /\ left = 0
  /\ fired = <<>>
  /\ ran = {}
  /\ slept = {}
  /\ raises = 0 /\ setBacks = 0 /\ crashes = 0

(* Time passes for everyone; a sleep may last longer than was planned.     *)
Tick ==
  /\ Later(now)[1] <= LastDay
  /\ now' = Later(now)
  /\ left' = IF left > 0 THEN left - 1 ELSE 0
  /\ slept' = IF pc = "asleep" /\ left > 0 /\ now' \in SlotInstants
              THEN slept \cup {now'} ELSE slept
  /\ UNCHANGED <<pc, target, fired, ran, raises, setBacks, crashes>>

(* The wall clock is set back by a tick; a sleep goes on as it was.        *)
SetBack ==
  /\ setBacks < MaxSetBacks
  /\ now[2] > 0
  /\ now' = <<now[1], now[2] - 1>>
  /\ setBacks' = setBacks + 1
  /\ UNCHANGED <<pc, target, left, fired, ran, slept, raises, crashes>>

(* The loop reads the clock once, and sleeps until the next slot.          *)
Plan ==
  /\ pc = "loop"
  /\ target' = NextSlot(now)
  /\ left' = Wait(now, NextSlot(now))
  /\ pc' = "asleep"
  /\ UNCHANGED <<now, fired, ran, slept, raises, setBacks, crashes>>

Wake ==
  /\ pc = "asleep" /\ left = 0
  /\ fired' = Append(fired, target)
  /\ pc' = "trigger"
  /\ UNCHANGED <<now, target, left, ran, slept, raises, setBacks, crashes>>

(* The trigger has run its cycle and its metrics.  asyncio.run refuses to  *)
(* be called inside a running event loop, and the resident loop is one.    *)
TriggerReturns ==
  /\ pc = "trigger"
  /\ ~NestedRun
  /\ ran' = ran \cup {target}
  /\ pc' = "loop"
  /\ UNCHANGED <<now, target, left, fired, slept, raises, setBacks, crashes>>

Dies ==
  /\ pc' = "down"
  /\ target' = NeverRun
  /\ left' = 0
  /\ slept' = {}

(* A trigger's exception is passed on and ends the process.                *)
TriggerRaises ==
  /\ pc = "trigger"
  /\ NestedRun \/ raises < MaxRaises
  /\ raises' = IF NestedRun THEN raises ELSE raises + 1
  /\ Dies
  /\ UNCHANGED <<now, fired, ran, setBacks, crashes>>

Crash ==
  /\ crashes < MaxCrashes
  /\ pc # "down"
  /\ Dies
  /\ crashes' = crashes + 1
  /\ UNCHANGED <<now, fired, ran, raises, setBacks>>

(* An operator starts the resident runner again: it remembers nothing.     *)
Restart ==
  /\ pc = "down"
  /\ pc' = "loop"
  /\ UNCHANGED <<now, target, left, fired, ran, slept, raises, setBacks, crashes>>

Resident == Plan \/ Wake \/ TriggerReturns \/ TriggerRaises

Next == Tick \/ SetBack \/ Resident \/ Crash \/ Restart

Spec == Init /\ [][Next]_vars

(* Time passes, the process is scheduled, a trigger ends.                  *)
FairSpec == Spec /\ WF_vars(Tick) /\ WF_vars(Resident)

-----------------------------------------------------------------------------
(* Properties                                                              *)

(* Every variable stays in its type; a process asleep or in a trigger has  *)
(* a slot for it.                                                          *)
TypeOK ==
  /\ now \in Instants
  /\ pc \in {"down", "loop", "asleep", "trigger"}
  /\ target \in SlotInstants \cup {NeverRun}
  /\ pc \in {"asleep", "trigger"} => target # NeverRun
  /\ left \in Nat
  /\ fired \in Seq(SlotInstants)
  /\ ran \subseteq SlotInstants
  /\ slept \subseteq SlotInstants
  /\ raises \in 0..MaxRaises
  /\ setBacks \in 0..MaxSetBacks
  /\ crashes \in 0..MaxCrashes

(* While the wall clock is not set back:                                   *)
ClockKept == setBacks = 0

(* No slot is triggered twice, and slots are triggered in order            *)
(* (scheduler.py:5-6): through late sleeps, long triggers and restarts.    *)
Ordered   == \A i, j \in DOMAIN fired : i < j => Before(fired[i], fired[j])
FiredOnce == ClockKept => Ordered

(* A slot is triggered when it has come, never before.                     *)
Timely     == \A i \in DOMAIN fired : UpTo(fired[i], now)
NeverEarly == ClockKept => Timely

(* A slot that comes before a planned sleep has ended is triggered; it is  *)
(* still to be triggered only while it is the one waited for               *)
(* (scheduler.py:67-77).  Only a late sleep, a long trigger or a process   *)
(* that is down loses slots.                                               *)
Served ==
  \A s \in slept :
    \/ \E i \in DOMAIN fired : fired[i] = s
    \/ pc = "asleep" /\ target = s
SleepsThroughNone == ClockKept => Served

(* A slot that is triggered runs its cycle and its metrics in the end      *)
(* (bootstrap.py:437).                                                     *)
SlotsRun ==
  \A s \in (0..LastDay) \X Times :
    (pc = "trigger" /\ target = s) ~> s \in ran
=============================================================================
