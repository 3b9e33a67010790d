--------------------------- MODULE SchedulerProofs ---------------------------
(***************************************************************************)
(* What the scheduler promises for every length of the day and every list  *)
(* of slots: the computed slot is the next one, the catch-up is exact, and *)
(* as long as the wall clock is not set back no slot is triggered twice or *)
(* early.                                                                  *)
(***************************************************************************)
EXTENDS Scheduler, WellFoundedInduction, TLAPS

(* What "the first" picks out of a set of indexes.                         *)
LEMMA FirstIsLeast ==
  ASSUME NEW S \in SUBSET Nat, S # {}
  PROVE  First(S) \in S /\ \A j \in S : First(S) <= j
<1> DEFINE Less == OpToRel(<, Nat)
<1>1. \E x \in S : \A y \in S : <<y, x>> \notin Less
  <2>1. IsWellFoundedOn(Less, Nat)
    BY NatLessThanWellFounded
  <2> HIDE DEF Less
  <2> QED
    BY <2>1, WFMin
<1>2. \E x \in S : \A y \in S : x <= y
  <2>1. PICK x \in S : \A y \in S : <<y, x>> \notin Less
    BY <1>1
  <2>2. \A y \in S : ~(y < x)
    BY <2>1 DEF OpToRel
  <2> QED
    BY <2>2
<1> QED
  BY <1>2 DEF First

(* next_slot returns a slot after t and none lies between them.            *)
THEOREM NextSlotIsNext ==
  ASSUME NEW t \in Instants
  PROVE  /\ NextSlot(t) \in SlotInstants
         /\ Before(t, NextSlot(t))
         /\ \A s \in SlotInstants : Before(t, s) => UpTo(NextSlot(t), s)
<1> USE DayAssumption, SlotsAssumption
<1>1. t[1] \in Nat /\ t[2] \in Times
  BY DEF Instants
<1>2. CASE Ahead(t) # {}
  <2> DEFINE i == First(Ahead(t))
  <2>1. i \in Ahead(t) /\ \A j \in Ahead(t) : i <= j
    <3>1. Ahead(t) \in SUBSET Nat
      BY DEF Ahead
    <3> QED
      BY <1>2, <3>1, FirstIsLeast
  <2>2. i \in DOMAIN Slots /\ t[2] < Slots[i] /\ Slots[i] \in Times
    BY <2>1 DEF Ahead
  <2>3. NextSlot(t) = <<t[1], Slots[i]>>
    BY <1>2 DEF NextSlot
  <2> HIDE DEF i
  <2>4. NextSlot(t) \in SlotInstants /\ Before(t, NextSlot(t))
    BY <1>1, <2>2, <2>3 DEF SlotInstants, Instants, Before
  <2>5. ASSUME NEW s \in SlotInstants, Before(t, s)
        PROVE  UpTo(NextSlot(t), s)
    <3>1. PICK j \in DOMAIN Slots : s[2] = Slots[j]
      BY DEF SlotInstants
    <3>2. s[1] \in Nat /\ s[2] \in Times
      BY DEF SlotInstants, Instants
    <3>3. CASE s[1] = t[1]
      <4>1. j \in Ahead(t)
        BY <1>1, <2>5, <3>1, <3>2, <3>3 DEF Ahead, Before, Times
      <4>2. Slots[i] <= Slots[j]
        BY <2>1, <2>2, <3>1, <4>1 DEF Times
      <4> QED
        BY <1>1, <2>2, <2>3, <3>1, <3>2, <3>3, <4>2 DEF UpTo, Before, Times
    <3>4. CASE s[1] # t[1]
      BY <1>1, <2>3, <2>5, <3>2, <3>4 DEF UpTo, Before
    <3> QED
      BY <3>3, <3>4
  <2> QED
    BY <2>4, <2>5
<1>3. CASE Ahead(t) = {}
  <2>1. 1 \in DOMAIN Slots /\ Slots[1] \in Times
    OBVIOUS
  <2>2. NextSlot(t) = <<t[1] + 1, Slots[1]>>
    BY <1>3 DEF NextSlot
  <2>3. NextSlot(t) \in SlotInstants /\ Before(t, NextSlot(t))
    BY <1>1, <2>1, <2>2 DEF SlotInstants, Instants, Before
  <2>4. ASSUME NEW s \in SlotInstants, Before(t, s)
        PROVE  UpTo(NextSlot(t), s)
    <3>1. PICK j \in DOMAIN Slots : s[2] = Slots[j]
      BY DEF SlotInstants
    <3>2. s[1] \in Nat /\ s[2] \in Times
      BY DEF SlotInstants, Instants
    <3>3. s[1] # t[1]
      BY <1>1, <1>3, <2>4, <3>1, <3>2 DEF Ahead, Before, Times
    <3>4. Slots[1] <= Slots[j]
      BY <2>1, <3>1 DEF Times
    <3> QED
      BY <1>1, <2>1, <2>2, <2>4, <3>1, <3>2, <3>3, <3>4
         DEF UpTo, Before, Times
  <2> QED
    BY <2>3, <2>4
<1> QED
  BY <1>2, <1>3

(* due_slots misses no slot since the last run and repeats none, over any  *)
(* number of days.                                                         *)
THEOREM CatchUpIsExact ==
  ASSUME NEW last \in Instants, NEW t \in Instants
  PROVE  DueSlots(last, t) =
           {s \in SlotInstants : Before(last, s) /\ UpTo(s, t)}
<1>0. last # NeverRun
  <2>1. last = <<last[1], last[2]>>
    BY DEF Instants
  <2>2. DOMAIN <<last[1], last[2]>> = 1..2
    OBVIOUS
  <2>3. DOMAIN <<>> = {}
    OBVIOUS
  <2>4. 1 \in 1..2
    OBVIOUS
  <2> QED
    BY <2>1, <2>2, <2>3, <2>4 DEF NeverRun
<1> USE <1>0, DayAssumption, SlotsAssumption
<1>1. /\ last[1] \in Nat /\ last[2] \in Times
      /\ t[1] \in Nat /\ t[2] \in Times
  BY DEF Instants
<1>2. ASSUME NEW s \in DueSlots(last, t)
      PROVE  s \in SlotInstants /\ Before(last, s) /\ UpTo(s, t)
  <2>1. /\ s \in (last[1]..t[1]) \X {Slots[i] : i \in DOMAIN Slots}
        /\ Before(last, s) /\ UpTo(s, t)
    BY <1>1, <1>2 DEF DueSlots
  <2>2. s \in SlotInstants
    BY <1>1, <2>1 DEF SlotInstants, Instants
  <2> QED
    BY <2>1, <2>2
<1>3. ASSUME NEW s \in SlotInstants, Before(last, s), UpTo(s, t)
      PROVE  s \in DueSlots(last, t)
  <2>1. s[1] \in Nat /\ s = <<s[1], s[2]>> /\ \E i \in DOMAIN Slots : s[2] = Slots[i]
    BY DEF SlotInstants, Instants
  <2>2. s[1] \in last[1]..t[1]
    BY <1>1, <1>3, <2>1 DEF Before, UpTo
  <2>3. s \in (last[1]..t[1]) \X {Slots[i] : i \in DOMAIN Slots}
    BY <2>1, <2>2
  <2> QED
    BY <1>1, <1>3, <2>3 DEF DueSlots
<1> QED
  BY <1>2, <1>3

-----------------------------------------------------------------------------
(* The invariant                                                           *)

Bounded == now[1] <= LastDay

(* How a sleep and the wall clock hang together while the clock is not set *)
(* back.                                                                   *)
Sleeping ==
  pc = "asleep" =>
    IF left = 0 THEN UpTo(target, now)
    ELSE \/ target[1] = now[1] /\ target[2] = now[2] + left
         \/ target[1] = now[1] + 1 /\ DayLength + target[2] = now[2] + left

InOrder ==
  /\ Ordered
  /\ Timely
  /\ pc = "asleep" => \A i \in DOMAIN fired : Before(fired[i], target)

(* No slot lies between the clock of a sleeping process and its target.    *)
NoneMissed ==
  /\ pc = "asleep" =>
       \A s \in SlotInstants : ~(Before(now, s) /\ Before(s, target))
  /\ Served

Inv == TypeOK /\ Bounded /\ (ClockKept => Sleeping /\ InOrder /\ NoneMissed)

LEMMA LaterInstant ==
  ASSUME NEW t \in Instants
  PROVE  Later(t) \in Instants /\ Before(t, Later(t))
BY DayAssumption DEF Instants, Later, Before, Times

LEMMA BeforeOrder ==
  ASSUME NEW a \in Instants, NEW b \in Instants, NEW c \in Instants
  PROVE  /\ UpTo(a, b) /\ Before(b, c) => Before(a, c)
         /\ Before(a, b) /\ UpTo(b, c) => UpTo(a, c)
         /\ Before(a, b) => UpTo(a, b)
         /\ UpTo(a, b) /\ UpTo(b, c) => UpTo(a, c)
         /\ Before(a, b) /\ Before(b, c) => Before(a, c)
BY DayAssumption DEF Instants, Before, UpTo, Times

(* The instant after t is the first after t.                               *)
LEMMA LaterIsNext ==
  ASSUME NEW t \in Instants, NEW s \in Instants, Before(t, s)
  PROVE  UpTo(Later(t), s) /\ (UpTo(s, Later(t)) => s = Later(t))
<1>1. /\ t[1] \in Nat /\ t[2] \in Times /\ s[1] \in Nat /\ s[2] \in Times
      /\ s = <<s[1], s[2]>>
  BY DEF Instants
<1>2. CASE t[2] + 1 < DayLength
  BY <1>1, <1>2, DayAssumption DEF Later, UpTo, Before, Times
<1>3. CASE ~(t[2] + 1 < DayLength)
  BY <1>1, <1>3, DayAssumption DEF Later, UpTo, Before, Times
<1> QED
  BY <1>2, <1>3

LEMMA TypesInit == Init => TypeOK /\ Bounded
<1> SUFFICES ASSUME Init PROVE TypeOK /\ Bounded
  OBVIOUS
<1>1. now \in Instants /\ now[1] = 0
  BY DEF Init, Instants
<1> QED
  BY <1>1, DayAssumption, BoundsAssumption DEF Init, TypeOK, Bounded

LEMMA TypesStep == TypeOK /\ Bounded /\ [Next]_vars => TypeOK' /\ Bounded'
<1> SUFFICES ASSUME TypeOK, Bounded, [Next]_vars PROVE TypeOK' /\ Bounded'
  OBVIOUS
<1> USE BoundsAssumption, DayAssumption DEF TypeOK, Bounded
<1>1. CASE Tick
  <2>1. now' \in Instants
    BY <1>1, LaterInstant DEF Tick
  <2>2. slept' \subseteq SlotInstants
    BY <1>1 DEF Tick
  <2> QED
    BY <1>1, <2>1, <2>2 DEF Tick
<1>2. CASE SetBack
  <2>1. now' \in Instants /\ now'[1] = now[1]
    BY <1>2 DEF SetBack, Instants, Times
  <2> QED
    BY <1>2, <2>1 DEF SetBack
<1>3. CASE Plan
  <2>1. NextSlot(now) \in SlotInstants
    BY NextSlotIsNext
  <2>2. NextSlot(now) # NeverRun
    BY <2>1 DEF SlotInstants, Instants, NeverRun
  <2>3. Wait(now, NextSlot(now)) \in Nat
    <3> DEFINE s == NextSlot(now)
    <3>1. /\ now[1] \in Nat /\ now[2] \in Nat /\ now[2] < DayLength
          /\ s[1] \in Nat /\ s[2] \in Nat
      BY <2>1 DEF SlotInstants, Instants, Times
    <3>2. Before(now, s)
      BY NextSlotIsNext
    <3> HIDE DEF s
    <3>3. Wait(now, s) \in Nat
      BY <3>1, <3>2 DEF Wait, Before
    <3> QED
      BY <3>3 DEF s
  <2> QED
    BY <1>3, <2>1, <2>2, <2>3 DEF Plan
<1>4. CASE Wake
  BY <1>4 DEF Wake
<1>5. CASE TriggerReturns
  BY <1>5 DEF TriggerReturns
<1>6. CASE TriggerRaises
  BY <1>6 DEF TriggerRaises, Dies
<1>7. CASE Crash
  BY <1>7 DEF Crash, Dies
<1>8. CASE Restart
  BY <1>8 DEF Restart
<1>9. CASE UNCHANGED vars
  BY <1>9 DEF vars
<1> QED
  BY <1>1, <1>2, <1>3, <1>4, <1>5, <1>6, <1>7, <1>8, <1>9 DEF Next, Resident

(* Every variable of the scheduler stays in its type, for any day, slots   *)
(* and bounds.                                                             *)
THEOREM SchedulerTypeCorrect == Spec => []TypeOK
<1>1. Init => TypeOK /\ Bounded
  BY TypesInit
<1>2. TypeOK /\ Bounded /\ [Next]_vars => TypeOK' /\ Bounded'
  BY TypesStep
<1> QED
  BY <1>1, <1>2, PTL DEF Spec

-----------------------------------------------------------------------------
(* No slot twice, none early                                               *)

LEMMA OrderInit == Init => Sleeping /\ InOrder
<1>1. DOMAIN <<>> = {}
  OBVIOUS
<1> QED
  BY <1>1 DEF Init, Sleeping, InOrder, Ordered, Timely

(* Time passing keeps a sleep in step with its slot.                       *)
LEMMA SleepTick ==
  ASSUME TypeOK, Sleeping, Tick
  PROVE  Sleeping'
<1> SUFFICES ASSUME pc = "asleep" PROVE Sleeping'
  BY DEF Tick, Sleeping
<1> USE DayAssumption DEF TypeOK
<1>1. /\ now[1] \in Nat /\ now[2] \in Times
      /\ target[1] \in Nat /\ target[2] \in Times
      /\ target \in Instants /\ now \in Instants
  BY DEF Instants, SlotInstants
<1>2. now' = Later(now) /\ target' = target
      /\ left' = IF left > 0 THEN left - 1 ELSE 0
  BY DEF Tick
<1>3. CASE left = 0
  <2>1. UpTo(target, now)
    BY <1>3 DEF Sleeping
  <2>2. UpTo(target, Later(now))
    BY <1>1, <2>1, LaterInstant, BeforeOrder
  <2> QED
    BY <1>2, <1>3, <2>2 DEF Sleeping
<1>4. CASE left > 0 /\ target[1] = now[1] /\ target[2] = now[2] + left
  <2>1. now' = <<now[1], now[2] + 1>> /\ left' = left - 1
    BY <1>1, <1>2, <1>4 DEF Later, Times
  <2>2. UpTo(target, now') \/ left' # 0
    BY <1>1, <1>4, <2>1 DEF UpTo, Before, Times
  <2>3. target[1] = now'[1] /\ target[2] = now'[2] + left'
    BY <1>1, <1>4, <2>1 DEF Times
  <2> QED
    BY <1>2, <2>2, <2>3 DEF Sleeping
<1>5. CASE left > 0 /\ target[1] = now[1] + 1
           /\ DayLength + target[2] = now[2] + left
  <2>1. CASE now[2] + 1 < DayLength
    <3>1. now' = <<now[1], now[2] + 1>> /\ left' = left - 1
      BY <1>1, <1>2, <1>5, <2>1 DEF Later
    <3>2. target[1] = now'[1] + 1 /\ DayLength + target[2] = now'[2] + left'
      BY <1>1, <1>5, <3>1 DEF Times
    <3>3. left' # 0
      BY <1>1, <1>5, <2>1, <3>1 DEF Times
    <3> QED
      BY <1>2, <3>2, <3>3 DEF Sleeping
  <2>2. CASE ~(now[2] + 1 < DayLength)
    <3>1. now' = <<now[1] + 1, 0>> /\ left' = left - 1
      BY <1>1, <1>2, <1>5, <2>2 DEF Later
    <3>2. target[1] = now'[1] /\ target[2] = now'[2] + left'
      <4>1. now[2] = DayLength - 1
        BY <1>1, <2>2 DEF Times
      <4>2. target[2] = left - 1
        BY <1>1, <1>5, <4>1 DEF Times
      <4>3. now'[1] = now[1] + 1 /\ now'[2] = 0
        BY <3>1
      <4> QED
        BY <1>1, <1>5, <3>1, <4>2, <4>3 DEF Times
    <3>3. UpTo(target, now') \/ left' # 0
      BY <1>1, <3>1, <3>2 DEF UpTo, Before, Times
    <3> QED
      BY <1>2, <3>2, <3>3 DEF Sleeping
  <2> QED
    BY <2>1, <2>2
<1> QED
  BY <1>3, <1>4, <1>5 DEF Sleeping

(* The sleep that is planned ends when the slot comes.                     *)
LEMMA SleepPlan ==
  ASSUME TypeOK, Plan
  PROVE  Sleeping' /\ Before(now, target')
<1> USE DayAssumption
<1>1. now \in Instants
  BY DEF TypeOK
<1> DEFINE s == NextSlot(now)
<1>2. s \in SlotInstants /\ Before(now, s)
  BY <1>1, NextSlotIsNext
<1>3. s[1] = now[1] \/ s[1] = now[1] + 1
  BY <1>1 DEF NextSlot, Instants
<1>4. /\ now[1] \in Nat /\ now[2] \in Times
      /\ s[1] \in Nat /\ s[2] \in Times
  BY <1>1, <1>2 DEF Instants, SlotInstants
<1> HIDE DEF s
<1>5. target' = s /\ left' = Wait(now, s) /\ now' = now /\ pc' = "asleep"
  BY DEF Plan, s
<1>6. CASE s[1] = now[1]
  BY <1>2, <1>4, <1>5, <1>6 DEF Sleeping, Wait, Before, Times
<1>7. CASE s[1] = now[1] + 1
  BY <1>2, <1>4, <1>5, <1>7 DEF Sleeping, Wait, Before, Times
<1> QED
  BY <1>2, <1>3, <1>5, <1>6, <1>7

LEMMA OrderStep ==
  ASSUME ClockKept', TypeOK, Sleeping, InOrder, [Next]_vars
  PROVE  Sleeping' /\ InOrder'
<1> USE DEF InOrder
<1>0. now \in Instants /\ fired \in Seq(Instants)
      /\ \A i \in DOMAIN fired : fired[i] \in Instants
  BY DEF TypeOK, SlotInstants
<1>1. CASE Tick
  <2>1. Sleeping'
    BY <1>1, SleepTick
  <2>2. Timely'
    <3>1. now' \in Instants /\ Before(now, now') /\ fired' = fired
      BY <1>0, <1>1, LaterInstant DEF Tick
    <3> QED
      BY <1>0, <3>1, BeforeOrder DEF Timely
  <2> QED
    BY <1>1, <2>1, <2>2 DEF Tick, Ordered
<1>2. CASE SetBack
  BY <1>2, BoundsAssumption DEF SetBack, TypeOK, ClockKept
<1>3. CASE Plan
  <2>1. Sleeping' /\ Before(now, target') /\ target' \in Instants
    BY <1>0, <1>3, SleepPlan, NextSlotIsNext DEF Plan, SlotInstants
  <2>2. \A i \in DOMAIN fired : Before(fired[i], target')
    BY <1>0, <2>1, BeforeOrder DEF Timely
  <2> QED
    BY <1>3, <2>1, <2>2 DEF Plan, Ordered, Timely
<1>4. CASE Wake
  <2>1. /\ pc = "asleep" /\ left = 0 /\ now' = now /\ pc' = "trigger"
        /\ fired' = Append(fired, target) /\ target \in Instants
    BY <1>4 DEF Wake, TypeOK, SlotInstants
  <2>2. /\ DOMAIN fired' = 1..(Len(fired) + 1)
        /\ \A i \in DOMAIN fired : i \in DOMAIN fired' /\ fired'[i] = fired[i]
        /\ fired'[Len(fired) + 1] = target
        /\ \A i \in DOMAIN fired' : i \in DOMAIN fired \/ i = Len(fired) + 1
        /\ \A i \in DOMAIN fired : i < Len(fired) + 1
    BY <1>0, <2>1
  <2>3. Ordered'
    <3> SUFFICES ASSUME NEW i \in DOMAIN fired', NEW j \in DOMAIN fired', i < j
                 PROVE  Before(fired'[i], fired'[j])
      BY DEF Ordered
    <3>1. i \in DOMAIN fired
      BY <1>0, <2>2
    <3>2. CASE j \in DOMAIN fired
      BY <2>2, <3>1, <3>2 DEF Ordered
    <3>3. CASE j = Len(fired) + 1
      BY <2>1, <2>2, <3>1, <3>3
    <3> QED
      BY <2>2, <3>2, <3>3
  <2>4. UpTo(target, now)
    BY <2>1 DEF Sleeping
  <2>5. Timely'
    BY <2>1, <2>2, <2>4 DEF Timely
  <2> QED
    BY <2>1, <2>3, <2>5 DEF Sleeping
<1>5. CASE TriggerReturns
  BY <1>5 DEF TriggerReturns, Sleeping, Ordered, Timely
<1>6. CASE TriggerRaises
  BY <1>6 DEF TriggerRaises, Dies, Sleeping, Ordered, Timely
<1>7. CASE Crash
  BY <1>7 DEF Crash, Dies, Sleeping, Ordered, Timely
<1>8. CASE Restart
  BY <1>8 DEF Restart, Sleeping, Ordered, Timely
<1>9. CASE UNCHANGED vars
  BY <1>9 DEF vars, Sleeping, Ordered, Timely
<1> QED
  BY <1>1, <1>2, <1>3, <1>4, <1>5, <1>6, <1>7, <1>8, <1>9 DEF Next, Resident

LEMMA MissedInit == Init => NoneMissed
BY DEF Init, NoneMissed, Served

(* A slot that comes before the sleep's end is the one slept for.          *)
LEMMA MissedTick ==
  ASSUME TypeOK, Sleeping, NoneMissed, Tick
  PROVE  NoneMissed'
<1> USE DayAssumption
<1>1. now \in Instants /\ now' \in Instants /\ Before(now, now')
      /\ now' = Later(now) /\ pc' = pc /\ target' = target /\ fired' = fired
  BY LaterInstant DEF Tick, TypeOK
<1>2. \A s \in SlotInstants : s \in Instants
  BY DEF SlotInstants
<1>3. ASSUME pc = "asleep", NEW s \in SlotInstants, Before(now', s), Before(s, target)
      PROVE  FALSE
  BY <1>1, <1>2, <1>3, BeforeOrder DEF NoneMissed
<1>4. ASSUME pc = "asleep", left > 0, now' \in SlotInstants
      PROVE  now' = target
  <2>1. target \in SlotInstants /\ target \in Instants
    BY <1>2, <1>4 DEF TypeOK
  <2>2. Before(now, target)
    <3>1. /\ now[1] \in Nat /\ now[2] \in Times
          /\ target[1] \in Nat /\ target[2] \in Times /\ left \in Nat
      BY <1>1, <2>1 DEF Instants, TypeOK
    <3> QED
      BY <1>4, <3>1 DEF Sleeping, Before, Times
  <2>3. UpTo(target, now')
    BY <1>1, <1>4 DEF NoneMissed, UpTo
  <2> QED
    BY <1>1, <2>1, <2>2, <2>3, LaterIsNext
<1>5. Served'
  BY <1>1, <1>4 DEF Tick, NoneMissed, Served
<1> QED
  BY <1>1, <1>3, <1>5 DEF NoneMissed

LEMMA MissedStep ==
  ASSUME ClockKept', TypeOK, Sleeping, NoneMissed, [Next]_vars
  PROVE  NoneMissed'
<1>1. CASE Tick
  BY <1>1, MissedTick
<1>2. CASE SetBack
  BY <1>2, BoundsAssumption DEF SetBack, TypeOK, ClockKept
<1>3. CASE Plan
  <2>1. now \in Instants /\ target' = NextSlot(now) /\ now' = now
    BY <1>3 DEF Plan, TypeOK
  <2>2. \A s \in SlotInstants : Before(now, s) => ~Before(s, target')
    BY <2>1, NextSlotIsNext DEF UpTo
  <2> QED
    BY <1>3, <2>1, <2>2 DEF Plan, NoneMissed, Served
<1>4. CASE Wake
  <2>1. /\ fired' = Append(fired, target) /\ fired \in Seq(SlotInstants)
        /\ slept' = slept /\ pc' = "trigger"
    BY <1>4 DEF Wake, TypeOK
  <2>2. /\ \A i \in DOMAIN fired : i \in DOMAIN fired' /\ fired'[i] = fired[i]
        /\ Len(fired) + 1 \in DOMAIN fired' /\ fired'[Len(fired) + 1] = target
    BY <2>1
  <2> QED
    BY <2>1, <2>2 DEF NoneMissed, Served
<1>5. CASE TriggerReturns
  BY <1>5 DEF TriggerReturns, NoneMissed, Served
<1>6. CASE TriggerRaises
  BY <1>6 DEF TriggerRaises, Dies, NoneMissed, Served
<1>7. CASE Crash
  BY <1>7 DEF Crash, Dies, NoneMissed, Served
<1>8. CASE Restart
  BY <1>8 DEF Restart, NoneMissed, Served
<1>9. CASE UNCHANGED vars
  BY <1>9 DEF vars, NoneMissed, Served
<1> QED
  BY <1>1, <1>2, <1>3, <1>4, <1>5, <1>6, <1>7, <1>8, <1>9 DEF Next, Resident

(* A clock that has been set back stays so.                                *)
LEMMA SetBackForGood == ASSUME TypeOK, [Next]_vars, ClockKept' PROVE ClockKept
BY BoundsAssumption DEF TypeOK, ClockKept, Next, vars, Tick, SetBack, Resident,
   Plan, Wake, TriggerReturns, TriggerRaises, Dies, Crash, Restart

LEMMA InvHolds == Spec => []Inv
<1>1. Init => Inv
  BY TypesInit, OrderInit, MissedInit DEF Inv
<1>2. Inv /\ [Next]_vars => Inv'
  BY TypesStep, OrderStep, MissedStep, SetBackForGood DEF Inv
<1> QED
  BY <1>1, <1>2, PTL DEF Spec

(* While the wall clock is not set back, no slot is triggered twice and    *)
(* slots are triggered in order, through late sleeps, long triggers,       *)
(* exceptions, crashes and restarts.                                       *)
THEOREM SlotsFireOnce == Spec => []FiredOnce
<1>1. Inv => FiredOnce
  BY DEF Inv, InOrder, FiredOnce
<1> QED
  BY <1>1, InvHolds, PTL

(* Nor is one triggered before it has come.                                *)
THEOREM SlotsFireInTime == Spec => []NeverEarly
<1>1. Inv => NeverEarly
  BY DEF Inv, InOrder, NeverEarly
<1> QED
  BY <1>1, InvHolds, PTL

(* A slot that comes before a planned sleep has ended is triggered or is   *)
(* the one about to be.                                                    *)
THEOREM SleepMissesNoSlot == Spec => []SleepsThroughNone
<1>1. Inv => SleepsThroughNone
  BY DEF Inv, NoneMissed, SleepsThroughNone
<1> QED
  BY <1>1, InvHolds, PTL
=============================================================================
