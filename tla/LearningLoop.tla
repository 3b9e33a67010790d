---------------------------- MODULE LearningLoop ----------------------------
(***************************************************************************)
(* The learning loop of nooa-sns (learning/loop.py, learning/reward.py):   *)
(* a metrics slot polls every due observation window of every published    *)
(* post, stores what it is told, and then settles a reward for each        *)
(* publication whose 72-hour window has been observed.  Slots of several   *)
(* processes (the resident runner, the metrics command) may overlap; each  *)
(* SQL statement or transaction and each platform call is a step.          *)
(***************************************************************************)
EXTENDS Integers, FiniteSets, FiniteSetsExt, Functions

CONSTANTS
  Publications,  \* publication ids, in the order a slot visits them
  Workers,       \* the processes that run metrics slots
  Platforms,     \* instagram, youtube
  Platform,      \* [Publications -> Platforms] where a post is
  Serves,        \* [Workers -> Platforms] the platform a worker's poller knows
  Arms,          \* the rows of topic_stats: (topic, format, platform)
  Arm,           \* [Publications -> Arms]
  GoalKnown,     \* the publications whose cycle's goal is a preset
  Rewards,       \* the ratios a judgement may come to, the capped ones included
  MinBaseline,   \* MIN_BASELINE_N: samples without which nothing is judged
  MaxCrashes     \* bound: processes that die in a slot

ASSUME PublicationsAssumption ==
  /\ Publications \subseteq Nat \ {0}
  /\ IsFiniteSet(Publications)
  /\ Platform \in [Publications -> Platforms]
  /\ Serves \in [Workers -> Platforms]
  /\ Arm \in [Publications -> Arms]
  /\ GoalKnown \subseteq Publications
ASSUME NumbersAssumption ==
  Rewards \subseteq Nat /\ MinBaseline \in Nat /\ MaxCrashes \in Nat

VARIABLES
  age,        \* windows that have come since published_at, Unborn before it
  observed,   \* the window indexes of a publication's metric_observation rows
  signal,     \* the goal's first signal in its settle-window observation
  reward,     \* the reward row: a ratio, Null, or Open when there is none
  trials,     \* topic_stats.trials
  rewardSum,  \* topic_stats.reward_sum
  pc,         \* where each worker is in its slot
  posts,      \* the published posts of the first SELECT, with their age then
  due,        \* the windows still to poll
  unsettled,  \* the publications still to settle
  polled,     \* what the poller returned
  judged,     \* what the reward function returned
  crashes     \* processes lost so far

data  == <<age, observed, signal, reward, trials, rewardSum>>
local == <<pc, posts, due, unsettled, polled, judged>>
vars  == <<age, observed, signal, reward, trials, rewardSum,
           pc, posts, due, unsettled, polled, judged, crashes>>

-----------------------------------------------------------------------------
Windows == 0..2   \* 6h, 24h, 72h after published_at
(* Mutant: rewards settle on the 24-hour window.                           *)
SETTLE_WINDOW_Early == 1
SETTLE_WINDOW_INDEX == 2

Unborn == -1
Open   == -2   \* no reward row
Null   == -1   \* a reward row whose value is NULL
None   == "none"
(* A signal's value: what the rewards tell apart is whether it is there    *)
(* and whether it is zero.                                                 *)
Signals == {"missing", "zero", "positive"}

Init ==
  /\ age = [p \in Publications |-> Unborn]
  /\ observed = [p \in Publications |-> {}]
  /\ signal = [p \in Publications |-> "missing"]
  /\ reward = [p \in Publications |-> Open]
  /\ trials = [a \in Arms |-> 0]
  /\ rewardSum = [a \in Arms |-> 0]
  /\ pc = [w \in Workers |-> "idle"]
  /\ posts = [w \in Workers |-> <<>>]
  /\ due = [w \in Workers |-> {}]
  /\ unsettled = [w \in Workers |-> {}]
  /\ polled = [w \in Workers |-> None]
  /\ judged = [w \in Workers |-> Open]
  /\ crashes = 0

-----------------------------------------------------------------------------
(* The publish path and time                                               *)

Publish(p) ==
  /\ age[p] = Unborn
  /\ age' = [age EXCEPT ![p] = 0]
  /\ UNCHANGED <<observed, signal, reward, trials, rewardSum, local, crashes>>

(* The next window of a post comes.                                        *)
WindowComes(p) ==
  /\ age[p] \in Windows
  /\ age' = [age EXCEPT ![p] = @ + 1]
  /\ UNCHANGED <<observed, signal, reward, trials, rewardSum, local, crashes>>

-----------------------------------------------------------------------------
(* Polling                                                                 *)

(* The process ends: its slot is over, the rest of its work undone.        *)
Ends(w) ==
  /\ pc' = [pc EXCEPT ![w] = "idle"]
  /\ posts' = [posts EXCEPT ![w] = <<>>]
  /\ due' = [due EXCEPT ![w] = {}]
  /\ unsettled' = [unsettled EXCEPT ![w] = {}]
  /\ polled' = [polled EXCEPT ![w] = None]
  /\ judged' = [judged EXCEPT ![w] = Open]

Published == {p \in Publications : age[p] # Unborn}

(* due_windows, first SELECT: the clock is read and the posts are.         *)
SelectPosts(w) ==
  /\ pc[w] = "idle"
  /\ Published # {}
  /\ posts' = [posts EXCEPT ![w] = Restrict(age, Published)]
  /\ pc' = [pc EXCEPT ![w] = "due"]
  /\ UNCHANGED <<data, due, unsettled, polled, judged, crashes>>

(* Mutant: a publication counts as observed once it has any observation.   *)
DueOfFirst(w) ==
  {d \in (DOMAIN posts[w]) \X Windows :
     d[2] < posts[w][d[1]] /\ observed[d[1]] = {}}

(* The windows that had come and have no observation.                      *)
DueOf(w) ==
  {d \in (DOMAIN posts[w]) \X Windows :
     d[2] < posts[w][d[1]] /\ d[2] \notin observed[d[1]]}

SelectObserved(w) ==
  /\ pc[w] = "due"
  /\ due' = [due EXCEPT ![w] = DueOf(w)]
  /\ posts' = [posts EXCEPT ![w] = <<>>]
  /\ pc' = [pc EXCEPT ![w] = "poll"]
  /\ UNCHANGED <<data, unsettled, polled, judged, crashes>>

(* The loop's present window: publications in order, windows ascending.    *)
Present(w, p, k) ==
  /\ <<p, k>> \in due[w]
  /\ \A d \in due[w] : p < d[1] \/ (p = d[1] /\ k <= d[2])

(* The two pollers: an API gives a number, or there are several ways it    *)
(* may not, which all make the signal missing and never zero.              *)
InstagramInsights(said) ==
  IF said \in {"no entry", "no values", "no number"} THEN "missing" ELSE said
YouTubeMetrics(said) ==
  IF said \in {"no rows", "short row", "no cell"} THEN "missing" ELSE said
Heard(platform) ==
  IF platform = "instagram"
  THEN {InstagramInsights(said) :
          said \in {"no entry", "no values", "no number", "zero", "positive"}}
  ELSE {YouTubeMetrics(said) :
          said \in {"no rows", "short row", "no cell", "zero", "positive"}}

(* The poller answers with all its keys, some of them missing.             *)
PollAnswers(w, p, k) ==
  /\ pc[w] = "poll" /\ Present(w, p, k)
  /\ Serves[w] = Platform[p]
  /\ \E v \in Heard(Serves[w]) : polled' = [polled EXCEPT ![w] = v]
  /\ pc' = [pc EXCEPT ![w] = "store"]
  /\ UNCHANGED <<data, posts, due, unsettled, judged, crashes>>

(* It raises, as it does for any error of the API and always for a post of *)
(* the other platform: an event, and the loop goes on.                     *)
PollRaises(w, p, k) ==
  /\ pc[w] = "poll" /\ Present(w, p, k)
  /\ due' = [due EXCEPT ![w] = @ \ {<<p, k>>}]
  /\ UNCHANGED <<data, pc, posts, unsettled, polled, judged, crashes>>

(* One transaction inserts the observation and its values.  Mutant: the    *)
(* observation another slot stored in the meantime is overwritten.         *)
StoreOverwrites(w, p, k) ==
  /\ pc[w] = "store" /\ Present(w, p, k)
  /\ observed' = [observed EXCEPT ![p] = @ \cup {k}]
  /\ signal' = IF k = SETTLE_WINDOW_INDEX
               THEN [signal EXCEPT ![p] = polled[w]] ELSE signal
  /\ due' = [due EXCEPT ![w] = @ \ {<<p, k>>}]
  /\ polled' = [polled EXCEPT ![w] = None]
  /\ pc' = [pc EXCEPT ![w] = "poll"]
  /\ UNCHANGED <<age, reward, trials, rewardSum, posts, unsettled, judged, crashes>>
Store(w, p, k) ==
  /\ pc[w] = "store" /\ Present(w, p, k)
  /\ k \notin observed[p]
  /\ observed' = [observed EXCEPT ![p] = @ \cup {k}]
  /\ signal' = IF k = SETTLE_WINDOW_INDEX
               THEN [signal EXCEPT ![p] = polled[w]] ELSE signal
  /\ due' = [due EXCEPT ![w] = @ \ {<<p, k>>}]
  /\ polled' = [polled EXCEPT ![w] = None]
  /\ pc' = [pc EXCEPT ![w] = "poll"]
  /\ UNCHANGED <<age, reward, trials, rewardSum, posts, unsettled, judged, crashes>>

(* UNIQUE (publication_id, window_index): another slot was first.  The     *)
(* exception is outside the try and ends the process.                      *)
StoreRaises(w, p, k) ==
  /\ pc[w] = "store" /\ Present(w, p, k)
  /\ k \in observed[p]
  /\ Ends(w)
  /\ UNCHANGED <<data, crashes>>

-----------------------------------------------------------------------------
(* Settling                                                                *)

(* The observed publications without a reward.                             *)
SelectUnsettled(w) ==
  /\ pc[w] = "poll" /\ due[w] = {}
  /\ unsettled' = [unsettled EXCEPT ![w] =
       {p \in Publications :
          SETTLE_WINDOW_INDEX \in observed[p] /\ reward[p] = Open}]
  /\ pc' = [pc EXCEPT ![w] = "settle"]
  /\ UNCHANGED <<data, posts, due, polled, judged, crashes>>

(* The settle-window samples of the same platform, the publication's own   *)
(* excluded.                                                               *)
Samples(p) ==
  {q \in Publications \ {p} :
     /\ Platform[q] = Platform[p]
     /\ 2 \in observed[q]
     /\ signal[q] # "missing"}

(* InterimBaselineReward: a registered goal, a signal that is not missing, *)
(* enough samples, and a median above zero (at most half of them are 0).   *)
Judgeable(p) ==
  /\ p \in GoalKnown
  /\ signal[p] # "missing"
  /\ Cardinality(Samples(p)) >= MinBaseline
  /\ 2 * Cardinality({q \in Samples(p) : signal[q] = "zero"})
       <= Cardinality(Samples(p))

First(w, p) == p \in unsettled[w] /\ \A q \in unsettled[w] : p <= q

(* reward_fn reads the values and the baseline: any ratio, or NULL.        *)
Judge(w, p) ==
  /\ pc[w] = "settle" /\ First(w, p)
  /\ \E r \in IF Judgeable(p) THEN Rewards ELSE {Null} :
       judged' = [judged EXCEPT ![w] = r]
  /\ pc' = [pc EXCEPT ![w] = "record"]
  /\ UNCHANGED <<data, posts, due, unsettled, polled, crashes>>

(* The upsert of topic_stats that goes with a reward that is not NULL.     *)
Counts(p, r) ==
  IF r = Null THEN UNCHANGED <<trials, rewardSum>>
  ELSE /\ trials' = [trials EXCEPT ![Arm[p]] = @ + 1]
       /\ rewardSum' = [rewardSum EXCEPT ![Arm[p]] = @ + r]

(* Mutant: a reward another slot recorded is recorded again.               *)
RecordAgain(w, p) ==
  /\ pc[w] = "record" /\ First(w, p)
  /\ reward' = [reward EXCEPT ![p] = judged[w]]
  /\ Counts(p, judged[w])
  /\ unsettled' = [unsettled EXCEPT ![w] = @ \ {p}]
  /\ judged' = [judged EXCEPT ![w] = Open]
  /\ pc' = [pc EXCEPT ![w] = "settle"]
  /\ UNCHANGED <<age, observed, signal, posts, due, polled, crashes>>

(* One transaction inserts the reward and counts it.                       *)
Record(w, p) ==
  /\ pc[w] = "record" /\ First(w, p)
  /\ reward[p] = Open
  /\ reward' = [reward EXCEPT ![p] = judged[w]]
  /\ Counts(p, judged[w])
  /\ unsettled' = [unsettled EXCEPT ![w] = @ \ {p}]
  /\ judged' = [judged EXCEPT ![w] = Open]
  /\ pc' = [pc EXCEPT ![w] = "settle"]
  /\ UNCHANGED <<age, observed, signal, posts, due, polled, crashes>>

(* UNIQUE (publication_id): another slot was first; the transaction is     *)
(* rolled back and the process ends.                                       *)
RecordRaises(w, p) ==
  /\ pc[w] = "record" /\ First(w, p)
  /\ reward[p] # Open
  /\ Ends(w)
  /\ UNCHANGED <<data, crashes>>

SlotDone(w) ==
  /\ pc[w] = "settle" /\ unsettled[w] = {}
  /\ Ends(w)
  /\ UNCHANGED <<data, crashes>>

Crash(w) ==
  /\ crashes < MaxCrashes
  /\ pc[w] # "idle"
  /\ Ends(w)
  /\ crashes' = crashes + 1
  /\ UNCHANGED data

-----------------------------------------------------------------------------
Slot(w) ==
  \/ SelectPosts(w) \/ SelectObserved(w) \/ SelectUnsettled(w) \/ SlotDone(w)
  \/ \E p \in Publications, k \in Windows :
       PollAnswers(w, p, k) \/ PollRaises(w, p, k)
         \/ Store(w, p, k) \/ StoreRaises(w, p, k)
  \/ \E p \in Publications : Judge(w, p) \/ Record(w, p) \/ RecordRaises(w, p)

Next ==
  \/ \E p \in Publications : Publish(p) \/ WindowComes(p)
  \/ \E w \in Workers : Slot(w) \/ Crash(w)

Spec == Init /\ [][Next]_vars

(* Time passes, slots are run again and again and run on, and a platform   *)
(* polled again and again answers at last.                                 *)
FairSpec ==
  /\ Spec
  /\ \A p \in Publications : WF_vars(WindowComes(p))
  /\ \A w \in Workers :
       /\ WF_vars(Slot(w))
       /\ \A p \in Publications, k \in Windows : SF_vars(PollAnswers(w, p, k))

-----------------------------------------------------------------------------
(* Properties                                                              *)

(* Every variable stays in its type; who stores or records has something   *)
(* to store or record.                                                     *)
TypeOK ==
  /\ age \in [Publications -> Unborn..3]
  /\ observed \in [Publications -> SUBSET Windows]
  /\ signal \in [Publications -> Signals]
  /\ reward \in [Publications -> Rewards \cup {Open, Null}]
  /\ trials \in [Arms -> Nat] /\ rewardSum \in [Arms -> Nat]
  /\ pc \in [Workers -> {"idle", "due", "poll", "store", "settle", "record"}]
  /\ \A w \in Workers :
       /\ DOMAIN posts[w] \subseteq Publications
       /\ due[w] \subseteq Publications \X Windows
       /\ unsettled[w] \subseteq Publications
       /\ polled[w] \in Signals \cup {None}
       /\ judged[w] \in Rewards \cup {Open, Null}
       /\ pc[w] = "store" => polled[w] # None
       /\ pc[w] = "record" => judged[w] # Open
  /\ crashes \in 0..MaxCrashes

(* topic_stats is the sum of the rewards that are not NULL, each counted   *)
(* once (loop.py:203-220): through overlapping slots and crashes.          *)
Judged(a) == {p \in Publications : Arm[p] = a /\ reward[p] \notin {Open, Null}}
StatsMatchRewards ==
  \A a \in Arms :
    /\ trials[a] = Cardinality(Judged(a))
    /\ rewardSum[a] = MapThenSumSet(LAMBDA p : reward[p], Judged(a))

(* A reward rests on an observation made after the 72-hour window came,    *)
(* and one that counts on a signal that is there and on enough samples of  *)
(* other publications (reward.py:9-14).                                    *)
RewardEarned ==
  \A p \in Publications : reward[p] # Open =>
    /\ 2 \in observed[p] /\ age[p] = 3
    /\ reward[p] # Null =>
         signal[p] # "missing" /\ Cardinality(Samples(p)) >= MinBaseline

(* No window is observed before it came (loop.py:95), and every one at     *)
(* most once: history is never rewritten.                                  *)
NotTooEarly == \A p \in Publications : \A k \in observed[p] : k < age[p]
HistoryKept ==
  [][\A p \in Publications :
       /\ observed[p] \subseteq observed'[p]
       /\ 2 \in observed[p] => signal'[p] = signal[p]
       /\ reward[p] # Open => reward'[p] = reward[p]]_vars

(* Every published post on a platform some worker serves is judged in the  *)
(* end, although polls fail, slots collide and processes die.              *)
AllJudged ==
  \A p \in {q \in Publications : \E w \in Workers : Serves[w] = Platform[q]} :
    age[p] = 0 ~> reward[p] # Open

(* The loop implements RewardLedger.                                       *)
Ledger == INSTANCE RewardLedger
LedgerSpec == Ledger!Spec
=============================================================================
