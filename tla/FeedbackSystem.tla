--------------------------- MODULE FeedbackSystem ---------------------------
(***************************************************************************)
(* The learning loop over the database of PublishSystem: the metrics slots *)
(* read the publications that the cycles landed and the batches posted.    *)
(* LearningLoop has a post appear by itself; here it does so with the      *)
(* transaction of PgAttemptStore.save, and what a slot polls is the post   *)
(* id it read with the row.  The metrics command overlaps with everything. *)
(***************************************************************************)
EXTENDS PublishSystem, FiniteSets

CONSTANTS
  Pollers,      \* the processes that run metrics slots
  Serves,       \* [Pollers -> Platforms] the platform a poller knows
  Arms, Arm,    \* the rows of topic_stats, and [Publications -> Arms]
  GoalKnown,    \* the publications whose cycle's goal is a preset
  Rewards,      \* the ratios a judgement may come to
  MinBaseline,  \* MIN_BASELINE_N
  MaxDeaths     \* bound: pollers that die in a slot

ASSUME PollersAssumption ==
  /\ Serves \in [Pollers -> Platforms]
  /\ Arm \in [Publications -> Arms]
  /\ GoalKnown \subseteq Publications
ASSUME LearningAssumption ==
  Rewards \subseteq Nat /\ MinBaseline \in Nat /\ MaxDeaths \in Nat

VARIABLES
  age,          \* windows that have come since publication.published_at
  observed, signal, reward, trials, rewardSum,
  slot,         \* where each poller is in its slot
  seen, due, unsettled, polled, judged, deaths,
  targets,      \* the external_post_id a slot read with each row
  measured      \* history: the posts a publication's observations are of

L == INSTANCE LearningLoop WITH
       Workers <- Pollers, MaxCrashes <- MaxDeaths,
       pc <- slot, posts <- seen, crashes <- deaths

loopVars     == L!vars
feedbackVars == <<systemVars, loopVars, targets, measured>>

FeedbackInit ==
  /\ SystemInit /\ L!Init
  /\ targets = [m \in Pollers |-> <<>>]
  /\ measured = [p \in Publications |-> {}]

-----------------------------------------------------------------------------
(* Publishing                                                              *)

(* Mutant: a publication that failed is dated too.                         *)
DatesEveryEnd ==
  age' = [p \in Publications |->
            IF ledger[p].state \notin TERMINAL /\ ledger'[p].state \in TERMINAL
            THEN 0 ELSE age[p]]

(* One UPDATE writes external_post_id, always with another post's, and     *)
(* published_at.                                                           *)
Dates ==
  age' = [p \in Publications |-> IF postId'[p] # postId[p] THEN 0 ELSE age[p]]

Operates ==
  /\ SystemNext /\ Dates
  /\ UNCHANGED <<observed, signal, reward, trials, rewardSum, slot, seen, due, unsettled,
                 polled, judged, deaths, targets, measured>>

-----------------------------------------------------------------------------
(* Metrics slots                                                           *)

(* Mutant: the slot does not ask for the publication's status.             *)
PostedOrNot == {p \in Publications : status[p] # "absent"}

(* The rows of due_windows' SELECT.                                        *)
Posted == {p \in Publications : status[p] = "published" /\ postId[p] # 0}

SelectPosts(m) ==
  /\ slot[m] = "idle"
  /\ Posted # {}
  /\ seen' = [seen EXCEPT ![m] = Restrict(age, Posted)]
  /\ targets' = [targets EXCEPT ![m] = Restrict(postId, Posted)]
  /\ slot' = [slot EXCEPT ![m] = "due"]
  /\ UNCHANGED <<systemVars, age, observed, signal, reward, trials, rewardSum,
                 due, unsettled, polled, judged, deaths, measured>>

(* The observation a slot stores is of the post it read with the row.      *)
Store(m, p, k) ==
  /\ L!Store(m, p, k)
  /\ measured' = [measured EXCEPT ![p] = @ \cup {targets[m][p]}]
  /\ UNCHANGED <<systemVars, targets>>

(* Its other steps; what it read is gone when it is over.                  *)
SlotStep(m) ==
  /\ \/ L!SelectObserved(m) \/ L!SelectUnsettled(m) \/ L!SlotDone(m) \/ L!Crash(m)
     \/ \E p \in Publications, k \in L!Windows :
          L!PollAnswers(m, p, k) \/ L!PollRaises(m, p, k) \/ L!StoreRaises(m, p, k)
     \/ \E p \in Publications : L!Judge(m, p) \/ L!Record(m, p) \/ L!RecordRaises(m, p)
  /\ targets' = IF slot'[m] = "idle" THEN [targets EXCEPT ![m] = <<>>] ELSE targets
  /\ UNCHANGED <<systemVars, measured>>

WindowComes(p) == L!WindowComes(p) /\ UNCHANGED <<systemVars, targets, measured>>

FeedbackNext ==
  \/ Operates
  \/ \E p \in Publications : WindowComes(p)
  \/ \E m \in Pollers :
       \/ SelectPosts(m) \/ SlotStep(m)
       \/ \E p \in Publications, k \in L!Windows : Store(m, p, k)

FeedbackSpec == FeedbackInit /\ [][FeedbackNext]_feedbackVars

-----------------------------------------------------------------------------
(* Properties                                                              *)

(* Seen from the learning loop, publishing is that a post appears once and *)
(* never again: no retry, agent or later cycle dates a publication anew    *)
(* (stores.py:89-98), and what the slots select by status and post id      *)
(* (loop.py:75-83) is what appeared.  The whole implements LearningLoop.   *)
LoopSpec == L!Spec

(* All observations of a publication are of one post, the one on record,   *)
(* and it is live: polls that began before a step of the publish path and  *)
(* end after it included (loop.py:116-126).                                 *)
MeasuredIsRecorded ==
  \A p \in Publications : observed[p] # {} =>
    /\ measured[p] = {postId[p]}
    /\ postId[p] \in 1..posts[p]

(* A topic is credited no more often than it has posts that are live and   *)
(* went through review (loop.py:203-220, state_machine.py:78-81).          *)
Creditable(a) ==
  {p \in Publications : Arm[p] = a /\ HasPassed(p) /\ postId[p] \in 1..posts[p]}
TrialsHavePosts == \A a \in Arms : trials[a] <= Cardinality(Creditable(a))

(* A reward rests on an observation made after the post's 72-hour window   *)
(* came, and one that counts on a signal that is there and on enough other *)
(* posts of the platform (reward.py:9-14).                                 *)
RewardsEarned == L!RewardEarned
=============================================================================
