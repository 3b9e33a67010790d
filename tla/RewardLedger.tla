---------------------------- MODULE RewardLedger ----------------------------
(***************************************************************************)
(* What the learning loop promises, whatever polls and batches it is made  *)
(* of: each publication is judged once, a held-back judgement (NULL) adds  *)
(* nothing to the statistics, any other one adds itself to its topic's row *)
(* in the same step.                                                       *)
(***************************************************************************)
EXTENDS Integers

CONSTANTS Publications, Arms, Arm, Rewards, Open, Null

VARIABLES
  reward,    \* a publication's judgement, Open before it is made
  trials,    \* topic_stats.trials of an arm
  rewardSum  \* topic_stats.reward_sum of an arm

Init ==
  /\ reward = [p \in Publications |-> Open]
  /\ trials = [a \in Arms |-> 0]
  /\ rewardSum = [a \in Arms |-> 0]

HoldBack(p) ==
  /\ reward[p] = Open
  /\ reward' = [reward EXCEPT ![p] = Null]
  /\ UNCHANGED <<trials, rewardSum>>

Judge(p, r) ==
  /\ reward[p] = Open
  /\ reward' = [reward EXCEPT ![p] = r]
  /\ trials' = [trials EXCEPT ![Arm[p]] = @ + 1]
  /\ rewardSum' = [rewardSum EXCEPT ![Arm[p]] = @ + r]

Next == \E p \in Publications : HoldBack(p) \/ \E r \in Rewards : Judge(p, r)

Spec == Init /\ [][Next]_<<reward, trials, rewardSum>>
=============================================================================
