------------------------ MODULE FeedbackSystemProofs ------------------------
(***************************************************************************)
(* Theorems about the learning loop over the database of the cycles and    *)
(* the batches, for any processes, pollers, channels, topics and faults:   *)
(* the whole implements LearningLoop, what is measured is the post on      *)
(* record, and no topic is credited beyond its live, reviewed posts.       *)
(***************************************************************************)
EXTENDS FeedbackSystem, PublishSystemProofs, FiniteSetTheorems

LP == INSTANCE LearningLoopProofs WITH
        Workers <- Pollers, MaxCrashes <- MaxDeaths,
        pc <- slot, posts <- seen, crashes <- deaths

-----------------------------------------------------------------------------
(* The module of the proofs and the one of the model say the same.         *)

LEMMA ConstantsFit ==
  /\ Publications \subseteq Nat \ {0}
  /\ IsFiniteSet(Publications) /\ LP!IsFiniteSet(Publications)
<1>1. Publications = 1..MaxCycles /\ MaxCycles \in Nat
  BY CyclesAssumption, CountsAssumption
<1>2. IsFiniteSet(1..MaxCycles)
  BY <1>1, FS_Interval
<1>3. LP!IsFiniteSet(Publications) <=> IsFiniteSet(Publications)
  BY DEF LP!IsFiniteSet, IsFiniteSet
<1> QED
  BY <1>1, <1>2, <1>3

LEMMA SameLoopWords ==
  /\ LP!vars = L!vars /\ LP!Windows = L!Windows /\ LP!Published = L!Published
  /\ LP!Unborn = L!Unborn /\ LP!Open = L!Open /\ LP!Null = L!Null /\ LP!None = L!None
  /\ LP!Init <=> L!Init
BY DEF LP!vars, L!vars, LP!Windows, L!Windows, LP!Published, L!Published, LP!Unborn,
   L!Unborn, LP!Init, L!Init, LP!Open, L!Open, LP!Null, L!Null, LP!None, L!None

LEMMA SameLoopNext == L!Next <=> LP!Next
<1> USE DEF L!Ends, LP!Ends, L!data, LP!data, L!local, LP!local, L!Unborn, LP!Unborn,
     L!Open, LP!Open, L!Null, LP!Null, L!None, LP!None, L!Windows, LP!Windows,
     L!SETTLE_WINDOW_INDEX, LP!SETTLE_WINDOW_INDEX
<1>1. ASSUME NEW p PROVE /\ L!Publish(p) <=> LP!Publish(p)
                         /\ L!WindowComes(p) <=> LP!WindowComes(p)
  BY DEF L!Publish, LP!Publish, L!WindowComes, LP!WindowComes
<1>2. ASSUME NEW m
      PROVE  /\ L!SelectPosts(m) <=> LP!SelectPosts(m)
             /\ L!SelectObserved(m) <=> LP!SelectObserved(m)
             /\ L!SelectUnsettled(m) <=> LP!SelectUnsettled(m)
             /\ L!SlotDone(m) <=> LP!SlotDone(m)
             /\ L!Crash(m) <=> LP!Crash(m)
  BY DEF L!SelectPosts, LP!SelectPosts, L!SelectObserved, LP!SelectObserved,
     L!SelectUnsettled, LP!SelectUnsettled, L!SlotDone, LP!SlotDone, L!Crash, LP!Crash,
     L!Published, LP!Published, L!DueOf, LP!DueOf, L!Restrict, LP!Restrict
<1>3. ASSUME NEW m, NEW p, NEW k
      PROVE  /\ L!PollAnswers(m, p, k) <=> LP!PollAnswers(m, p, k)
             /\ L!PollRaises(m, p, k) <=> LP!PollRaises(m, p, k)
             /\ L!Store(m, p, k) <=> LP!Store(m, p, k)
             /\ L!StoreRaises(m, p, k) <=> LP!StoreRaises(m, p, k)
  BY DEF L!PollAnswers, LP!PollAnswers, L!PollRaises, LP!PollRaises, L!Store, LP!Store,
     L!StoreRaises, LP!StoreRaises, L!Present, LP!Present, L!Heard, LP!Heard,
     L!InstagramInsights, LP!InstagramInsights, L!YouTubeMetrics, LP!YouTubeMetrics
<1>4. ASSUME NEW m, NEW p
      PROVE  /\ L!Judge(m, p) <=> LP!Judge(m, p)
             /\ L!Record(m, p) <=> LP!Record(m, p)
             /\ L!RecordRaises(m, p) <=> LP!RecordRaises(m, p)
  <2>1. ASSUME NEW S PROVE L!Cardinality(S) = LP!Cardinality(S)
    BY DEF L!Cardinality, LP!Cardinality
  <2>2. L!Samples(p) = LP!Samples(p)
    BY DEF L!Samples, LP!Samples
  <2>3. L!Judgeable(p) <=> LP!Judgeable(p)
    BY <2>1, <2>2 DEF L!Judgeable, LP!Judgeable
  <2> QED
    BY <2>3 DEF L!Judge, LP!Judge, L!Record, LP!Record, L!RecordRaises, LP!RecordRaises,
       L!First, LP!First, L!Counts, LP!Counts
<1> QED
  BY <1>1, <1>2, <1>3, <1>4 DEF L!Next, LP!Next, L!Slot, LP!Slot

(* A step of the loop, for the lemmas of LearningLoopProofs.               *)
LEMMA LoopStep == [L!Next]_(L!vars) <=> [LP!Next]_(LP!vars)
BY SameLoopNext DEF LP!vars, L!vars

-----------------------------------------------------------------------------
(* What the publish path writes of a post                                  *)

LEMMA PostedIs ==
  ASSUME PostsInv, IdsAgree
  PROVE  Posted = {p \in Publications : postId[p] # 0}
BY DEF PostsInv, LedgerInv, AttemptInv, StatesAgree, IdsAgree, Posted, TERMINAL

-----------------------------------------------------------------------------
(* The inductive invariant                                                 *)

Dated == \A p \in Publications : age[p] # L!Unborn <=> postId[p] # 0

(* What a slot read is still what is on record, whenever it uses it.       *)
TargetsRecorded ==
  /\ DOMAIN targets = Pollers /\ targets = [m \in Pollers |-> targets[m]]
  /\ \A m \in Pollers : \A p \in DOMAIN targets[m] :
       p \in Publications /\ targets[m][p] = postId[p] /\ postId[p] # 0

(* And it polls nothing that it did not read.                              *)
SlotsAimed ==
  \A m \in Pollers :
    /\ DOMAIN seen[m] \subseteq DOMAIN targets[m]
    /\ \A d \in due[m] : d[1] \in DOMAIN targets[m]
    /\ slot[m] = "idle" => due[m] = {}

MeasuredOne ==
  /\ measured = [p \in Publications |-> IF observed[p] = {} THEN {} ELSE {postId[p]}]
  /\ \A p \in Publications : observed[p] # {} => postId[p] # 0

FeedbackInv ==
  PostsInv /\ IdsAgree /\ LP!Types /\ Dated /\ TargetsRecorded /\ SlotsAimed /\ MeasuredOne

LEMMA PostedIsPublished == ASSUME FeedbackInv PROVE Posted = L!Published
BY PostedIs DEF FeedbackInv, Dated, L!Published

-----------------------------------------------------------------------------
(* Each step is one of the loop, or none: the refinement.                  *)

(* A save that publishes is the appearance of a post; every other step of  *)
(* the cycles and the batches is none of the loop's.                       *)
LEMMA OperatesRefines ==
  ASSUME FeedbackInv, Operates
  PROVE  \/ UNCHANGED <<postId, L!vars>>
         \/ \E p \in Publications :
              /\ L!Publish(p) /\ postId[p] = 0 /\ postId'[p] # 0
              /\ \A q \in Publications \ {p} : postId'[q] = postId[q]
<1>1. /\ age = [p \in Publications |-> age[p]]
      /\ postId = [p \in Publications |-> postId[p]]
  BY DEF FeedbackInv, LP!Types, LP!TypeData, PostsInv, LedgerInv, SystemInv, TypeOK, DbTypeOK
<1>2. age' = [p \in Publications |-> IF postId'[p] # postId[p] THEN 0 ELSE age[p]]
  BY DEF Operates, Dates
<1>3. UNCHANGED <<observed, signal, reward, trials, rewardSum, slot, seen, due, unsettled,
                  polled, judged, deaths>>
  BY DEF Operates
<1>4. CASE postId' = postId
  BY <1>1, <1>2, <1>3, <1>4 DEF L!vars
<1>5. ASSUME NEW p \in Publications, NEW n \in Nat \ {0},
             postId[p] = 0, postId' = [postId EXCEPT ![p] = n]
      PROVE  /\ L!Publish(p) /\ postId'[p] # 0
             /\ \A q \in Publications \ {p} : postId'[q] = postId[q]
  <2>1. postId'[p] = n /\ \A q \in Publications \ {p} : postId'[q] = postId[q]
    BY <1>1, <1>5
  <2>2. age' = [age EXCEPT ![p] = 0]
    BY <1>1, <1>2, <1>5, <2>1
  <2>3. age[p] = L!Unborn
    BY <1>5 DEF FeedbackInv, Dated
  <2> QED
    BY <1>3, <2>1, <2>2, <2>3 DEF L!Publish, L!local
<1>6. PostsInv /\ IdsAgree /\ SystemNext
  BY DEF FeedbackInv, Operates
<1> QED
  BY <1>4, <1>5, <1>6, SystemIdsStep

LEMMA SelectRefines ==
  ASSUME FeedbackInv, NEW m \in Pollers, SelectPosts(m) PROVE L!SelectPosts(m)
BY PostedIsPublished DEF SelectPosts, L!SelectPosts, L!data, L!Restrict, Restrict

LEMMA SlotRefines ==
  ASSUME NEW m \in Pollers, SlotStep(m) \/ \E p \in Publications, k \in L!Windows : Store(m, p, k)
  PROVE  L!Slot(m) \/ L!Crash(m)
BY DEF SlotStep, Store, L!Slot

LEMMA FeedbackRefines ==
  ASSUME FeedbackInv, [FeedbackNext]_feedbackVars PROVE [L!Next]_(L!vars)
<1>1. CASE UNCHANGED feedbackVars
  BY <1>1 DEF feedbackVars, loopVars
<1>2. CASE Operates
  BY <1>2, OperatesRefines DEF L!Next
<1>3. ASSUME NEW p \in Publications, WindowComes(p) PROVE L!Next
  BY <1>3 DEF WindowComes, L!Next
<1>4. ASSUME NEW m \in Pollers, SelectPosts(m) PROVE L!Next
  BY <1>4, SelectRefines DEF L!Next, L!Slot
<1>5. ASSUME NEW m \in Pollers,
             SlotStep(m) \/ \E p \in Publications, k \in L!Windows : Store(m, p, k)
      PROVE  L!Next
  BY <1>5, SlotRefines DEF L!Next
<1> QED
  BY <1>1, <1>2, <1>3, <1>4, <1>5 DEF FeedbackNext

-----------------------------------------------------------------------------
(* The invariant is inductive                                              *)

LEMMA LoopConstants ==
  /\ Publications \subseteq Nat \ {0}
  /\ LP!IsFiniteSet(Publications)
  /\ Platform \in [Publications -> Platforms]
  /\ Serves \in [Pollers -> Platforms]
  /\ Arm \in [Publications -> Arms]
  /\ GoalKnown \subseteq Publications
  /\ Rewards \subseteq Nat /\ MinBaseline \in Nat /\ MaxDeaths \in Nat
BY ConstantsFit, PollersAssumption, LearningAssumption, PublicationsAssumption

LEMMA LoopTypes ==
  /\ L!Init => LP!Types
  /\ LP!Types /\ [L!Next]_(L!vars) => LP!Types'
<1>1. LP!Init => LP!Types
  BY LP!InitTypes, LoopConstants
<1>2. LP!Types /\ [LP!Next]_(LP!vars) => LP!TypeData'
  BY LP!DataStep, LoopConstants
<1>3. LP!Types /\ [LP!Next]_(LP!vars) => LP!TypeLocal'
  BY LP!LocalStep, LoopConstants
<1>4. LP!Types /\ [LP!Next]_(LP!vars) => deaths' \in 0..MaxDeaths
  BY LP!CrashesStep, LoopConstants
<1>5. (LP!TypeData /\ LP!TypeLocal /\ deaths \in 0..MaxDeaths)' => LP!Types'
  BY DEF LP!Types
<1> QED
  BY <1>1, <1>2, <1>3, <1>4, <1>5, LoopStep, SameLoopWords

LEMMA FeedbackInit1 == FeedbackInit => FeedbackInv
<1> SUFFICES ASSUME FeedbackInit PROVE FeedbackInv
  OBVIOUS
<1>1. PostsInv
  BY SystemInvInit, InitAttempt, InitLive, InitCount
     DEF FeedbackInit, SystemInit, C!Init, OneCommand, LedgerInv, PostsInv
<1>2. IdsAgree
  BY DEF FeedbackInit, SystemInit, Init, IdsAgree, NoAttempt
<1>3. LP!Types
  BY LoopTypes DEF FeedbackInit
<1>4. DOMAIN <<>> = {}
  OBVIOUS
<1>5. Dated /\ TargetsRecorded /\ SlotsAimed /\ MeasuredOne
  BY <1>4 DEF FeedbackInit, SystemInit, Init, L!Init, Dated, TargetsRecorded, SlotsAimed,
     MeasuredOne
<1> QED
  BY <1>1, <1>2, <1>3, <1>5 DEF FeedbackInv

LEMMA RecordsStep ==
  ASSUME FeedbackInv, [FeedbackNext]_feedbackVars
  PROVE  PostsInv' /\ IdsAgree'
<1>1. PostsInv /\ IdsAgree
  BY DEF FeedbackInv
<1>2. [SystemNext]_systemVars
  BY DEF FeedbackNext, feedbackVars, Operates, WindowComes, SelectPosts, SlotStep, Store
<1> QED
  BY <1>1, <1>2, PostsInvStep, SystemIdsStep

(* Time and the slots change no record and unsay no date.                  *)
LEMMA DatedStep ==
  ASSUME FeedbackInv, [FeedbackNext]_feedbackVars PROVE Dated'
<1> USE DEF Dated
<1>0. age \in [Publications -> L!Unborn..3] /\ Dated
  BY DEF FeedbackInv, LP!Types, LP!TypeData, LP!Unborn, L!Unborn
<1>1. CASE UNCHANGED <<age, postId>>
  BY <1>0, <1>1 DEF L!Unborn
<1>2. CASE Operates
  <2>1. ASSUME NEW p \in Publications, L!Publish(p), postId[p] = 0, postId'[p] # 0,
               \A q \in Publications \ {p} : postId'[q] = postId[q]
        PROVE  Dated'
    BY <1>0, <2>1 DEF L!Publish, L!Unborn
  <2> QED
    BY <1>1, <1>2, <2>1, OperatesRefines DEF L!vars
<1>3. ASSUME NEW p \in Publications, WindowComes(p) PROVE Dated'
  <2>1. UNCHANGED postId
    BY <1>3 DEF WindowComes, systemVars, vars
  <2>2. age[p] \in 0..2 /\ age' = [age EXCEPT ![p] = @ + 1]
    BY <1>3 DEF WindowComes, L!WindowComes, L!Windows
  <2> QED
    BY <1>0, <2>1, <2>2 DEF L!Unborn
<1>4. ASSUME NEW m \in Pollers, SelectPosts(m) PROVE UNCHANGED <<age, postId>>
  BY <1>4 DEF SelectPosts, systemVars, vars
<1>5. ASSUME NEW m \in Pollers, NEW p \in Publications, NEW k \in L!Windows, Store(m, p, k)
      PROVE  UNCHANGED <<age, postId>>
  BY <1>5 DEF Store, L!Store, systemVars, vars
<1>6. ASSUME NEW m \in Pollers, SlotStep(m) PROVE UNCHANGED <<age, postId>>
  BY <1>6 DEF SlotStep, L!SelectObserved, L!SelectUnsettled, L!SlotDone, L!Crash,
     L!PollAnswers, L!PollRaises, L!StoreRaises, L!Judge, L!Record, L!RecordRaises,
     L!data, systemVars, vars
<1> QED
  BY <1>1, <1>2, <1>3, <1>4, <1>5, <1>6 DEF FeedbackNext, feedbackVars, loopVars, L!vars,
     systemVars, vars

(* An id that is on record stays: it is written over an empty one only.    *)
LEMMA IdStays ==
  ASSUME FeedbackInv, [FeedbackNext]_feedbackVars
  PROVE  \A p \in Publications : postId[p] # 0 => postId'[p] = postId[p]
<1>1. CASE Operates
  BY <1>1, OperatesRefines
<1>2. ASSUME NEW m \in Pollers,
             SelectPosts(m) \/ SlotStep(m) \/ \E q \in Publications, k \in L!Windows : Store(m, q, k)
      PROVE  UNCHANGED postId
  BY <1>2 DEF SelectPosts, SlotStep, Store, systemVars, vars
<1>3. ASSUME NEW q \in Publications, WindowComes(q) PROVE UNCHANGED postId
  BY <1>3 DEF WindowComes, systemVars, vars
<1>4. CASE UNCHANGED feedbackVars
  BY <1>4 DEF feedbackVars, systemVars, vars
<1> QED
  BY <1>1, <1>2, <1>3, <1>4 DEF FeedbackNext

LEMMA TargetsStep ==
  ASSUME FeedbackInv, [FeedbackNext]_feedbackVars PROVE TargetsRecorded'
<1>0. TargetsRecorded
  BY DEF FeedbackInv
<1>1. ASSUME NEW m \in Pollers, NEW p \in DOMAIN targets[m]
      PROVE  p \in Publications /\ targets[m][p] = postId'[p] /\ postId'[p] # 0
  <2>1. p \in Publications /\ targets[m][p] = postId[p] /\ postId[p] # 0
    BY <1>0, <1>1 DEF TargetsRecorded
  <2>2. postId'[p] = postId[p]
    BY <2>1, IdStays
  <2> QED
    BY <2>1, <2>2
<1>2. CASE UNCHANGED targets
  BY <1>0, <1>1, <1>2 DEF TargetsRecorded
<1>3. ASSUME NEW m \in Pollers, targets' = [targets EXCEPT ![m] = <<>>]
      PROVE  TargetsRecorded'
  <2>1. DOMAIN <<>> = {}
    OBVIOUS
  <2> QED
    BY <1>0, <1>1, <1>3, <2>1 DEF TargetsRecorded
<1>4. ASSUME NEW m \in Pollers, SelectPosts(m) PROVE TargetsRecorded'
  <2>1. targets' = [targets EXCEPT ![m] = [p \in Posted |-> postId[p]]] /\ UNCHANGED postId
    BY <1>4 DEF SelectPosts, Restrict, systemVars, vars
  <2>2. DOMAIN targets' = Pollers /\ targets' = [n \in Pollers |-> targets'[n]]
    BY <1>0, <2>1 DEF TargetsRecorded
  <2>3. \A n \in Pollers \ {m} : targets'[n] = targets[n]
    BY <1>0, <2>1 DEF TargetsRecorded
  <2>4. targets'[m] = [p \in Posted |-> postId[p]]
    BY <1>0, <2>1 DEF TargetsRecorded
  <2>5. \A p \in DOMAIN targets'[m] :
          p \in Publications /\ targets'[m][p] = postId'[p] /\ postId'[p] # 0
    BY <2>1, <2>4 DEF Posted
  <2> QED
    BY <1>1, <2>2, <2>3, <2>5 DEF TargetsRecorded
<1>5. ASSUME NEW m \in Pollers, SlotStep(m) PROVE TargetsRecorded'
  BY <1>2, <1>3, <1>5 DEF SlotStep
<1> QED
  BY <1>2, <1>4, <1>5 DEF FeedbackNext, feedbackVars, Operates, WindowComes, Store

(* What a slot polls it reads once, together with the ids.                 *)
LEMMA AimedStep ==
  ASSUME FeedbackInv, [FeedbackNext]_feedbackVars PROVE SlotsAimed'
<1> DEFINE Aim(m) == /\ DOMAIN seen[m] \subseteq DOMAIN targets[m]
                     /\ \A d \in due[m] : d[1] \in DOMAIN targets[m]
                     /\ slot[m] = "idle" => due[m] = {}
<1>0. /\ slot \in [Pollers -> {"idle", "due", "poll", "store", "settle", "record"}]
      /\ DOMAIN seen = Pollers /\ seen = [m \in Pollers |-> seen[m]]
      /\ due \in [Pollers -> SUBSET (Publications \X L!Windows)]
      /\ DOMAIN targets = Pollers /\ targets = [m \in Pollers |-> targets[m]]
      /\ \A m \in Pollers : Aim(m)
  BY DEF FeedbackInv, LP!Types, LP!TypeLocal, LP!Windows, L!Windows, TargetsRecorded, SlotsAimed
<1> SUFFICES \A m \in Pollers : Aim(m)'
  BY DEF SlotsAimed
<1>1. CASE UNCHANGED <<slot, seen, due, targets>>
  BY <1>0, <1>1
<1>2. ASSUME NEW m \in Pollers, Aim(m)',
             \A n \in Pollers \ {m} : /\ slot'[n] = slot[n] /\ seen'[n] = seen[n]
                                      /\ due'[n] = due[n] /\ targets'[n] = targets[n]
      PROVE  \A n \in Pollers : Aim(n)'
  BY <1>0, <1>2
<1>e. DOMAIN <<>> = {}
  OBVIOUS
<1>3. ASSUME NEW m \in Pollers, SelectPosts(m) PROVE \A n \in Pollers : Aim(n)'
  <2>1. /\ seen'[m] = [p \in Posted |-> age[p]] /\ targets'[m] = [p \in Posted |-> postId[p]]
        /\ due'[m] = {} /\ UNCHANGED due
    BY <1>0, <1>3 DEF SelectPosts, Restrict
  <2>2. Aim(m)'
    BY <2>1
  <2>3. \A n \in Pollers \ {m} : /\ slot'[n] = slot[n] /\ seen'[n] = seen[n]
                                 /\ due'[n] = due[n] /\ targets'[n] = targets[n]
    BY <1>0, <1>3 DEF SelectPosts
  <2> QED
    BY <1>2, <2>2, <2>3
<1>4. ASSUME NEW m \in Pollers, SlotStep(m), slot'[m] = "idle" PROVE \A n \in Pollers : Aim(n)'
  <2>1. L!Ends(m)
    BY <1>0, <1>4 DEF SlotStep, L!SelectObserved, L!SelectUnsettled, L!SlotDone, L!Crash,
       L!PollAnswers, L!PollRaises, L!StoreRaises, L!Judge, L!Record, L!RecordRaises
  <2>2. targets' = [targets EXCEPT ![m] = <<>>]
    BY <1>4 DEF SlotStep
  <2>3. Aim(m)'
    BY <1>0, <1>e, <2>1, <2>2 DEF L!Ends
  <2>4. \A n \in Pollers \ {m} : /\ slot'[n] = slot[n] /\ seen'[n] = seen[n]
                                 /\ due'[n] = due[n] /\ targets'[n] = targets[n]
    BY <1>0, <2>1, <2>2 DEF L!Ends
  <2> QED
    BY <1>2, <2>3, <2>4
<1>5. ASSUME NEW m \in Pollers, slot'[m] # "idle",
             SlotStep(m) \/ \E p \in Publications, k \in L!Windows : Store(m, p, k)
      PROVE  \A n \in Pollers : Aim(n)'
  <2>1. targets' = targets
    BY <1>5 DEF SlotStep, Store
  <2>2. CASE L!SelectObserved(m)
    <3>1. due'[m] = L!DueOf(m) /\ seen'[m] = <<>>
      BY <1>0, <2>2 DEF L!SelectObserved
    <3>2. \A d \in L!DueOf(m) : d[1] \in DOMAIN targets[m]
      BY <1>0 DEF L!DueOf
    <3>3. Aim(m)'
      BY <1>e, <1>5, <2>1, <3>1, <3>2
    <3>4. \A n \in Pollers \ {m} : /\ slot'[n] = slot[n] /\ seen'[n] = seen[n]
                                   /\ due'[n] = due[n] /\ targets'[n] = targets[n]
      BY <1>0, <2>1, <2>2 DEF L!SelectObserved
    <3> QED
      BY <1>2, <3>3, <3>4
  <2>3. CASE ~L!SelectObserved(m)
    <3>1. /\ seen' = seen /\ due'[m] \subseteq due[m]
          /\ \A n \in Pollers \ {m} : slot'[n] = slot[n] /\ due'[n] = due[n]
      BY <1>0, <1>5, <2>3 DEF SlotStep, Store, L!SelectUnsettled, L!SlotDone, L!Crash,
         L!PollAnswers, L!PollRaises, L!Store, L!StoreRaises, L!Judge, L!Record,
         L!RecordRaises, L!Ends
    <3>2. Aim(m)'
      BY <1>0, <1>5, <2>1, <3>1
    <3> QED
      BY <1>2, <2>1, <3>1, <3>2
  <2> QED
    BY <2>2, <2>3
<1>6. ASSUME NEW m \in Pollers, NEW p \in Publications, NEW k \in L!Windows, Store(m, p, k)
      PROVE  slot'[m] # "idle"
  BY <1>0, <1>6 DEF Store, L!Store
<1>7. ASSUME NEW p \in Publications, Operates \/ WindowComes(p)
      PROVE  UNCHANGED <<slot, seen, due, targets>>
  BY <1>7 DEF Operates, WindowComes, L!WindowComes, L!local
<1>8. Operates => UNCHANGED <<slot, seen, due, targets>>
  BY DEF Operates
<1> QED
  BY <1>1, <1>3, <1>4, <1>5, <1>6, <1>7, <1>8 DEF FeedbackNext, feedbackVars, loopVars, L!vars

(* An observation is of the post that was read, which is the one on record.*)
LEMMA MeasuredStep ==
  ASSUME FeedbackInv, [FeedbackNext]_feedbackVars PROVE MeasuredOne'
<1> USE DEF MeasuredOne
<1>0. MeasuredOne /\ observed \in [Publications -> SUBSET L!Windows]
  BY DEF FeedbackInv, LP!Types, LP!TypeData, LP!Windows, L!Windows
<1>1. \A p \in Publications : postId[p] # 0 => postId'[p] = postId[p]
  BY IdStays
<1>2. CASE UNCHANGED <<observed, measured>>
  BY <1>0, <1>1, <1>2
<1>3. ASSUME NEW m \in Pollers, NEW p \in Publications, NEW k \in L!Windows, Store(m, p, k)
      PROVE  MeasuredOne'
  <2>1. /\ <<p, k>> \in due[m]
        /\ observed' = [observed EXCEPT ![p] = @ \cup {k}]
        /\ measured' = [measured EXCEPT ![p] = @ \cup {targets[m][p]}]
        /\ UNCHANGED postId
    BY <1>3 DEF Store, L!Store, L!Present, systemVars, vars
  <2>2. p \in DOMAIN targets[m]
    BY <2>1 DEF FeedbackInv, SlotsAimed
  <2>3. targets[m][p] = postId[p] /\ postId[p] # 0
    BY <2>2 DEF FeedbackInv, TargetsRecorded
  <2>4. observed'[p] # {} /\ measured'[p] = {postId[p]}
    BY <1>0, <2>1, <2>3
  <2>5. \A q \in Publications \ {p} : observed'[q] = observed[q] /\ measured'[q] = measured[q]
    BY <1>0, <2>1
  <2> QED
    BY <1>0, <2>1, <2>3, <2>4, <2>5
<1>4. ASSUME NEW m \in Pollers, SlotStep(m) PROVE UNCHANGED <<observed, measured>>
  BY <1>4 DEF SlotStep, L!SelectObserved, L!SelectUnsettled, L!SlotDone, L!Crash,
     L!PollAnswers, L!PollRaises, L!StoreRaises, L!Judge, L!Record, L!RecordRaises, L!data
<1>5. ASSUME NEW p \in Publications, WindowComes(p) PROVE UNCHANGED <<observed, measured>>
  BY <1>5 DEF WindowComes, L!WindowComes
<1> QED
  BY <1>2, <1>3, <1>4, <1>5 DEF FeedbackNext, feedbackVars, Operates, SelectPosts, loopVars, L!vars

LEMMA FeedbackInvStep == FeedbackInv /\ [FeedbackNext]_feedbackVars => FeedbackInv'
<1> SUFFICES ASSUME FeedbackInv, [FeedbackNext]_feedbackVars PROVE FeedbackInv'
  OBVIOUS
<1>1. LP!Types'
  BY LoopTypes, FeedbackRefines DEF FeedbackInv
<1> QED
  BY <1>1, RecordsStep, DatedStep, TargetsStep, AimedStep, MeasuredStep DEF FeedbackInv

LEMMA FeedbackInvHolds == FeedbackSpec => []FeedbackInv
BY FeedbackInit1, FeedbackInvStep, PTL DEF FeedbackSpec

-----------------------------------------------------------------------------
(* The theorems                                                            *)

(* Through the learning loop's eyes publishing is what LearningLoop takes  *)
(* it for: each post appears once and is never dated anew, and a slot's    *)
(* SELECT (loop.py:75-83) finds exactly what has appeared.  So all that    *)
(* LearningLoopProofs proves holds of the rewards of the whole system.     *)
THEOREM FeedbackImplementsLoop == FeedbackSpec => LoopSpec
<1>1. FeedbackInit => L!Init
  BY DEF FeedbackInit
<1>2. FeedbackInv /\ [FeedbackNext]_feedbackVars => [L!Next]_(L!vars)
  BY FeedbackRefines
<1> QED
  BY <1>1, <1>2, FeedbackInvHolds, PTL DEF FeedbackSpec, LoopSpec, L!Spec

LEMMA InvMeasures == FeedbackInv => MeasuredIsRecorded
<1> SUFFICES ASSUME FeedbackInv, NEW p \in Publications, observed[p] # {}
             PROVE  measured[p] = {postId[p]} /\ postId[p] \in 1..posts[p]
  BY DEF MeasuredIsRecorded
<1>1. measured[p] = {postId[p]} /\ postId[p] # 0
  BY DEF FeedbackInv, MeasuredOne
<1>2. ledger[p].state = "published"
  BY <1>1 DEF FeedbackInv, IdsAgree
<1>3. claims[p] # "made"
  BY DEF FeedbackInv, PostsInv, LedgerInv, AttemptInv, NoClaims
<1> QED
  BY <1>1, <1>2, <1>3 DEF FeedbackInv, PostsInv, LiveInv, PublishedIsLive

(* Every observation of a publication is of the one post on its record,    *)
(* and that post is live, although the id is read with the row and the     *)
(* poll answers later, over retries, faults and deaths of the publishers   *)
(* (loop.py:116-126, stores.py:89-98).                                     *)
THEOREM WhatIsMeasuredIsOnRecord == FeedbackSpec => []MeasuredIsRecorded
BY InvMeasures, FeedbackInvHolds, PTL

LEMMA LoopRuns == FeedbackSpec => LP!Spec
<1>1. L!Init => LP!Init
  BY SameLoopWords
<1>2. [L!Next]_(L!vars) => [LP!Next]_(LP!vars)
  BY LoopStep
<1>3. FeedbackSpec => L!Init /\ [][L!Next]_(L!vars)
  BY FeedbackImplementsLoop DEF LoopSpec, L!Spec
<1> QED
  BY <1>1, <1>2, <1>3, PTL DEF LP!Spec

LEMMA EarnedIsEarned == LP!RewardEarned <=> RewardsEarned
BY DEF RewardsEarned, L!RewardEarned, L!Samples, L!Open, L!Null,
       LP!RewardEarned, LP!Samples, LP!Open, LP!Null, L!Cardinality, LP!Cardinality

(* With the cycles, batches and agents writing the posts the slots poll,   *)
(* the loop's promises hold (LP has LearningLoop's own properties): the    *)
(* statistics of a topic are its rewards, a reward rests on an observation *)
(* of the 72-hour window and on enough samples, and what was observed or   *)
(* rewarded stays (loop.py:133, 203-220; reward.py:9-14).                  *)
THEOREM LoopPromisesHold ==
  FeedbackSpec => []LP!StatsMatchRewards /\ []RewardsEarned /\ LP!HistoryKept
<1>1. LP!Spec => []LP!StatsMatchRewards
  BY LP!StatisticsAreRewards, LoopConstants
<1>2. LP!Spec => []LP!RewardEarned
  BY LP!RewardsAreEarned, LoopConstants
<1>3. LP!Spec => LP!HistoryKept
  BY LP!HistoryStays, LoopConstants
<1> QED
  BY <1>1, <1>2, <1>3, EarnedIsEarned, LoopRuns, PTL

(* A reward that counts was earned by an observation, that by a live post, *)
(* and that by media that passed review.                                   *)
LEMMA JudgedIsCreditable ==
  ASSUME FeedbackInv, LP!RewardEarned, NEW a \in Arms
  PROVE  LP!Judged(a) \subseteq Creditable(a)
<1> SUFFICES ASSUME NEW p \in Publications, Arm[p] = a, reward[p] \notin {LP!Open, LP!Null}
             PROVE  HasPassed(p) /\ postId[p] \in 1..posts[p]
  BY DEF LP!Judged, Creditable
<1>1. observed[p] # {}
  BY DEF LP!RewardEarned
<1>2. postId[p] \in 1..posts[p]
  BY <1>1, InvMeasures DEF MeasuredIsRecorded
<1>3. posts[p] \in Nat
  BY DEF FeedbackInv, PostsInv, LedgerInv, SystemInv, TypeOK, NetTypeOK
<1>4. posts[p] > 0
  BY <1>2, <1>3
<1> QED
  BY <1>2, <1>4 DEF FeedbackInv, PostsInv, LedgerInv, SystemInv, GateInv, NothingUngated

(* A topic's trials never outnumber its posts that are live and went       *)
(* through review: whatever fails, dies or is retried, no reward of a post *)
(* that is not there, or twice of one that is (loop.py:203-220).           *)
THEOREM TrialsRestOnPosts == FeedbackSpec => []TrialsHavePosts
<1>1. LP!Spec => []LP!TrialsMatch
  BY LP!TrialsCountRewards, LoopConstants
<1>2. FeedbackInv /\ LP!TrialsMatch /\ RewardsEarned => TrialsHavePosts
  <2> SUFFICES ASSUME FeedbackInv, LP!TrialsMatch, RewardsEarned, NEW a \in Arms
               PROVE  trials[a] <= Cardinality(Creditable(a))
    BY DEF TrialsHavePosts
  <2>1. trials[a] = Cardinality(LP!Judged(a))
    BY DEF LP!TrialsMatch, LP!Cardinality, Cardinality
  <2>2. IsFiniteSet(Creditable(a))
    <3>1. Creditable(a) \subseteq Publications
      BY DEF Creditable
    <3> QED
      BY <3>1, ConstantsFit, FS_Subset
  <2> QED
    BY <2>1, <2>2, EarnedIsEarned, JudgedIsCreditable, FS_Subset
<1> QED
  BY <1>1, <1>2, FeedbackInvHolds, LoopRuns, LoopPromisesHold, PTL
=============================================================================
