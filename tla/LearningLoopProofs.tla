------------------------- MODULE LearningLoopProofs -------------------------
(***************************************************************************)
(* Theorems about LearningLoop, for every set of publications, workers,    *)
(* arms and rewards.                                                       *)
(***************************************************************************)
EXTENDS LearningLoop, FiniteSetTheorems, WellFoundedInduction, TLAPS

-----------------------------------------------------------------------------
(* Type correctness, in two halves                                         *)

TypeData ==
  /\ age \in [Publications -> Unborn..3]
  /\ observed \in [Publications -> SUBSET Windows]
  /\ signal \in [Publications -> Signals]
  /\ reward \in [Publications -> Rewards \cup {Open, Null}]
  /\ trials \in [Arms -> Nat] /\ rewardSum \in [Arms -> Nat]

(* The locals of a worker.  EXCEPT says nothing of a variable that is not  *)
(* a function of the workers, so that is part of the invariant.            *)
TypeLocal ==
  /\ pc \in [Workers -> {"idle", "due", "poll", "store", "settle", "record"}]
  /\ DOMAIN posts = Workers /\ posts = [w \in Workers |-> posts[w]]
  /\ due \in [Workers -> SUBSET (Publications \X Windows)]
  /\ unsettled \in [Workers -> SUBSET Publications]
  /\ polled \in [Workers -> Signals \cup {None}]
  /\ judged \in [Workers -> Rewards \cup {Open, Null}]
  /\ \A w \in Workers :
       /\ DOMAIN posts[w] \subseteq Publications
       /\ pc[w] = "store" => polled[w] # None
       /\ pc[w] = "record" => judged[w] # Open

Types == TypeData /\ TypeLocal /\ crashes \in 0..MaxCrashes

LEMMA InitTypes == Init => Types
<1> SUFFICES ASSUME Init PROVE Types
  OBVIOUS
<1>1. TypeData
  BY DEF Init, TypeData, Unborn, Signals
<1>2. TypeLocal
  BY DEF Init, TypeLocal
<1>3. crashes \in 0..MaxCrashes
  BY NumbersAssumption DEF Init
<1> QED
  BY <1>1, <1>2, <1>3 DEF Types

LEMMA EndsType ==
  ASSUME TypeLocal, NEW w \in Workers, Ends(w)
  PROVE  TypeLocal'
<1>1. DOMAIN <<>> = {}
  OBVIOUS
<1>2. /\ pc' \in [Workers -> {"idle", "due", "poll", "store", "settle", "record"}]
      /\ DOMAIN posts' = Workers /\ posts' = [v \in Workers |-> posts'[v]]
      /\ due' \in [Workers -> SUBSET (Publications \X Windows)]
      /\ unsettled' \in [Workers -> SUBSET Publications]
      /\ polled' \in [Workers -> Signals \cup {None}]
      /\ judged' \in [Workers -> Rewards \cup {Open, Null}]
  BY DEF Ends, TypeLocal
<1>3. \A v \in Workers : /\ DOMAIN posts'[v] \subseteq Publications
                         /\ pc'[v] = "store" => polled'[v] # None
                         /\ pc'[v] = "record" => judged'[v] # Open
  BY <1>1 DEF Ends, TypeLocal
<1> QED
  BY <1>2, <1>3 DEF TypeLocal

LEMMA DataStep == Types /\ [Next]_vars => TypeData'
<1> SUFFICES ASSUME Types, [Next]_vars PROVE TypeData'
  OBVIOUS
<1> USE DEF Types
<1>1. CASE UNCHANGED data
  BY <1>1 DEF TypeData, data
<1>2. ASSUME NEW p \in Publications, Publish(p) \/ WindowComes(p)
      PROVE  TypeData'
  <2>1. age' \in [Publications -> Unborn..3]
    BY <1>2 DEF Publish, WindowComes, TypeData, Windows, Unborn
  <2> QED
    BY <1>2, <2>1 DEF Publish, WindowComes, TypeData
<1>3. ASSUME NEW w \in Workers, NEW p \in Publications, NEW k \in Windows,
             Store(w, p, k)
      PROVE  TypeData'
  <2>1. polled[w] \in Signals
    BY <1>3 DEF Store, TypeLocal
  <2>2. observed' \in [Publications -> SUBSET Windows]
    BY <1>3 DEF Store, TypeData
  <2>3. signal' \in [Publications -> Signals]
    BY <1>3, <2>1 DEF Store, TypeData
  <2> QED
    BY <1>3, <2>2, <2>3 DEF Store, TypeData
<1>4. ASSUME NEW w \in Workers, NEW p \in Publications, Record(w, p)
      PROVE  TypeData'
  <2>1. judged[w] \in Rewards \cup {Null}
    BY <1>4 DEF Record, TypeLocal
  <2>2. reward' \in [Publications -> Rewards \cup {Open, Null}]
    BY <1>4, <2>1 DEF Record, TypeData
  <2>3. trials' \in [Arms -> Nat] /\ rewardSum' \in [Arms -> Nat]
    <3>1. CASE judged[w] = Null
      BY <1>4, <3>1 DEF Record, Counts, TypeData
    <3>2. CASE judged[w] # Null
      <4>1. judged[w] \in Nat /\ Arm[p] \in Arms
        BY <2>1, <3>2, NumbersAssumption, PublicationsAssumption
      <4>2. /\ trials' = [trials EXCEPT ![Arm[p]] = trials[Arm[p]] + 1]
            /\ rewardSum' = [rewardSum EXCEPT ![Arm[p]] = rewardSum[Arm[p]] + judged[w]]
        BY <1>4, <3>2 DEF Record, Counts
      <4> QED
        BY <4>1, <4>2 DEF TypeData
    <3> QED
      BY <3>1, <3>2
  <2> QED
    BY <1>4, <2>2, <2>3 DEF Record, TypeData
<1> QED
  BY <1>1, <1>2, <1>3, <1>4
     DEF Next, Slot, SelectPosts, SelectObserved, SelectUnsettled, SlotDone,
         PollAnswers, PollRaises, StoreRaises, Judge, RecordRaises, Crash, vars, data

LEMMA LocalStep == Types /\ [Next]_vars => TypeLocal'
<1> SUFFICES ASSUME Types, [Next]_vars PROVE TypeLocal'
  OBVIOUS
<1> USE DEF Types
<1>1. CASE UNCHANGED local
  BY <1>1 DEF TypeLocal, local
<1>2. ASSUME NEW w \in Workers, SelectPosts(w) PROVE TypeLocal'
  <2>1. DOMAIN Restrict(age, Published) \subseteq Publications
    BY DEF Restrict, Published, TypeData
  <2> QED
    BY <1>2, <2>1 DEF SelectPosts, TypeLocal
<1>3. ASSUME NEW w \in Workers, SelectObserved(w) PROVE TypeLocal'
  <2>1. DueOf(w) \subseteq Publications \X Windows
    BY DEF DueOf, TypeLocal
  <2>2. DOMAIN <<>> = {}
    OBVIOUS
  <2> QED
    BY <1>3, <2>1, <2>2 DEF SelectObserved, TypeLocal
<1>4. ASSUME NEW w \in Workers, SelectUnsettled(w) PROVE TypeLocal'
  BY <1>4 DEF SelectUnsettled, TypeLocal
<1>5. ASSUME NEW w \in Workers, NEW p \in Publications, NEW k \in Windows,
             PollAnswers(w, p, k)
      PROVE  TypeLocal'
  <2>1. Heard(Serves[w]) \subseteq Signals
    BY DEF Heard, InstagramInsights, YouTubeMetrics, Signals
  <2> QED
    BY <1>5, <2>1 DEF PollAnswers, TypeLocal, Signals, None
<1>6. ASSUME NEW w \in Workers, NEW p \in Publications, NEW k \in Windows,
             PollRaises(w, p, k) \/ Store(w, p, k)
      PROVE  TypeLocal'
  BY <1>6 DEF PollRaises, Store, TypeLocal
<1>7. ASSUME NEW w \in Workers, NEW p \in Publications, Judge(w, p)
      PROVE  TypeLocal'
  <2>1. PICK r \in Rewards \cup {Null} : judged' = [judged EXCEPT ![w] = r]
    BY <1>7 DEF Judge
  <2>2. r # Open
    BY NumbersAssumption DEF Open, Null
  <2> QED
    BY <1>7, <2>1, <2>2 DEF Judge, TypeLocal
<1>8. ASSUME NEW w \in Workers, NEW p \in Publications, Record(w, p)
      PROVE  TypeLocal'
  BY <1>8 DEF Record, TypeLocal
<1>9. ASSUME NEW w \in Workers, Ends(w) PROVE TypeLocal'
  BY <1>9, EndsType
<1> QED
  BY <1>1, <1>2, <1>3, <1>4, <1>5, <1>6, <1>7, <1>8, <1>9
     DEF Next, Publish, WindowComes, Slot, SlotDone, StoreRaises, RecordRaises,
         Crash, vars, local

LEMMA CrashesStep == Types /\ [Next]_vars => crashes' \in 0..MaxCrashes
<1> SUFFICES ASSUME Types, [Next]_vars PROVE crashes' \in 0..MaxCrashes
  OBVIOUS
<1>1. crashes' = crashes \/ (crashes < MaxCrashes /\ crashes' = crashes + 1)
  BY DEF Next, Publish, WindowComes, Slot, SelectPosts, SelectObserved,
         SelectUnsettled, SlotDone, PollAnswers, PollRaises, Store,
         StoreRaises, Judge, Record, RecordRaises, Crash, vars
<1> QED
  BY <1>1, NumbersAssumption DEF Types

LEMMA TypesHold == Spec => []Types
<1>1. Types /\ [Next]_vars => Types'
  BY DataStep, LocalStep, CrashesStep DEF Types
<1> QED
  BY InitTypes, <1>1, PTL DEF Spec

(* Every variable of the learning loop stays in its type.                  *)
THEOREM LoopTypeCorrect == Spec => []TypeOK
<1>1. Types => TypeOK
  BY DEF Types, TypeData, TypeLocal, TypeOK
<1> QED
  BY <1>1, TypesHold, PTL

-----------------------------------------------------------------------------
(* The loop implements RewardLedger                                        *)

(* Only Record touches rewards and statistics.                             *)
LEMMA LedgerVarsStep ==
  ASSUME [Next]_vars
  PROVE  \/ UNCHANGED <<reward, trials, rewardSum>>
         \/ \E w \in Workers, p \in Publications : Record(w, p)
BY DEF Next, Publish, WindowComes, Slot, SelectPosts, SelectObserved,
       SelectUnsettled, SlotDone, PollAnswers, PollRaises, Store,
       StoreRaises, Judge, RecordRaises, Crash, vars, data

(* Each publication is judged once and counted in the same step, whatever  *)
(* slots overlap and whoever dies (loop.py:203-220).                       *)
THEOREM LoopImplementsLedger == Spec => LedgerSpec
<1>1. Init => Ledger!Init
  BY DEF Init, Ledger!Init
<1>2. Types /\ [Next]_vars => [Ledger!Next]_<<reward, trials, rewardSum>>
  <2> SUFFICES ASSUME Types, NEW w \in Workers, NEW p \in Publications, Record(w, p)
               PROVE  Ledger!Next
    BY LedgerVarsStep
  <2>1. /\ reward[p] = Open
        /\ reward' = [reward EXCEPT ![p] = judged[w]]
        /\ Counts(p, judged[w])
    BY DEF Record
  <2>2. CASE judged[w] = Null
    BY <2>1, <2>2 DEF Counts, Ledger!Next, Ledger!HoldBack
  <2>3. CASE judged[w] # Null
    <3>1. judged[w] \in Rewards
      BY <2>3 DEF Record, Types, TypeLocal
    <3>2. Ledger!Judge(p, judged[w])
      BY <2>1, <2>3 DEF Counts, Ledger!Judge
    <3> QED
      BY <3>1, <3>2 DEF Ledger!Next
  <2> QED
    BY <2>2, <2>3
<1> QED
  BY <1>1, <1>2, TypesHold, PTL DEF Spec, LedgerSpec, Ledger!Spec

-----------------------------------------------------------------------------
(* The statistics count each judged publication once                       *)

TrialsMatch == \A a \in Arms : trials[a] = Cardinality(Judged(a))

LEMMA JudgedFinite == \A a \in Arms : IsFiniteSet(Judged(a))
<1> SUFFICES ASSUME NEW a \in Arms PROVE IsFiniteSet(Judged(a))
  OBVIOUS
<1>1. Judged(a) \subseteq Publications
  BY DEF Judged
<1> QED
  BY <1>1, PublicationsAssumption, FS_Subset

LEMMA TrialsMatchStep == Types /\ TrialsMatch /\ [Next]_vars => TrialsMatch'
<1> SUFFICES ASSUME Types, TrialsMatch, [Next]_vars, NEW a \in Arms
             PROVE  trials'[a] = Cardinality(Judged(a)')
  BY DEF TrialsMatch
<1> USE DEF Types, TypeData, TypeLocal
<1>1. CASE UNCHANGED <<reward, trials, rewardSum>>
  BY <1>1 DEF TrialsMatch, Judged
<1>2. ASSUME NEW w \in Workers, NEW p \in Publications, Record(w, p)
      PROVE  trials'[a] = Cardinality(Judged(a)')
  <2>1. /\ reward[p] = Open
        /\ reward' = [reward EXCEPT ![p] = judged[w]]
        /\ Counts(p, judged[w])
        /\ judged[w] \in Rewards \cup {Null}
    BY <1>2 DEF Record
  <2>2. CASE judged[w] = Null \/ Arm[p] # a
    <3>1. Judged(a)' = Judged(a)
      BY <2>1, <2>2 DEF Judged
    <3>2. trials'[a] = trials[a]
      BY <2>1, <2>2, PublicationsAssumption DEF Counts
    <3> QED
      BY <3>1, <3>2 DEF TrialsMatch
  <2>3. CASE judged[w] # Null /\ Arm[p] = a
    <3>1. judged[w] \notin {Open, Null}
      BY <2>1, <2>3, NumbersAssumption DEF Open, Null
    <3>2. Judged(a)' = Judged(a) \cup {p}
      BY <2>1, <2>3, <3>1 DEF Judged
    <3>3. p \notin Judged(a)
      BY <2>1 DEF Judged
    <3>4. Cardinality(Judged(a) \cup {p}) = Cardinality(Judged(a)) + 1
      BY <3>3, JudgedFinite, FS_AddElement
    <3>5. trials'[a] = trials[a] + 1
      BY <2>1, <2>3 DEF Counts
    <3> QED
      BY <3>2, <3>4, <3>5 DEF TrialsMatch
  <2> QED
    BY <2>2, <2>3
<1> QED
  BY <1>1, <1>2, LedgerVarsStep

(* topic_stats.trials is the number of publications of the arm whose       *)
(* reward is not NULL.                                                     *)
THEOREM TrialsCountRewards == Spec => []TrialsMatch
<1>1. Init => TrialsMatch
  <2> SUFFICES ASSUME Init, NEW a \in Arms PROVE trials[a] = Cardinality(Judged(a))
    BY DEF TrialsMatch
  <2>1. Judged(a) = {}
    BY DEF Init, Judged
  <2> QED
    BY <2>1, FS_EmptySet DEF Init
<1> QED
  BY <1>1, TrialsMatchStep, TypesHold, PTL DEF Spec

-----------------------------------------------------------------------------
(* Induction, over numbers and over the subsets of a finite set            *)

LEMMA Counting ==
  ASSUME NEW A, 0 \in A, \A n \in Nat : n \in A => n + 1 \in A
  PROVE  Nat \subseteq A
<1> DEFINE T == Nat \ A
           R == OpToRel(<, Nat)
<1> SUFFICES ASSUME T # {} PROVE FALSE
  OBVIOUS
<1>1. \E n \in T : \A m \in T : <<m, n>> \notin R
  <2>1. IsWellFoundedOn(R, Nat)
    BY NatLessThanWellFounded
  <2>2. T \subseteq Nat
    OBVIOUS
  <2> HIDE DEF R, T
  <2> QED
    BY <2>1, <2>2, WFMin
<1>2. PICK n \in T : \A m \in T : ~(m < n)
  BY <1>1 DEF OpToRel
<1>3. n # 0 /\ n - 1 \in Nat
  OBVIOUS
<1>4. n - 1 \in A
  BY <1>2, <1>3
<1> QED
  BY <1>3, <1>4

LEMMA TakingAway ==
  ASSUME NEW S, IsFiniteSet(S), NEW A, {} \in A,
         \A s \in SUBSET S : s # {} /\ (\A x \in s : s \ {x} \in A) => s \in A
  PROVE  SUBSET S \subseteq A
<1> DEFINE B == {n \in Nat : \A s \in SUBSET S : Cardinality(s) = n => s \in A}
<1>1. \A s \in SUBSET S : IsFiniteSet(s) /\ Cardinality(s) \in Nat
  BY FS_Subset, FS_CardinalityType
<1>2. 0 \in B
  BY <1>1, FS_EmptySet
<1>3. ASSUME NEW n \in Nat, n \in B PROVE n + 1 \in B
  <2> SUFFICES ASSUME NEW s \in SUBSET S, Cardinality(s) = n + 1 PROVE s \in A
    OBVIOUS
  <2>1. s # {}
    BY FS_EmptySet
  <2>2. ASSUME NEW x \in s PROVE s \ {x} \in A
    <3>1. Cardinality(s \ {x}) = n
      BY <1>1, FS_RemoveElement
    <3> QED
      BY <1>3, <3>1
  <2> QED
    BY <2>1, <2>2
<1> HIDE DEF B
<1>4. Nat \subseteq B
  BY <1>2, <1>3, Counting
<1> QED
  BY <1>1, <1>4 DEF B

-----------------------------------------------------------------------------
(* Sums over finite sets                                                   *)

(* What MapThenSumSet adds up is a function of the subsets of S.           *)
SumOf(f, s, g) == IF s = {} THEN 0 ELSE LET x == CHOOSE x \in s : TRUE IN f[x] + g[s \ {x}]
IsSum(g, f, S) == g = [s \in SUBSET S |-> SumOf(f, s, g)]

LEMMA SumsExist == ASSUME NEW f, NEW S, IsFiniteSet(S) PROVE \E g : IsSum(g, f, S)
<1> DEFINE Level(n) == {s \in SUBSET S : Cardinality(s) <= n}
           A == {n \in Nat : \E g : g = [s \in Level(n) |-> SumOf(f, s, g)]}
<1>1. \A s \in SUBSET S : IsFiniteSet(s) /\ Cardinality(s) \in Nat
  BY FS_Subset, FS_CardinalityType
<1>2. 0 \in A
  <2> DEFINE g == [s \in Level(0) |-> 0]
  <2>1. \A s \in Level(0) : s = {}
    BY <1>1, FS_EmptySet
  <2>2. g = [s \in Level(0) |-> SumOf(f, s, g)]
    BY <2>1 DEF SumOf
  <2> QED
    BY <2>2
<1>3. ASSUME NEW n \in Nat, n \in A PROVE n + 1 \in A
  <2>1. PICK g : g = [s \in Level(n) |-> SumOf(f, s, g)]
    BY <1>3
  <2> DEFINE h == [s \in Level(n + 1) |-> SumOf(f, s, g)]
  <2>2. ASSUME NEW s \in Level(n + 1), NEW x \in s PROVE s \ {x} \in Level(n)
    BY <1>1, FS_RemoveElement
  <2>3. ASSUME NEW s \in Level(n) PROVE s \in Level(n + 1) /\ h[s] = g[s]
    <3>1. s \in Level(n + 1)
      BY <1>1
    <3> QED
      BY <2>1, <3>1
  <2>4. ASSUME NEW s \in Level(n + 1) PROVE SumOf(f, s, g) = SumOf(f, s, h)
    <3>1. CASE s = {}
      BY <3>1 DEF SumOf
    <3>2. CASE s # {}
      <4> DEFINE x == CHOOSE x \in s : TRUE
      <4>1. x \in s
        BY <3>2
      <4> HIDE DEF h, Level
      <4>2. h[s \ {x}] = g[s \ {x}]
        BY <2>2, <2>3, <4>1
      <4> QED
        BY <4>2 DEF SumOf
    <3> QED
      BY <3>1, <3>2
  <2>5. h = [s \in Level(n + 1) |-> SumOf(f, s, h)]
    BY <2>4
  <2> HIDE DEF h
  <2> QED
    BY <2>5
<1> HIDE DEF A
<1>4. Nat \subseteq A
  BY <1>2, <1>3, Counting
<1>5. Cardinality(S) \in A
  BY <1>4, FS_CardinalityType
<1>6. Level(Cardinality(S)) = SUBSET S
  BY <1>1, FS_Subset
<1> QED
  BY <1>5, <1>6 DEF A, IsSum

LEMMA SumTyped ==
  ASSUME NEW S, IsFiniteSet(S), NEW f \in [S -> Nat], NEW g, IsSum(g, f, S)
  PROVE  g \in [SUBSET S -> Nat]
<1> DEFINE A == {s \in SUBSET S : g[s] \in Nat}
<1>1. {} \in A
  BY DEF IsSum, SumOf
<1>2. ASSUME NEW s \in SUBSET S, s # {}, \A x \in s : s \ {x} \in A PROVE s \in A
  <2> DEFINE x == CHOOSE x \in s : TRUE
  <2>1. x \in s /\ g[s] = f[x] + g[s \ {x}]
    BY <1>2 DEF IsSum, SumOf
  <2> HIDE DEF x
  <2>2. f[x] \in Nat /\ g[s \ {x}] \in Nat
    BY <1>2, <2>1
  <2> QED
    BY <2>1, <2>2
<1> HIDE DEF A
<1>3. SUBSET S \subseteq A
  BY <1>1, <1>2, TakingAway
<1> QED
  BY <1>3 DEF A, IsSum

(* Whatever element is taken away first, the sum is the same.              *)
LEMMA SumTakesAway ==
  ASSUME NEW S, IsFiniteSet(S), NEW f \in [S -> Nat], NEW g, IsSum(g, f, S)
  PROVE  \A s \in SUBSET S : \A p \in s : g[s] = f[p] + g[s \ {p}]
<1> DEFINE A == {s \in SUBSET S : \A p \in s : g[s] = f[p] + g[s \ {p}]}
<1>0. g \in [SUBSET S -> Nat]
  BY SumTyped
<1>1. {} \in A
  OBVIOUS
<1>2. ASSUME NEW s \in SUBSET S, s # {}, \A x \in s : s \ {x} \in A PROVE s \in A
  <2> DEFINE x == CHOOSE x \in s : TRUE
  <2>1. x \in s /\ g[s] = f[x] + g[s \ {x}]
    BY <1>2 DEF IsSum, SumOf
  <2> HIDE DEF x
  <2> SUFFICES ASSUME NEW p \in s, p # x PROVE g[s] = f[p] + g[s \ {p}]
    BY <2>1
  <2> DEFINE t == (s \ {x}) \ {p}
  <2>2. g[s \ {x}] = f[p] + g[t]
    BY <1>2, <2>1
  <2>3. g[s \ {p}] = f[x] + g[t]
    <3>1. x \in s \ {p} /\ (s \ {p}) \ {x} = t
      BY <2>1
    <3> QED
      BY <1>2, <3>1
  <2>4. t \in SUBSET S
    OBVIOUS
  <2> HIDE DEF t
  <2>5. f[x] \in Nat /\ f[p] \in Nat /\ g[t] \in Nat
    BY <1>0, <2>1, <2>4
  <2> QED
    BY <2>1, <2>2, <2>3, <2>5
<1> HIDE DEF A
<1>3. SUBSET S \subseteq A
  BY <1>1, <1>2, TakingAway
<1> QED
  BY <1>3 DEF A

(* A sum over a set is that of its elements' values, whatever else there   *)
(* is.                                                                     *)
LEMMA SumsAgree ==
  ASSUME NEW S, IsFiniteSet(S), NEW T, S \subseteq T, NEW e, NEW f,
         \A x \in S : e[x] = f[x],
         NEW g, IsSum(g, e, S), NEW h, IsSum(h, f, T)
  PROVE  g[S] = h[S]
<1> DEFINE A == {s \in SUBSET S : g[s] = h[s]}
<1>1. {} \in A
  BY DEF IsSum, SumOf
<1>2. ASSUME NEW s \in SUBSET S, s # {}, \A x \in s : s \ {x} \in A PROVE s \in A
  <2> DEFINE x == CHOOSE x \in s : TRUE
  <2>1. x \in s
    BY <1>2
  <2>2. g[s] = e[x] + g[s \ {x}] /\ h[s] = f[x] + h[s \ {x}]
    BY <1>2 DEF IsSum, SumOf
  <2> HIDE DEF x
  <2> QED
    BY <1>2, <2>1, <2>2
<1> HIDE DEF A
<1>3. SUBSET S \subseteq A
  BY <1>1, <1>2, TakingAway
<1> QED
  BY <1>3 DEF A

(* The sum of a model's formula.                                           *)
Sum(f, S) == MapThenSumSet(LAMBDA p : f[p], S)

LEMMA SumIs ==
  ASSUME NEW f, NEW S, IsFiniteSet(S)
  PROVE  \E g : IsSum(g, f, S) /\ Sum(f, S) = g[S]
<1>1. Sum(f, S) = (CHOOSE g : IsSum(g, f, S))[S]
  BY DEF Sum, MapThenSumSet, MapThenFoldSet, IsSum, SumOf
<1> QED
  BY <1>1, SumsExist

LEMMA SumNone == ASSUME NEW f PROVE Sum(f, {}) = 0
<1>1. PICK g : IsSum(g, f, {}) /\ Sum(f, {}) = g[{}]
  BY SumIs, FS_EmptySet
<1> QED
  BY <1>1 DEF IsSum, SumOf

LEMMA SumSame ==
  ASSUME NEW S, IsFiniteSet(S), NEW e, NEW f, \A x \in S : e[x] = f[x]
  PROVE  Sum(e, S) = Sum(f, S)
<1>1. PICK g : IsSum(g, e, S) /\ Sum(e, S) = g[S]
  BY SumIs
<1>2. PICK h : IsSum(h, f, S) /\ Sum(f, S) = h[S]
  BY SumIs
<1>3. g[S] = h[S]
  BY <1>1, <1>2, SumsAgree
<1> QED
  BY <1>1, <1>2, <1>3

LEMMA SumOneMore ==
  ASSUME NEW S, IsFiniteSet(S), NEW p, p \notin S, NEW T, T = S \cup {p},
         NEW e, NEW f, \A x \in S : e[x] = f[x], \A x \in T : f[x] \in Nat
  PROVE  Sum(f, T) = Sum(e, S) + f[p]
<1> DEFINE d == [x \in T |-> f[x]]
<1>1. IsFiniteSet(T) /\ T \ {p} = S /\ S \subseteq T /\ p \in T /\ d \in [T -> Nat]
  BY FS_AddElement
<1>2. (\A x \in S : e[x] = d[x]) /\ (\A x \in T : f[x] = d[x]) /\ d[p] = f[p]
  OBVIOUS
<1> HIDE DEF d
<1>3. PICK g : IsSum(g, e, S) /\ Sum(e, S) = g[S]
  BY SumIs
<1>4. PICK h : IsSum(h, d, T) /\ Sum(d, T) = h[T]
  BY <1>1, SumIs
<1>5. Sum(f, T) = Sum(d, T)
  BY <1>1, <1>2, SumSame
<1>6. g[S] = h[S]
  BY <1>1, <1>2, <1>3, <1>4, SumsAgree
<1>7. h \in [SUBSET T -> Nat]
  BY <1>1, <1>4, SumTyped
<1>8. h[T] = d[p] + h[S]
  BY <1>1, <1>4, SumTakesAway
<1> QED
  BY <1>1, <1>2, <1>3, <1>4, <1>5, <1>6, <1>7, <1>8

-----------------------------------------------------------------------------
(* The statistics are the sums of the rewards                              *)

SumsMatch == \A a \in Arms : rewardSum[a] = Sum(reward, Judged(a))

LEMMA JudgedAdds ==
  ASSUME NEW a \in Arms, NEW p, p \notin Judged(a),
         \A q \in Judged(a) : reward[q] = reward'[q],
         \A q \in Judged(a) \cup {p} : reward'[q] \in Nat
  PROVE  Sum(reward', Judged(a) \cup {p}) = Sum(reward, Judged(a)) + reward'[p]
<1> DEFINE S == Judged(a)
           T == S \cup {p}
           f == reward'
<1>1. /\ IsFiniteSet(S) /\ p \notin S /\ T = S \cup {p}
      /\ (\A x \in S : reward[x] = f[x]) /\ (\A x \in T : f[x] \in Nat)
  BY JudgedFinite
<1> HIDE DEF S, T, f
<1>2. Sum(f, T) = Sum(reward, S) + f[p]
  BY <1>1, SumOneMore
<1> QED
  BY <1>2 DEF S, T, f

LEMMA SumsMatchStep == Types /\ SumsMatch /\ [Next]_vars => SumsMatch'
<1> SUFFICES ASSUME Types, SumsMatch, [Next]_vars, NEW a \in Arms
             PROVE  rewardSum'[a] = Sum(reward', Judged(a)')
  BY DEF SumsMatch
<1> USE DEF Types, TypeData, TypeLocal
<1>1. CASE UNCHANGED <<reward, trials, rewardSum>>
  BY <1>1 DEF SumsMatch, Judged
<1>2. ASSUME NEW w \in Workers, NEW p \in Publications, Record(w, p)
      PROVE  rewardSum'[a] = Sum(reward', Judged(a)')
  <2>1. /\ reward[p] = Open
        /\ reward' = [reward EXCEPT ![p] = judged[w]]
        /\ Counts(p, judged[w])
        /\ judged[w] \in Rewards \cup {Null}
    BY <1>2 DEF Record
  <2>2. \A q \in Judged(a) : q # p /\ reward[q] = reward'[q] /\ reward'[q] \in Nat
    BY <2>1, NumbersAssumption DEF Judged
  <2>3. CASE judged[w] = Null \/ Arm[p] # a
    <3>1. Judged(a)' = Judged(a)
      BY <2>1, <2>3 DEF Judged
    <3>2. rewardSum'[a] = rewardSum[a]
      BY <2>1, <2>3, PublicationsAssumption DEF Counts
    <3>3. Sum(reward, Judged(a)) = Sum(reward', Judged(a))
      BY <2>2, JudgedFinite, SumSame
    <3> QED
      BY <3>1, <3>2, <3>3 DEF SumsMatch
  <2>4. CASE judged[w] # Null /\ Arm[p] = a
    <3>1. judged[w] \in Nat /\ judged[w] \notin {Open, Null}
      BY <2>1, <2>4, NumbersAssumption DEF Open, Null
    <3>2. Judged(a)' = Judged(a) \cup {p} /\ reward'[p] = judged[w]
      BY <2>1, <2>4, <3>1 DEF Judged
    <3>3. p \notin Judged(a)
      BY <2>2
    <3>4. Sum(reward', Judged(a) \cup {p}) = Sum(reward, Judged(a)) + reward'[p]
      <4>1. \A q \in Judged(a) : reward[q] = reward'[q]
        BY <2>2
      <4>2. \A q \in Judged(a) \cup {p} : reward'[q] \in Nat
        BY <2>2, <3>1, <3>2
      <4> QED
        BY <3>3, <4>1, <4>2, JudgedAdds
    <3>5. rewardSum'[a] = rewardSum[a] + judged[w]
      BY <2>1, <2>4 DEF Counts
    <3> QED
      BY <3>2, <3>4, <3>5 DEF SumsMatch
  <2> QED
    BY <2>3, <2>4
<1> QED
  BY <1>1, <1>2, LedgerVarsStep

(* topic_stats is, for each arm, the number and the sum of the rewards     *)
(* that are not NULL, each counted once (loop.py:203-220): through         *)
(* overlapping slots and crashes, for any number of publications.          *)
THEOREM StatisticsAreRewards == Spec => []StatsMatchRewards
<1>1. Init => SumsMatch
  <2> SUFFICES ASSUME Init, NEW a \in Arms PROVE rewardSum[a] = Sum(reward, Judged(a))
    BY DEF SumsMatch
  <2>1. Judged(a) = {}
    BY DEF Init, Judged
  <2> QED
    BY <2>1, SumNone DEF Init
<1>2. TrialsMatch /\ SumsMatch => StatsMatchRewards
  BY DEF TrialsMatch, SumsMatch, StatsMatchRewards, Sum
<1> QED
  BY <1>1, <1>2, SumsMatchStep, TrialsCountRewards, TypesHold, PTL DEF Spec

-----------------------------------------------------------------------------
(* No window early, and history kept                                       *)

(* A slot's snapshot of the ages is never ahead of them, and it polls no   *)
(* window that had not come.                                               *)
SlotNotAhead ==
  \A w \in Workers :
    /\ \A p \in DOMAIN posts[w] : posts[w][p] \in Int /\ posts[w][p] <= age[p]
    /\ \A d \in due[w] : d[2] < age[d[1]]

LEMMA AgeStep ==
  ASSUME Types, [Next]_vars, NEW p \in Publications
  PROVE  age[p] \in Int /\ age'[p] \in Int /\ age[p] <= age'[p]
<1> USE DEF Types, TypeData, Unborn
<1>1. age'[p] = age[p] \/ age'[p] = age[p] + 1
  BY DEF Next, Publish, WindowComes, Slot, SelectPosts, SelectObserved,
         SelectUnsettled, SlotDone, PollAnswers, PollRaises, Store,
         StoreRaises, Judge, Record, RecordRaises, Crash, vars, data, Windows
<1> QED
  BY <1>1

LEMMA SlotNotAheadStep == Types /\ SlotNotAhead /\ [Next]_vars => SlotNotAhead'
<1> SUFFICES ASSUME Types, SlotNotAhead, [Next]_vars, NEW w \in Workers
             PROVE  /\ \A p \in DOMAIN posts'[w] :
                         posts'[w][p] \in Int /\ posts'[w][p] <= age'[p]
                    /\ \A d \in due'[w] : d[2] < age'[d[1]]
  BY DEF SlotNotAhead
<1> USE DEF Types, TypeData, TypeLocal
<1> DEFINE PostsOK == \A p \in DOMAIN posts'[w] :
                        posts'[w][p] \in Int /\ posts'[w][p] <= age'[p]
           DueOK   == \A d \in due'[w] : d[2] < age'[d[1]]
<1>1. ASSUME posts'[w] = posts[w] \/ posts'[w] = <<>> PROVE PostsOK
  <2>1. DOMAIN <<>> = {}
    OBVIOUS
  <2>2. \A p \in DOMAIN posts[w] : posts[w][p] \in Int /\ posts[w][p] <= age'[p]
    <3> SUFFICES ASSUME NEW p \in DOMAIN posts[w]
                 PROVE  posts[w][p] \in Int /\ posts[w][p] <= age'[p]
      OBVIOUS
    <3>1. p \in Publications /\ posts[w][p] \in Int /\ posts[w][p] <= age[p]
      BY DEF SlotNotAhead
    <3> QED
      BY <3>1, AgeStep
  <2> QED
    BY <1>1, <2>1, <2>2
<1>2. ASSUME due'[w] \subseteq due[w] PROVE DueOK
  <2> SUFFICES ASSUME NEW d \in due[w] PROVE d[2] < age'[d[1]]
    BY <1>2
  <2>1. d[1] \in Publications /\ d[2] \in Int /\ d[2] < age[d[1]]
    BY DEF SlotNotAhead, Windows
  <2> QED
    BY <2>1, AgeStep
<1>3. ASSUME NEW v \in Workers, SelectPosts(v) PROVE PostsOK
  <2>1. CASE v # w
    BY <1>1, <1>3, <2>1 DEF SelectPosts
  <2>2. CASE v = w
    <3>1. age' = age /\ posts'[w] = Restrict(age, Published)
      BY <1>3, <2>2 DEF SelectPosts, data
    <3>2. Restrict(age, Published) = [p \in Published |-> age[p]]
      BY DEF Restrict
    <3>3. \A p \in Published : age[p] \in Int
      BY DEF Published, Unborn
    <3> QED
      BY <3>1, <3>2, <3>3
  <2> QED
    BY <2>1, <2>2
<1>4. ASSUME NEW v \in Workers, SelectObserved(v) PROVE DueOK
  <2>1. CASE v # w
    BY <1>2, <1>4, <2>1 DEF SelectObserved
  <2>2. CASE v = w
    <3>1. age' = age /\ due'[w] = DueOf(w)
      BY <1>4, <2>2 DEF SelectObserved, data
    <3>2. ASSUME NEW d \in DueOf(w) PROVE d[2] < age[d[1]]
      <4>1. /\ d[1] \in DOMAIN posts[w] /\ d[2] \in Int
            /\ d[2] < posts[w][d[1]]
        BY DEF DueOf, Windows
      <4>2. posts[w][d[1]] \in Int /\ posts[w][d[1]] <= age[d[1]]
        BY <4>1 DEF SlotNotAhead
      <4>3. age[d[1]] \in Int
        BY <4>1 DEF Unborn
      <4> QED
        BY <4>1, <4>2, <4>3
    <3> QED
      BY <3>1, <3>2
  <2> QED
    BY <2>1, <2>2
<1>5. ASSUME NEW v \in Workers, Ends(v) PROVE PostsOK /\ DueOK
  <2>1. posts'[w] = posts[w] \/ posts'[w] = <<>>
    BY <1>5 DEF Ends
  <2>2. due'[w] \subseteq due[w]
    BY <1>5 DEF Ends
  <2> QED
    BY <1>1, <1>2, <2>1, <2>2
<1>6. ASSUME posts' = posts PROVE PostsOK
  BY <1>1, <1>6
<1>7. ASSUME due' = due PROVE DueOK
  BY <1>2, <1>7
<1>8. ASSUME NEW v \in Workers, NEW p \in Publications, NEW k \in Windows,
             PollRaises(v, p, k) \/ Store(v, p, k)
      PROVE  DueOK
  BY <1>2, <1>8 DEF PollRaises, Store
<1>9. ASSUME NEW v \in Workers, SelectObserved(v) PROVE PostsOK
  BY <1>1, <1>9 DEF SelectObserved
<1> HIDE DEF PostsOK, DueOK
<1>10. PostsOK
  BY <1>3, <1>5, <1>6, <1>9
     DEF Next, Publish, WindowComes, Slot, SelectUnsettled, SlotDone,
         PollAnswers, PollRaises, Store, StoreRaises, Judge, Record,
         RecordRaises, Crash, vars, local
<1>11. DueOK
  BY <1>4, <1>5, <1>7, <1>8
     DEF Next, Publish, WindowComes, Slot, SelectPosts, SelectUnsettled,
         SlotDone, PollAnswers, StoreRaises, Judge, Record, RecordRaises,
         Crash, vars, local
<1> QED
  BY <1>10, <1>11 DEF PostsOK, DueOK

(* Only Store writes an observation.                                       *)
LEMMA ObservedStep ==
  ASSUME [Next]_vars
  PROVE  \/ observed' = observed
         \/ \E w \in Workers, q \in Publications, j \in Windows : Store(w, q, j)
<1>1. ASSUME NEW w \in Workers, Slot(w)
      PROVE  \/ observed' = observed
             \/ \E q \in Publications, j \in Windows : Store(w, q, j)
  BY <1>1 DEF Slot, SelectPosts, SelectObserved, SelectUnsettled, SlotDone,
              PollAnswers, PollRaises, StoreRaises, Judge, Record,
              RecordRaises, data
<1>2. ASSUME NEW w \in Workers, Crash(w) PROVE observed' = observed
  BY <1>2 DEF Crash, data
<1>3. ASSUME NEW p \in Publications, Publish(p) \/ WindowComes(p)
      PROVE  observed' = observed
  BY <1>3 DEF Publish, WindowComes
<1>4. CASE UNCHANGED vars
  BY <1>4 DEF vars
<1> QED
  BY <1>1, <1>2, <1>3, <1>4 DEF Next

LEMMA NotTooEarlyStep ==
  Types /\ SlotNotAhead /\ NotTooEarly /\ [Next]_vars => NotTooEarly'
<1> SUFFICES ASSUME Types, SlotNotAhead, NotTooEarly, [Next]_vars,
                    NEW p \in Publications, NEW k \in observed'[p]
             PROVE  k < age'[p]
  BY DEF NotTooEarly
<1> USE DEF Types, TypeData, TypeLocal
<1>1. k \in observed[p] \/ \E v \in Workers : <<p, k>> \in due[v]
  <2>1. ASSUME NEW w \in Workers, NEW q \in Publications, NEW j \in Windows,
               Store(w, q, j)
        PROVE  k \in observed[p] \/ \E v \in Workers : <<p, k>> \in due[v]
    <3>1. <<q, j>> \in due[w]
      BY <2>1 DEF Store, Present
    <3>2. observed' = [observed EXCEPT ![q] = @ \cup {j}]
      BY <2>1 DEF Store
    <3>3. CASE p = q
      <4>1. k \in observed[p] \cup {j}
        BY <3>2, <3>3
      <4> QED
        BY <3>1, <3>3, <4>1
    <3>4. CASE p # q
      BY <3>2, <3>4
    <3> QED
      BY <3>3, <3>4
  <2>2. CASE observed' = observed
    BY <2>2
  <2>3. CASE \E w \in Workers, q \in Publications, j \in Windows : Store(w, q, j)
    BY <2>1, <2>3
  <2> QED
    BY ObservedStep, <2>2, <2>3
<1>2. k \in Int /\ k < age[p]
  <2>1. CASE k \in observed[p]
    BY <2>1 DEF NotTooEarly, Windows
  <2>2. ASSUME NEW w \in Workers, <<p, k>> \in due[w]
        PROVE  k \in Int /\ k < age[p]
    <3>1. <<p, k>>[2] < age[<<p, k>>[1]] /\ k \in Windows
      BY <2>2 DEF SlotNotAhead
    <3> QED
      BY <3>1 DEF Windows
  <2> QED
    BY <1>1, <2>1, <2>2
<1> QED
  BY <1>2, AgeStep

LEMMA NotAheadInit == Init => SlotNotAhead /\ NotTooEarly
<1>1. DOMAIN <<>> = {}
  OBVIOUS
<1> QED
  BY <1>1 DEF Init, SlotNotAhead, NotTooEarly

(* No window is observed before it has come (loop.py:95), although a slot  *)
(* decides on a clock and on rows it read earlier.                         *)
THEOREM WindowsMature == Spec => []NotTooEarly
BY NotAheadInit, SlotNotAheadStep, NotTooEarlyStep, TypesHold, PTL DEF Spec

LEMMA HistoryStep ==
  ASSUME Types, [Next]_vars, NEW p \in Publications
  PROVE  /\ observed[p] \subseteq observed'[p]
         /\ 2 \in observed[p] => signal'[p] = signal[p]
         /\ reward[p] # Open => reward'[p] = reward[p]
<1> USE DEF Types, TypeData
<1>1. ASSUME NEW w \in Workers, NEW q \in Publications, NEW k \in Windows,
             Store(w, q, k)
      PROVE  /\ observed[p] \subseteq observed'[p]
             /\ 2 \in observed[p] => signal'[p] = signal[p]
  BY <1>1 DEF Store, SETTLE_WINDOW_INDEX
<1>2. (observed' = observed /\ signal' = signal)
      \/ \E w \in Workers, q \in Publications, k \in Windows : Store(w, q, k)
  BY DEF Next, Publish, WindowComes, Slot, SelectPosts, SelectObserved,
         SelectUnsettled, SlotDone, PollAnswers, PollRaises, StoreRaises,
         Judge, Record, RecordRaises, Crash, vars, data
<1>3. reward[p] # Open => reward'[p] = reward[p]
  BY LedgerVarsStep DEF Record
<1> QED
  BY <1>1, <1>2, <1>3

(* Observations and rewards, once stored, stay as they are: the UNIQUE     *)
(* constraints stop the slower of two slots (loop.py:133, 204).            *)
THEOREM HistoryStays == Spec => HistoryKept
<1>1. Types /\ [Next]_vars =>
        [\A p \in Publications :
           /\ observed[p] \subseteq observed'[p]
           /\ 2 \in observed[p] => signal'[p] = signal[p]
           /\ reward[p] # Open => reward'[p] = reward[p]]_vars
  BY HistoryStep
<1> QED
  BY <1>1, TypesHold, PTL DEF Spec, HistoryKept

-----------------------------------------------------------------------------
(* What a reward rests on                                                  *)

(* What a judgement that counts needs.                                     *)
Earns(p) == signal[p] # "missing" /\ Cardinality(Samples(p)) >= MinBaseline

(* A slot judges observed publications, and on a judgement that waits to   *)
(* be recorded nothing that happens meanwhile goes back: RewardEarned says *)
(* nothing of it before it is recorded.                                    *)
JudgedWell ==
  /\ \A w \in Workers :
       /\ \A p \in unsettled[w] : 2 \in observed[p]
       /\ pc[w] = "record" =>
            \A p \in Publications : First(w, p) /\ judged[w] # Null => Earns(p)
  /\ \A p \in Publications : reward[p] # Open =>
       2 \in observed[p] /\ (reward[p] # Null => Earns(p))

(* Samples only grow.                                                      *)
LEMMA EarnsStays ==
  ASSUME Types, [Next]_vars, NEW p \in Publications, 2 \in observed[p], Earns(p)
  PROVE  Earns(p)'
<1>1. signal'[p] # "missing"
  BY HistoryStep DEF Earns
<1>2. Samples(p) \subseteq Samples(p)'
  BY HistoryStep DEF Samples
<1>3. IsFiniteSet(Samples(p)) /\ IsFiniteSet(Samples(p)')
  <2>1. Samples(p) \subseteq Publications /\ Samples(p)' \subseteq Publications
    BY DEF Samples
  <2> QED
    BY <2>1, PublicationsAssumption, FS_Subset
<1>4. Cardinality(Samples(p)) <= Cardinality(Samples(p)')
  BY <1>2, <1>3, FS_Subset
<1>5. Cardinality(Samples(p)) \in Nat /\ Cardinality(Samples(p)') \in Nat
  BY <1>3, FS_CardinalityType
<1> QED
  BY <1>1, <1>4, <1>5, NumbersAssumption DEF Earns

LEMMA JudgeableEarns ==
  ASSUME NEW p \in Publications, Judgeable(p) PROVE Earns(p)
BY DEF Judgeable, Earns

(* Who changes what a slot is to settle, and how.                          *)
LEMMA SettlingStep ==
  ASSUME Types, [Next]_vars, NEW w \in Workers
  PROVE  \/ unsettled'[w] = unsettled[w] /\ judged'[w] = judged[w] /\ pc'[w] = pc[w]
         \/ /\ unsettled'[w] \subseteq unsettled[w] \cup
                 {p \in Publications : 2 \in observed[p]}
            /\ pc'[w] # "record"
         \/ \E p \in Publications : Judge(w, p)
<1> USE DEF Types, TypeLocal
<1>1. ASSUME NEW v \in Workers, Ends(v)
      PROVE  \/ unsettled'[w] = unsettled[w] /\ judged'[w] = judged[w] /\ pc'[w] = pc[w]
             \/ unsettled'[w] \subseteq unsettled[w] /\ pc'[w] # "record"
  BY <1>1 DEF Ends
<1>2. ASSUME NEW v \in Workers,
             \/ SelectPosts(v) \/ SelectObserved(v) \/ SelectUnsettled(v)
             \/ \E p \in Publications, k \in Windows :
                  PollAnswers(v, p, k) \/ PollRaises(v, p, k) \/ Store(v, p, k)
             \/ \E p \in Publications : Record(v, p)
      PROVE  \/ unsettled'[w] = unsettled[w] /\ judged'[w] = judged[w] /\ pc'[w] = pc[w]
             \/ /\ unsettled'[w] \subseteq unsettled[w] \cup
                     {p \in Publications : 2 \in observed[p]}
                /\ pc'[w] # "record"
  BY <1>2 DEF SelectPosts, SelectObserved, SelectUnsettled, PollAnswers, PollRaises,
              Store, Record, SETTLE_WINDOW_INDEX
<1>3. ASSUME NEW v \in Workers, NEW p \in Publications, Judge(v, p), v # w
      PROVE  unsettled'[w] = unsettled[w] /\ judged'[w] = judged[w] /\ pc'[w] = pc[w]
  BY <1>3 DEF Judge
<1>4. CASE UNCHANGED local
  BY <1>4 DEF local
<1> QED
  BY <1>1, <1>2, <1>3, <1>4
     DEF Next, Publish, WindowComes, Slot, SlotDone, StoreRaises, RecordRaises, Crash,
         vars, local

LEMMA JudgedWellStep == Types /\ JudgedWell /\ [Next]_vars => JudgedWell'
<1> SUFFICES ASSUME Types, JudgedWell, [Next]_vars PROVE JudgedWell'
  OBVIOUS
<1>1. ASSUME NEW w \in Workers
      PROVE  /\ \A p \in unsettled'[w] : 2 \in observed'[p]
             /\ pc'[w] = "record" => \A p \in Publications :
                  First(w, p)' /\ judged'[w] # Null => Earns(p)'
  <2>1. ASSUME NEW p, p \in unsettled[w] \/ (p \in Publications /\ 2 \in observed[p])
        PROVE  p \in Publications /\ 2 \in observed[p] /\ 2 \in observed'[p]
    <3>1. p \in Publications /\ 2 \in observed[p]
      BY <2>1 DEF Types, TypeLocal, JudgedWell
    <3> QED
      BY <3>1, HistoryStep
  <2>2. CASE unsettled'[w] = unsettled[w] /\ judged'[w] = judged[w] /\ pc'[w] = pc[w]
    <3>1. ASSUME pc'[w] = "record", NEW p \in Publications, First(w, p)', judged'[w] # Null
          PROVE  Earns(p)'
      <4>1. p \in unsettled[w] /\ Earns(p)
        BY <2>2, <3>1 DEF JudgedWell, First
      <4> QED
        BY <2>1, <4>1, EarnsStays
    <3> QED
      BY <2>1, <2>2, <3>1
  <2>3. CASE /\ unsettled'[w] \subseteq unsettled[w] \cup
                  {p \in Publications : 2 \in observed[p]}
             /\ pc'[w] # "record"
    BY <2>1, <2>3
  <2>4. ASSUME NEW q \in Publications, Judge(w, q)
        PROVE  /\ \A p \in unsettled'[w] : 2 \in observed'[p]
               /\ \A p \in Publications :
                    First(w, p)' /\ judged'[w] # Null => Earns(p)'
    <3>1. unsettled' = unsettled /\ First(w, q)
      BY <2>4 DEF Judge
    <3>2. ASSUME NEW p \in Publications, First(w, p)', judged'[w] # Null
          PROVE  Earns(p)'
      <4>1. p = q
        BY <3>1, <3>2, PublicationsAssumption DEF First
      <4>2. Judgeable(q)
        BY <2>4, <3>2 DEF Judge, Types, TypeLocal
      <4>3. q \in unsettled[w]
        BY <3>1 DEF First
      <4> QED
        BY <2>1, <4>1, <4>2, <4>3, JudgeableEarns, EarnsStays
    <3> QED
      BY <2>1, <3>1, <3>2
  <2> QED
    BY <2>2, <2>3, <2>4, SettlingStep
<1>2. ASSUME NEW p \in Publications, reward'[p] # Open
      PROVE  2 \in observed'[p] /\ (reward'[p] # Null => Earns(p)')
  <2>1. 2 \in observed[p] /\ (reward'[p] # Null => Earns(p))
    <3>1. CASE reward'[p] = reward[p]
      BY <1>2, <3>1 DEF JudgedWell
    <3>2. ASSUME NEW w \in Workers, Record(w, p) PROVE
               2 \in observed[p] /\ (reward'[p] # Null => Earns(p))
      <4>1. pc[w] = "record" /\ First(w, p) /\ reward'[p] = judged[w]
        BY <3>2 DEF Record, Types, TypeData
      <4> QED
        BY <4>1 DEF JudgedWell, First
    <3>3. reward'[p] = reward[p] \/ \E w \in Workers : Record(w, p)
      BY LedgerVarsStep DEF Record, Types, TypeData
    <3> QED
      BY <3>1, <3>2, <3>3
  <2> QED
    BY <2>1, HistoryStep, EarnsStays
<1> QED
  BY <1>1, <1>2 DEF JudgedWell

(* A reward rests on an observation made after the 72-hour window came,    *)
(* and one that counts rests on a signal that is there and on enough       *)
(* samples, although both were read before the transaction that records it *)
(* and other slots ran in between (reward.py:9-14, loop.py:203).           *)
THEOREM RewardsAreEarned == Spec => []RewardEarned
<1>1. Init => JudgedWell
  BY DEF Init, JudgedWell
<1>2. Types /\ NotTooEarly /\ JudgedWell => RewardEarned
  <2> SUFFICES ASSUME Types, NotTooEarly, JudgedWell, NEW p \in Publications,
                      reward[p] # Open
               PROVE  /\ 2 \in observed[p] /\ age[p] = 3
                      /\ reward[p] # Null =>
                           signal[p] # "missing" /\ Cardinality(Samples(p)) >= MinBaseline
    BY DEF RewardEarned
  <2>1. 2 \in observed[p] /\ (reward[p] # Null => Earns(p))
    BY DEF JudgedWell
  <2>2. 2 < age[p] /\ age[p] \in -1..3
    BY <2>1 DEF NotTooEarly, Types, TypeData, Unborn
  <2> QED
    BY <2>1, <2>2 DEF Earns
<1> QED
  BY <1>1, <1>2, JudgedWellStep, TypesHold, WindowsMature, PTL DEF Spec
=============================================================================
